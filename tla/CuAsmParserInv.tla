---------------------------- MODULE CuAsmParserInv ----------------------------
(***************************************************************************)
(* The inductive invariants of the assembler, pass by pass: TypeInv,       *)
(* LayoutInv, LandInv, CoverInv and RefInv, with their parts and what the  *)
(* steps keep of them.  The proofs are in CuAsmParserProofs.               *)
(***************************************************************************)
EXTENDS CuAsmParser

-----------------------------------------------------------------------------
(* Sets of numbers.                                                        *)

\* The k-th of a finite set of numbers is one of them.
Below(T, i) == {j \in T : j < i}
HasNth(T, k) == \E i \in T : Cardinality(Below(T, i)) = k - 1

-----------------------------------------------------------------------------
(* Lists of attributes.                                                    *)

IsSeq(s) == s \in Seq({s[k] : k \in DOMAIN s})
IsAttrs(attrs) == IsSeq(attrs) /\ \A k \in DOMAIN attrs : IsFiniteSet(DOMAIN attrs[k].val)

\* What is decoded is a list of attributes.
HasNumbers(items) == \A a \in DOMAIN items : DOMAIN items[a] = {"head", "num"} /\ items[a].num \in Int

-----------------------------------------------------------------------------
(* The types of what the passes leave to each other.                       *)

Stages == {"scan", "gather", "tables", "fixups", "kernels", "regcounts", "relocations",
           "layout", "segments", "symtab", "save", "done", "failed"}
SectionFields == {"name", "type", "regs", "line", "align", "items", "attrs", "code", "entries",
                  "size", "pos", "at", "mem", "pad"}
IsSection(t) ==
  /\ DOMAIN t = SectionFields
  /\ t.name \in Seq(STRING) /\ t.line \in Nat /\ t.align \in Alignments
  /\ t.size \in Nat /\ t.pos \in Nat /\ t.at \in Nat /\ t.mem \in Nat /\ t.pad \in Nat
  /\ HasNumbers(t.items)

\* The null section is the first and empty: nothing is put there.
NullIsEmpty ==
  \A s \in DOMAIN sections : sections[s].name = <<>> =>
    /\ s = 1 /\ sections[s].size = 0 /\ sections[s].pos = 0
    /\ stage = "scan" /\ cur = s /\ next <= Len(src.lines) => Line.op \in {"section", "segment"}

SectionsTyped ==
  /\ IsSeq(sections)
  /\ \A s \in DOMAIN sections : IsSection(sections[s])
  /\ \A s, t \in DOMAIN sections : sections[s].name = sections[t].name => s = t
  /\ NullIsEmpty

LabelsTyped == IsSeq(labels) /\ \A l \in DOMAIN labels : DOMAIN labels[l] = {"name", "sec", "at"} /\ labels[l].at \in Int
FixupsTyped == IsSeq(fixups) /\ \A f \in DOMAIN fixups : fixups[f].sec \in DOMAIN sections /\ IsExpr(fixups[f].expr)
RelsTyped == IsSeq(rels) /\ \A r \in DOMAIN rels : rels[r].sec \in DOMAIN sections
SegmentsTyped ==
  /\ IsSeq(segments)
  /\ \A k \in DOMAIN segments : DOMAIN segments[k] = {"type", "first", "last", "at", "filesz", "memsz"}

\* Nothing is laid out before the relocation sections are made.
Unplaced == {"scan", "gather", "tables", "fixups", "kernels", "regcounts", "relocations"}
NothingPlaced == stage \in Unplaced => end = Start /\ \A s \in DOMAIN sections : sections[s].pad = 0

TypeInv ==
  /\ src \in Sources \cup Again /\ stage \in Stages /\ next \in Nat \ {0}
  /\ cur \in {0} \cup DOMAIN sections /\ insIndex \in Nat
  /\ SectionsTyped /\ LabelsTyped /\ FixupsTyped /\ RelsTyped /\ SegmentsTyped
  /\ \A k \in DOMAIN offLabels : IsSeq(offLabels[k])
  /\ DOMAIN symtab \subseteq Int
  /\ DOMAIN end = {"file", "mem"} /\ end.file \in Nat /\ end.mem \in Nat
  /\ stage = "scan" => Len(sections) < next
  /\ NothingPlaced

-----------------------------------------------------------------------------
(* What a pass may do to a section: the null section stays empty.          *)

Changed(t, e) ==
  /\ IsSection(e) /\ e.name = t.name /\ e.type = t.type /\ e.line = t.line
  /\ t.name = <<>> => e.size = t.size /\ e.pos = t.pos
SamePlace(t, e) == e.at = t.at /\ e.mem = t.mem /\ e.pad = t.pad
Worked ==
  /\ IsSeq(sections') /\ DOMAIN sections' = DOMAIN sections
  /\ \A s \in DOMAIN sections : Changed(sections[s], sections'[s])
  /\ stage # "layout" => \A s \in DOMAIN sections : sections'[s].pad = sections[s].pad
InPlace == \A s \in DOMAIN sections : SamePlace(sections[s], sections'[s])

EndTyped == DOMAIN end = {"file", "mem"} /\ end.file \in Nat /\ end.mem \in Nat

\* A section put at its offsets.
PlacedAt(t, a, m, e) ==
  Changed(t, e) /\ e.at = a /\ e.mem = m /\ e.size = t.size /\ e.pad = t.pad /\ e.align = t.align

-----------------------------------------------------------------------------
(* Where the sections laid out so far are.  In the file every section      *)
(* begins where the bytes saved of the one before it end.  In memory it    *)
(* begins no earlier than the one before it ends, provided that no code    *)
(* follows a NOBITS section: code is padded to what the file calls for,    *)
(* and only as long as the file and memory agree does memory call for it.  *)

FileAfter(p) == IF p = 0 THEN 64 ELSE sections[p].at + SavedSize(p)
MemAfter(p) == IF p = 0 THEN 64 ELSE sections[p].mem + sections[p].size
CodeFirst == \A s, t \in DOMAIN sections : NoBits(s) /\ s < t => ~IsText(sections[t].name)

OnAlignment(s) ==
  ~NoBits(s) /\ Previous(s) # 0 /\ ~NoBits(Previous(s)) => Aligned(sections[s].at, sections[s].align) = sections[s].at
LaidOut(n) ==
  /\ \A t \in DOMAIN sections : t >= n - 1 \/ sections[t].name = <<>> => sections[t].pad = 0
  /\ end.file = FileAfter(Previous(n)) /\ end.mem = MemAfter(Previous(n))
  /\ \A s \in DOMAIN sections : s < n /\ sections[s].name # <<>> =>
       sections[s].at = FileAfter(Previous(s)) /\ OnAlignment(s)
InMemory(n) ==
  CodeFirst =>
    /\ (\A t \in DOMAIN sections : t < n => ~NoBits(t)) => end.file = end.mem
    /\ \A s \in DOMAIN sections : s < n /\ sections[s].name # <<>> => MemAfter(Previous(s)) <= sections[s].mem

HasRange(g) ==
  Ranged(g) /\ g.first # PHDR =>
    /\ HasEdge(g.first) /\ HasEdge(g.last)
    /\ g.at = StartOf(g.first).file
    /\ g.filesz = EndOf(g.last).file - StartOf(g.first).file
    /\ g.memsz = EndOf(g.last).mem - StartOf(g.first).mem

LayoutInv ==
  /\ stage = "layout" => next <= Len(sections) + 1 /\ LaidOut(next) /\ InMemory(next)
  /\ stage \in {"segments", "symtab", "save", "done"} => LaidOut(Len(sections) + 1) /\ InMemory(Len(sections) + 1)
  /\ stage \in {"symtab", "save", "done"} => \A k \in DOMAIN segments : HasRange(segments[k])
  /\ FileMatchesHeaders

-----------------------------------------------------------------------------
(* What a segment holds.                                                   *)

Bytes(s) == IF NoBits(s) THEN 0 ELSE sections[s].size

\* The section s lies before the section t, and so does its end.
Lies(s, t) ==
  /\ sections[s].at <= sections[t].at /\ sections[s].at + Bytes(s) <= sections[t].at + Bytes(t)
  /\ sections[s].mem + sections[s].size <= sections[t].mem + sections[t].size

\* The segments go from a section to a section or are the headers alone.
Between == \A k \in DOMAIN segments : segments[k].last = PHDR => segments[k].first = PHDR

-----------------------------------------------------------------------------
(* Where the labels are put, and where the jumps go.  Text sections are    *)
(* taken to hold instructions only, aligned before the first: data between *)
(* them would move a label that follows away from the instructions.        *)

\* The line i belongs to the section that the line a opens.
Within(a, i) ==
  /\ a \in 1..i /\ src.lines[a].op = "section"
  /\ \A j \in (a + 1)..i : src.lines[j].op \notin {"section", "segment"}

CodeOnly ==
  \A a, i \in 1..Len(src.lines) : Within(a, i) /\ IsText(src.lines[a].name) =>
    /\ src.lines[i].op \notin {"data", "zero"}
    /\ src.lines[i].op = "align" => \A j \in a..(i - 1) : src.lines[j].op # "code"

\* Where n instructions end, and where a jump to the one behind them has to go.
CodeEnd(n) == IF n = 0 THEN 0 ELSE Offset(n - 1) + Unit
JumpTo(n) == Offset(n) - IF src.grouped /\ n % 3 = 0 THEN 8 ELSE 0

\* The line i defines the label l; it is put at the instruction behind it if
\* that is to be jumped from, otherwise behind the one before it.
Defines(i, l) ==
  /\ src.lines[i].op = "label" /\ src.lines[i].name = labels[l].name
  /\ Within(sections[labels[l].sec].line, i)
ForSource(i, l) == Before(labels[l].sec, i) > 0 /\ BeforeSource(i)
AtSource(i, l) == ForSource(i, l) => labels[l].at = Offset(Before(labels[l].sec, i))
AtEnd(i, l) == CodeOnly /\ ~ForSource(i, l) => labels[l].at = CodeEnd(Before(labels[l].sec, i))
NoName == ""
InCode(l) == labels[l].name # NoName /\ IsText(sections[labels[l].sec].name)

\* What n lines have been made into.
SectionsFrom(n) ==
  \A s \in DOMAIN sections : LET a == sections[s].line IN
    a \in 1..n /\ src.lines[a].op = "section" /\ src.lines[a].name = sections[s].name
LabelsFrom(n) ==
  /\ \A i \in 1..n : src.lines[i].op = "label" => HasLabel(src.lines[i].name)
  /\ \A i, j \in 1..n : src.lines[i].op = "label" /\ src.lines[j].op = "label" /\ src.lines[i].name = src.lines[j].name => i = j
  /\ \A l \in DOMAIN labels : labels[l].sec \in DOMAIN sections
  /\ \A l, k \in DOMAIN labels : labels[l].name = labels[k].name /\ labels[l].name # NoName => l = k
  /\ \A l \in DOMAIN labels : InCode(l) => \E i \in 1..n : Defines(i, l) /\ AtSource(i, l)
EndsFrom(n) == \A l \in DOMAIN labels : InCode(l) => \E i \in 1..n : Defines(i, l) /\ AtEnd(i, l)
CursorIs(n) ==
  cur # 0 => /\ Within(sections[cur].line, n)
             /\ IsText(sections[cur].name) => insIndex = Before(cur, n + 1)
             /\ IsText(sections[cur].name) /\ CodeOnly => sections[cur].pos = CodeEnd(insIndex)
RoomFor(n) ==
  \A s \in DOMAIN sections : \A i \in 1..n :
    src.lines[i].op = "code" /\ Within(sections[s].line, i) => sections[s].size >= Offset(Before(s, i)) + Unit

\* The labels that move with the padding are not for a jump's source.
EndsMove ==
  \A s \in DOMAIN sizeLabel :
    /\ sizeLabel[s] \in DOMAIN labels
    /\ InCode(sizeLabel[s]) => \A i \in 1..Len(src.lines) : Defines(i, sizeLabel[s]) => ~ForSource(i, sizeLabel[s])

\* The jumps of an assembled kernel go to the labels.
Targets(s, line) == line.ref = "target" /\ \E l \in DOMAIN labels : labels[l].name = line.expr.a /\ labels[l].sec = s
JumpsLand(s) ==
  CodeOnly /\ IsText(sections[s].name) =>
    \A k \in DOMAIN CodeLines(s) : Targets(s, CodeLines(s)[k]) =>
      sections[s].code[k].operand = JumpTo(Before(s, LabelLine(CodeLines(s)[k].expr.a)))

Assembled == {"regcounts", "relocations", "layout", "segments", "symtab", "save", "done"}
LandInv ==
  /\ stage = "scan" =>
       /\ next <= Len(src.lines) + 1
       /\ SectionsFrom(next - 1) /\ LabelsFrom(next - 1) /\ EndsFrom(next - 1)
       /\ CursorIs(next - 1) /\ RoomFor(next - 1)
  /\ stage \notin {"scan", "failed"} => SectionsFrom(Len(src.lines)) /\ LabelsFrom(Len(src.lines))
  /\ stage \in {"gather", "tables", "fixups", "kernels"} => EndsFrom(Len(src.lines))
  /\ stage = "gather" => RoomFor(Len(src.lines))
  /\ stage \notin {"scan", "gather", "failed"} => EndsMove
  /\ stage = "kernels" => \A s \in DOMAIN sections : s < next => JumpsLand(s)
  /\ stage \in Assembled => \A s \in DOMAIN sections : JumpsLand(s)

\* What stays as long as the sections keep their lines and the labels their names.
SameLines ==
  /\ src' = src /\ DOMAIN sections \subseteq DOMAIN sections'
  /\ \A s \in DOMAIN sections : sections'[s].line = sections[s].line /\ sections'[s].name = sections[s].name
SameLabel(l) == labels'[l].name = labels[l].name /\ labels'[l].sec = labels[l].sec

OneMore(q, x) ==
  /\ DOMAIN labels' = DOMAIN labels \cup {q} /\ q \notin DOMAIN labels
  /\ \A l \in DOMAIN labels : labels'[l] = labels[l]
  /\ labels'[q].name = x /\ labels'[q].sec = cur /\ labels'[q].at = LabelPos

\* A section of its own, read at the line it begins with.
OneOpened(q) ==
  /\ DOMAIN sections' = DOMAIN sections \cup {q} /\ q \notin DOMAIN sections
  /\ \A s \in DOMAIN sections : sections'[s] = sections[s]
  /\ sections'[q].name = Line.name /\ sections'[q].line = next /\ sections'[q].pos = 0
  /\ cur' = q /\ q # 0

\* The passes behind the scan.  Names, lines and labels stay.
LabelsOfBefore ==
  /\ DOMAIN labels' = DOMAIN labels /\ \A l \in DOMAIN labels : SameLabel(l)
  /\ \A l \in DOMAIN labels : labels'[l].at = labels[l].at \/
       (InCode(l) => \A i \in 1..Len(src.lines) : Defines(i, l) => ~ForSource(i, l))

-----------------------------------------------------------------------------
(* What the symbols of the kernels cover.  The size of a kernel is taken   *)
(* to be the distance of its last label to its first.                      *)

\* No instruction or label of the section that the line a opens is behind the
\* line i; no section is behind the one that the line a opens.
NoneBehind(a, i) ==
  \A j \in (i + 1)..Len(src.lines) : Within(a, j) => src.lines[j].op \notin {"code", "label", "offset"}
IsLast(a) == \A j \in (a + 1)..Len(src.lines) : src.lines[j].op # "section"

\* A file's .size of a kernel is that from its label, which no instruction of
\* its section precedes, to another label: the last thing in the section, unless
\* no section follows.
LabelIn(a, j, x) == src.lines[j].op = "label" /\ src.lines[j].name = x /\ Within(a, j)
KernelsSized ==
  \A a, i \in 1..Len(src.lines) :
    src.lines[a].op = "section" /\ src.lines[i].op = "size" /\ src.lines[a].name = <<".text", src.lines[i].name>> =>
      LET e == src.lines[i].expr IN
      /\ e.op = "-" /\ e.b = src.lines[i].name /\ e.a # e.b /\ e.a # NoName /\ e.b # NoName
      /\ \E j \in 1..Len(src.lines) : LabelIn(a, j, e.b) /\ \A m \in a..(j - 1) : src.lines[m].op # "code"
      /\ \E j \in 1..Len(src.lines) : LabelIn(a, j, e.a) /\ (NoneBehind(a, j) \/ IsLast(a))

\* What n lines have been made into: the room of a kernel is that of its
\* instructions, sizes are those of lines, sections and labels are in the order
\* of their lines.
SizesFrom(n) ==
  \A s \in DOMAIN sections : IsText(sections[s].name) /\ CodeOnly =>
    \E m \in 1..n : /\ Within(sections[s].line, m) /\ sections[s].size = CodeEnd(Before(s, m + 1))
                    /\ \A i \in (m + 1)..n : Within(sections[s].line, i) => src.lines[i].op # "code"
SymbolsFrom(n) ==
  \A x \in DOMAIN symbols :
    \E i \in 1..n : src.lines[i].op = "size" /\ src.lines[i].name = x /\ src.lines[i].expr = symbols[x]
PlacesFrom(n) == \A l \in DOMAIN labels : labels[l].name # NoName => \E i \in 1..n : Defines(i, l)
OrderFrom(n) ==
  \A k, l \in DOMAIN labels : \A i \in 1..n : k < l /\ labels[k].sec = labels[l].sec /\ Defines(i, k) =>
    \E j \in (i + 1)..n : src.lines[j].op \in {"label", "offset"} /\ Within(sections[labels[l].sec].line, j)
LinesInOrder == \A s, t \in DOMAIN sections : s < t => sections[s].line < sections[t].line

\* The labels that move with the padding, and where the labels of code are.
Moves(l) == labels[l].sec \in DOMAIN sizeLabel /\ sizeLabel[labels[l].sec] = l
EndsInside ==
  \A s \in DOMAIN sizeLabel :
    /\ sizeLabel[s] \in DOMAIN labels /\ labels[sizeLabel[s]].sec = s /\ IsText(sections[s].name)
    /\ sections[s].size >= labels[sizeLabel[s]].at
Marked(i, l) ==
  LET s == labels[l].sec
      n == Before(s, i)
  IN  /\ labels[l].at >= CodeEnd(n)
      /\ NoneBehind(sections[s].line, i) => Moves(l)
      /\ n = 0 /\ (Moves(l) => s = Len(sections)) => labels[l].at = 0
AllMarked == CodeOnly => \A l \in DOMAIN labels : InCode(l) => \A i \in 1..Len(src.lines) : Defines(i, l) => Marked(i, l)

\* The end labels of the sections before n are at their ends.
FilledTo(n) == \A s \in DOMAIN sizeLabel : s < n => labels[sizeLabel[s]].at = sections[s].size

IsSymtab == \A k \in DOMAIN symtab : DOMAIN symtab[k] = {"name", "value", "size"}
Covered ==
  \A k \in DOMAIN symtab : Sized(symtab[k].name) /\ HasSection(<<".text", symtab[k].name>>) =>
    LET s == SectionOf(<<".text", symtab[k].name>>)
        n == Before(s, LabelLine(symbols[symtab[k].name].a))
    IN  /\ symtab[k].value = 0
        /\ symtab[k].size >= Offset(n - 1) + Unit
        /\ s < Len(sections) => symtab[k].size = sections[s].size

CoverInv ==
  /\ stage = "scan" => SizesFrom(next - 1) /\ SymbolsFrom(next - 1) /\ PlacesFrom(next - 1) /\ OrderFrom(next - 1)
  /\ stage \notin {"scan", "failed"} => SymbolsFrom(Len(src.lines)) /\ PlacesFrom(Len(src.lines))
  /\ stage = "gather" => SizesFrom(Len(src.lines)) /\ OrderFrom(Len(src.lines))
  /\ LinesInOrder
  /\ stage \notin {"scan", "gather", "failed"} => EndsInside /\ AllMarked
  /\ stage = "layout" => FilledTo(next - 1)
  /\ stage \in {"segments", "symtab"} => FilledTo(Len(sections))
  /\ stage \notin {"scan", "gather", "tables", "failed"} => IsSymtab
  /\ stage \in {"save", "done"} /\ CodeOnly /\ KernelsSized => Covered

-----------------------------------------------------------------------------
(* The relocations.  Text sections hold instructions only, so a reference  *)
(* from data is not in code.  In a section one fixup is behind the other;  *)
(* each reference that has been evaluated has a relocation of its own.     *)

\* The number an expression adds to its symbol, if it is a number.
IsPlain(e) == e.op = "" \/ e.b = ""
Number(e) == CASE e.op = "" -> 0 [] e.op = "+" -> e.n [] e.op = "-" -> -e.n
PlainRef(line) == IsPlain(line.expr) /\ (line.expr.op # "" => line.expr.op = "+" /\ line.ref \in {"lo", "hi"})
IsInfo(name) == name[1] = ".nv.info"

\* References add a number to a symbol or nothing, in the code by 32@lo or
\* 32@hi and +; and no symbol evaluated in data is in an info section.
PlainRefs ==
  /\ \A s \in Texts : \A k \in CodeRefs(s) : PlainRef(CodeLines(s)[k])
  /\ \A f \in DOMAIN fixups : Symbolic(fixups[f]) => IsPlain(fixups[f].expr) /\ ~IsInfo(sections[fixups[f].sec].name)

\* Where the fixups are.
FixupsApart ==
  /\ \A f \in DOMAIN fixups : /\ fixups[f].at \in Nat /\ fixups[f].len \in Nat
                              /\ ~IsText(sections[fixups[f].sec].name)
  /\ \A f, g \in DOMAIN fixups : f < g /\ fixups[f].sec = fixups[g].sec => fixups[f].at + fixups[f].len <= fixups[g].at
FixupsWithin == \A f \in DOMAIN fixups : fixups[f].at + fixups[f].len <= sections[fixups[f].sec].pos
FixupsHeld == \A f \in DOMAIN fixups : fixups[f].at \in DOMAIN sections[fixups[f].sec].items

\* What the first m fixups and the kernels among the first n sections made.
RelsAt(s, at) == {j \in DOMAIN rels : rels[j].sec = s /\ rels[j].at = at}
IsRelOf(r, line) == r.sym = SymIdx(line.expr.a) /\ (PlainRef(line) => r.add = Number(line.expr))
DataRelsFrom(m) ==
  \A f \in DataRefs : f <= m =>
    \E j \in DOMAIN rels : RelsAt(fixups[f].sec, fixups[f].at) = {j} /\ rels[j].sym = SymIdx(fixups[f].expr.a)
CodeRelsFrom(n) ==
  \A s \in Texts : s <= n =>
    \A k \in CodeRefs(s) : \E j \in DOMAIN rels : RelsAt(s, Offset(k - 1)) = {j} /\ IsRelOf(rels[j], CodeLines(s)[k])
FromData(r, m) == \E f \in DataRefs : f <= m /\ r.sec = fixups[f].sec /\ r.at = fixups[f].at
FromCode(r, n) == \E s \in Texts : s <= n /\ r.sec = s /\ \E k \in CodeRefs(s) : r.at = Offset(k - 1)
RelsFrom(m, n) ==
  /\ DataRelsFrom(m) /\ CodeRelsFrom(n)
  /\ \A j \in DOMAIN rels : FromData(rels[j], m) \/ FromCode(rels[j], n)
NumbersFrom(m) ==
  \A f \in DOMAIN fixups : f <= m /\ Symbolic(fixups[f]) /\ IsPlain(fixups[f].expr) /\ ~IsInfo(sections[fixups[f].sec].name) =>
    sections[fixups[f].sec].items[fixups[f].at].num = Number(fixups[f].expr)
EntriesBuilt ==
  /\ \A j \in DOMAIN rels : HasSection(RelSection(rels[j]))
  /\ \A t \in DOMAIN sections : sections[t].entries = Reverse(RelsOf(t))

Related == {"regcounts", "relocations", "layout", "segments", "symtab", "save", "done"}
RefParts ==
  /\ FixupsApart
  /\ stage = "scan" => FixupsWithin
  /\ stage \in {"scan", "gather", "tables", "fixups"} => FixupsHeld
  /\ stage \in {"scan", "gather", "tables"} => rels = <<>>
  /\ stage = "fixups" => RelsFrom(next - 1, 0) /\ NumbersFrom(next - 1)
  /\ stage = "kernels" => RelsFrom(Len(fixups), next - 1)
  /\ stage \in Related => RelsFrom(Len(fixups), Len(sections))
  /\ stage \in Related \cup {"kernels"} => NumbersFrom(Len(fixups))
  /\ stage \in {"layout", "segments", "symtab", "save", "done"} => EntriesBuilt
RefInv == CodeOnly => RefParts

\* The entries of a section are the relocations of its name, each once.
EntryMap(q, t) ==
  /\ DOMAIN q = DOMAIN sections[t].entries
  /\ \A e \in DOMAIN q : /\ q[e] \in DOMAIN rels /\ RelSection(rels[q[e]]) = sections[t].name
                         /\ sections[t].entries[e] = rels[q[e]]
  /\ \A j \in DOMAIN rels : RelSection(rels[j]) = sections[t].name => \E e \in DOMAIN q : q[e] = j
  /\ \A d, e \in DOMAIN q : q[d] = q[e] => d = e

\* The entry e of the section t is for the place at in the section s.
RelHeads == {".rel", ".rela"}
IsFor(t, e, s, at) ==
  /\ t \in DOMAIN sections /\ e \in DOMAIN sections[t].entries /\ sections[t].entries[e].at = at
  /\ \E h \in RelHeads : sections[t].name = <<h>> \o sections[s].name

\* What the references are as long as names and fixups stay.
SameSyms == DOMAIN symtab' = DOMAIN symtab /\ \A k \in DOMAIN symtab : symtab'[k].name = symtab[k].name
SameRefs ==
  /\ DOMAIN sections' = DOMAIN sections /\ fixups' = fixups /\ Texts' = Texts /\ DataRefs' = DataRefs
  /\ \A s \in DOMAIN sections : /\ sections'[s].name = sections[s].name
                                /\ CodeLines(s)' = CodeLines(s) /\ CodeRefs(s)' = CodeRefs(s)
  /\ \A x : (IsSym(x)' <=> IsSym(x)) /\ SymIdx(x)' = SymIdx(x)
  /\ \A i : Offset(i)' = Offset(i)

===============================================================================
