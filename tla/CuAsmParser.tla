----------------------------- MODULE CuAsmParser -----------------------------
(***************************************************************************)
(* The assembler of .cuasm files (CuAsmParser.cpp): one scan of the lines  *)
(* makes sections, labels and fixups; then the fixups are evaluated, the   *)
(* kernels assembled, the relocations built, the sections laid out and the *)
(* symbol table set, each pass relying on what the ones before left.       *)
(*                                                                         *)
(* A source is its architecture and its lines, each a record with the      *)
(* fields of its directive.  The bytes of a section are the numbers and    *)
(* names that directives put at its offsets, the instructions of a kernel  *)
(* and the entries of a relocation section; its size is theirs.  A section *)
(* is named by its dotted parts, <<>> being the null section.              *)
(***************************************************************************)
EXTENDS CuNVInfo, CachePolicy

CONSTANTS Sources,    \* the files parsed first
          Again,      \* the files the same object may parse afterwards
          Faulty,     \* those of them with a mistake
          OneLetter   \* the symbols whose name is one character

\* What files have in common, faulty or not: numbers where numbers are, sections
\* aligned to no more than code, jumps with the name of a label, and the null
\* section first and empty.
Alignments == {0, 1, 2, 4, 8, 16, 32, 64, 128}
IsExpr(e) == e.op \in {"", "+", "-"} /\ e.n \in Int
IsLine(l) ==
  /\ l.op = "section" => l.name \in Seq(STRING)
  /\ l.op = "align" => l.n \in Alignments
  /\ l.op = "zero" => l.n \in Nat
  /\ l.op = "data" => l.len \in Nat /\ l.n \in Int /\ IsExpr(l.expr)
  /\ l.op = "code" /\ l.ref = "target" => l.expr.a # ""

ASSUME SourceAssumption ==
  \A f \in Sources \cup Again :
    /\ Len(f.lines) \in Nat /\ DOMAIN f.lines = 1..Len(f.lines)
    /\ \A i \in 1..Len(f.lines) : IsLine(f.lines[i])
    /\ \A i \in 1..Len(f.lines) : f.lines[i].op = "section" /\ f.lines[i].name = <<>> =>
         i = 1 /\ (i < Len(f.lines) => f.lines[i + 1].op \in {"section", "segment"})

CC == INSTANCE ControlCode
Six == INSTANCE InsOffset WITH Grouped <- TRUE
Seven == INSTANCE InsOffset WITH Grouped <- FALSE

VARIABLES
  src,                \* the file
  stage, next,        \* the pass, and its next line, fixup or section
  cur, insIndex,      \* mCurrSection (0: none) and mInsIndex
  sections, labels, fixups, symbols, segments,
  offLabels,          \* mNVInfoOffsetLabels: of a section and an attribute
  symtab,             \* mSymtabDict; parse does not reset it
  sizeLabel,          \* mSecSizeLabel
  rels,               \* mRelList
  end,                \* layoutSections' offsets in the file and in memory
  file                \* where saveAsCubin put the sections and the headers

scanned == <<insIndex, labels, fixups, symbols, segments, offLabels>>
tables == <<symtab, sizeLabel>>
result == <<end, file>>
vars == <<src, stage, next, cur, sections, scanned, tables, rels, result>>

\* Mutant: the layout before the relocation sections grow.
LayoutFirst == <<"scan", "gather", "tables", "fixups", "kernels", "regcounts", "layout",
                 "segments", "relocations", "symtab", "save", "done">>

\* Mutant: the symbols before the layout.
SymbolsFirst == <<"scan", "gather", "tables", "fixups", "kernels", "regcounts", "relocations",
                  "symtab", "layout", "segments", "save", "done">>

\* The passes of parse, in its order, and saveAsCubin.
Passes == <<"scan", "gather", "tables", "fixups", "kernels", "regcounts", "relocations",
            "layout", "segments", "symtab", "save", "done">>

GoOn == /\ stage' = Passes[1 + CHOOSE i \in DOMAIN Passes : Passes[i] = stage]
        /\ next' = 1
Stay == stage' = stage /\ next' = next + 1

\* doAssert and whatever else throws.
Fail == /\ stage' = "failed"
        /\ UNCHANGED <<src, next, cur, sections, scanned, tables, rels, result>>

-----------------------------------------------------------------------------
Start == [file |-> 64, mem |-> 64]

Init ==
  /\ src \in Sources /\ symtab = <<>>
  /\ stage = "scan" /\ next = 1 /\ cur = 0 /\ insIndex = 0
  /\ sections = <<>> /\ labels = <<>> /\ fixups = <<>> /\ symbols = <<>> /\ segments = <<>>
  /\ offLabels = <<>> /\ sizeLabel = <<>> /\ rels = <<>> /\ end = Start /\ file = <<>>

\* reset, and the scan of a file from its first line.
Restart(f) ==
  /\ src' = f
  /\ stage' = "scan" /\ next' = 1 /\ cur' = 0 /\ insIndex' = 0
  /\ sections' = <<>> /\ labels' = <<>> /\ fixups' = <<>> /\ symbols' = <<>> /\ segments' = <<>>
  /\ offLabels' = <<>> /\ sizeLabel' = <<>> /\ rels' = <<>> /\ end' = Start /\ file' = <<>>

\* parse of the same object: reset leaves the symbol table.
Parse == /\ stage \in {"done", "failed"}
         /\ \E f \in Again : Restart(f)
         /\ UNCHANGED symtab

-----------------------------------------------------------------------------
Offset(i) == IF src.grouped THEN Six!Offset(i) ELSE Seven!Offset(i)
Index(at) == IF src.grouped THEN Six!Index(at) ELSE Seven!Index(at)
Unit == IF src.grouped THEN Six!Unit ELSE Seven!Unit
PadUnit == IF src.grouped THEN Six!PadUnit ELSE Seven!PadUnit
CodeSize(n) == IF src.grouped THEN Six!CodeSize(n) ELSE Seven!CodeSize(n)

\* alignTo.
Aligned(pos, align) == IF align <= 1 THEN pos ELSE align * ((pos + align - 1) \div align)

\* The map f with v at d.
Put(f, d, v) == [x \in {d} \cup DOMAIN f |-> IF x = d THEN v ELSE f[x]]

IsText(name) == name # <<>> /\ name[1] = ".text"
HasSection(name) == \E s \in DOMAIN sections : sections[s].name = name
SectionOf(name) == CHOOSE s \in DOMAIN sections : sections[s].name = name
HasLabel(name) == \E l \in DOMAIN labels : labels[l].name = name
LabelAt(name) == labels[CHOOSE l \in DOMAIN labels : labels[l].name = name]
IsSym(name) == \E k \in DOMAIN symtab : symtab[k].name = name

\* getSymbolIdx, and the 0 of an entry without one.
SymIdx(name) == IF IsSym(name) THEN (CHOOSE k \in DOMAIN symtab : symtab[k].name = name) - 1 ELSE 0

\* evalVar and evalExpr of a, a + b, a - b, with a number n in place of b "".
Evaluates(e) == /\ HasLabel(e.a) \/ IsSym(e.a)
                /\ e.op # "" /\ e.b # "" => HasLabel(e.b) \/ IsSym(e.b)
VarValue(name) == IF HasLabel(name) THEN LabelAt(name).at ELSE 0
Second(e) == IF e.b = "" THEN e.n ELSE VarValue(e.b)
Addend(e) == CASE e.op = "" -> 0 [] e.op = "+" -> Second(e) [] e.op = "-" -> -Second(e)
Value(e) == VarValue(e.a) + Addend(e)

-----------------------------------------------------------------------------
(* preScan, one line at a time.                                            *)

Line == src.lines[next]
Scanning(op) == stage = "scan" /\ next <= Len(src.lines) /\ Line.op = op

\* emitBytes of n bytes.
Emit(s, n) == [s EXCEPT !.pos = @ + n, !.size = IF s.pos + n > @ THEN s.pos + n ELSE @]
Pos == sections[cur].pos

\* A line the scan does not throw at.
Accepted ==
  CASE Line.op = "section" -> ~HasSection(Line.name)
    [] Line.op = "label" -> cur # 0 /\ ~HasLabel(Line.name)
    [] Line.op = "offset" -> cur # 0 /\ sections[cur].name = <<".text", Line.kernel>>
    [] Line.op = "code" -> cur # 0 /\ IsText(sections[cur].name)
    [] Line.op \in {"align", "data", "zero"} -> cur # 0
    [] OTHER -> TRUE

\* dirSection, with the .__section_type and .sectioninfo lines that follow it.
Section ==
  /\ Scanning("section") /\ Accepted
  /\ sections' = Append(sections,
       [name |-> Line.name, type |-> Line.type, regs |-> Line.regs, line |-> next, align |-> 0,
        items |-> <<>>, attrs |-> <<>>, code |-> <<>>, entries |-> <<>>,
        size |-> 0, pos |-> 0, at |-> 0, mem |-> 0, pad |-> 0])
  /\ cur' = Len(sections) + 1
  /\ insIndex' = IF IsText(Line.name) THEN 0 ELSE insIndex
  /\ Stay /\ UNCHANGED <<src, labels, fixups, symbols, segments, offLabels, tables, rels, result>>

\* emitAlign: at the start of a section the first one is the section's own.
Align ==
  /\ Scanning("align") /\ Accepted
  /\ sections' = [sections EXCEPT ![cur] =
       IF @.pos # 0 THEN Emit(@, Aligned(@.pos, Line.n) - @.pos)
       ELSE IF @.align = 0 THEN [@ EXCEPT !.align = Line.n] ELSE @]
  /\ Stay /\ UNCHANGED <<src, cur, scanned, tables, rels, result>>

\* emitTypedBytes: a number is written at once, anything else later.
Data ==
  /\ Scanning("data") /\ Accepted
  /\ sections' = [sections EXCEPT ![cur] =
       Emit([@ EXCEPT !.items = Put(sections[cur].items, Pos, [head |-> Line.head, num |-> Line.n])], Line.len)]
  /\ fixups' = IF Line.form = "hex" THEN fixups
               ELSE Append(fixups, [sec |-> cur, at |-> Pos, len |-> Line.len, form |-> Line.form, expr |-> Line.expr])
  /\ Stay /\ UNCHANGED <<src, cur, insIndex, labels, symbols, segments, offLabels, tables, rels, result>>

Zero ==
  /\ Scanning("zero") /\ Accepted
  /\ sections' = [sections EXCEPT ![cur] = Emit(@, Line.n)]
  /\ Stay /\ UNCHANGED <<src, cur, scanned, tables, rels, result>>

\* labelPrecedesIndirectBranchSource: the next line that is no label is SYNC,
\* BRK, JMX or BRX, or opens a bundle whose second instruction is.
NextLine(i) == LET after == {j \in DOMAIN src.lines : j > i /\ src.lines[j].op \notin {"label", "offset"}}
               IN  CHOOSE j \in after \cup {0} : after = {} \/ (j # 0 /\ \A k \in after : j <= k)
IsCode(i) == i # 0 /\ src.lines[i].op = "code"
IsBranchSource(i) == IsCode(i) /\ src.lines[i].ins \in {"SYNC", "BRK", "JMX", "BRX"}
BeforeSource(i) == \/ IsBranchSource(NextLine(i))
                   \/ IsCode(NextLine(i)) /\ src.lines[NextLine(i)].open /\ IsBranchSource(NextLine(NextLine(i)))

\* Mutant: always the write cursor.
LabelPosCursor == Pos

\* The offset a label stands for.
LabelPos == IF insIndex > 0 /\ BeforeSource(next) THEN Offset(insIndex) ELSE Pos

Label ==
  /\ Scanning("label") /\ Accepted
  /\ labels' = Append(labels, [name |-> Line.name, sec |-> cur, at |-> LabelPos])
  /\ Stay /\ UNCHANGED <<src, cur, insIndex, sections, fixups, symbols, segments, offLabels, tables, rels, result>>

\* checkNVInfoOffsetLabels: a label of its own, and one more offset.
OffsetLabel ==
  /\ Scanning("offset") /\ Accepted
  /\ labels' = Append(labels, [name |-> "", sec |-> cur, at |-> LabelPos])
  /\ LET key == <<Line.kernel, Line.attr>>
         old == IF key \in DOMAIN offLabels THEN offLabels[key] ELSE <<>>
     IN  offLabels' = Put(offLabels, key, Append(old, LabelPos))
  /\ Stay /\ UNCHANGED <<src, cur, insIndex, sections, fixups, symbols, segments, tables, rels, result>>

\* An instruction: room at its offset.
Code ==
  /\ Scanning("code") /\ Accepted
  /\ sections' = [sections EXCEPT ![cur] = Emit([@ EXCEPT !.pos = Offset(insIndex)], Unit)]
  /\ insIndex' = insIndex + 1
  /\ Stay /\ UNCHANGED <<src, cur, labels, fixups, symbols, segments, offLabels, tables, rels, result>>

\* dirSize.
Size ==
  /\ Scanning("size") /\ Accepted
  /\ symbols' = Put(symbols, Line.name, Line.expr)
  /\ Stay /\ UNCHANGED <<src, cur, insIndex, sections, labels, fixups, segments, offLabels, tables, rels, result>>

\* dirSegment, with its .__segment_startsection and endsection.
Segment ==
  /\ Scanning("segment") /\ Accepted
  /\ segments' = Append(segments, [type |-> Line.type, first |-> Line.first, last |-> Line.last,
                                   at |-> 0, filesz |-> 0, memsz |-> 0])
  /\ cur' = 0
  /\ Stay /\ UNCHANGED <<src, insIndex, sections, labels, fixups, symbols, offLabels, tables, rels, result>>

ScanEnd ==
  /\ stage = "scan" /\ next > Len(src.lines)
  /\ GoOn /\ UNCHANGED <<src, cur, sections, scanned, tables, rels, result>>

ScanFails == stage = "scan" /\ next <= Len(src.lines) /\ ~Accepted /\ Fail

-----------------------------------------------------------------------------
(* The tables: gatherTextSectionSizeLabel, buildInternalTables.            *)

EndLabels(s) == {l \in DOMAIN labels : labels[l].sec = s /\ labels[l].at = sections[s].size}

Gather ==
  /\ stage = "gather"
  /\ sizeLabel' = [s \in {t \in DOMAIN sections : IsText(sections[t].name) /\ EndLabels(t) # {}} |->
                     CHOOSE l \in EndLabels(s) : \A k \in EndLabels(s) : k <= l]
  /\ GoOn /\ UNCHANGED <<src, cur, sections, scanned, symtab, rels, result>>

\* The names in .symtab, an entry being 24 bytes.
SymtabNames == LET t == sections[SectionOf(<<".symtab">>)]
               IN  [k \in 1..(t.size \div 24) |-> t.items[24 * (k - 1)].head]
SymtabValue(k) == NumberAt(sections[SectionOf(<<".symtab">>)].items, 24 * (k - 1))
TablesGood == /\ \A name \in {".shstrtab", ".strtab", ".symtab"} : HasSection(<<name>>)
              /\ Cardinality(ToSet(SymtabNames)) = Len(SymtabNames)

BuildTables ==
  /\ stage = "tables" /\ TablesGood
  /\ symtab' = [k \in DOMAIN SymtabNames |-> [name |-> SymtabNames[k], value |-> SymtabValue(k), size |-> 0]]
  /\ GoOn /\ UNCHANGED <<src, cur, sections, scanned, sizeLabel, rels, result>>

TablesFail == stage = "tables" /\ ~TablesGood /\ Fail

-----------------------------------------------------------------------------
(* evalFixups, one fixup at a time.                                        *)

HeaderRef(f) == f.form \in {"tex", "surf"} /\ f.len = 4
Named(f) == f.form = "fun" /\ f.len >= 4 /\ f.expr.a \in OneLetter
Symbolic(f) == f.form = "expr" /\ f.len >= 4 /\ IsSym(f.expr.a)
RelType(f) == CASE HeaderRef(f) \/ Named(f) -> f.form
                [] OTHER -> IF f.len = 4 THEN "R_CUDA_32" ELSE "R_CUDA_64"

\* Mutant: the value of the symbol is written under its relocation, too.
WrittenTwice(f) == IF f.form = "index" THEN SymIdx(f.expr.a) ELSE Value(f.expr)

\* The number put in the place of a fixup.
Written(f) == CASE f.form = "index" -> SymIdx(f.expr.a)
                [] Symbolic(f) -> Addend(f.expr)
                [] OTHER -> Value(f.expr)

\* Mutant: a negative value wraps around.
FitsWrapped(v, len) == v < 0 \/ (len < 4 => v < 256 ^ len)

Fits(v, len) == v >= 0 /\ (len < 4 => v < 256 ^ len)

FixupGood(f) == CASE f.form = "index" -> IsSym(f.expr.a) /\ Fits(Written(f), f.len)
                  [] f.form = "expr" -> Evaluates(f.expr) /\ Fits(Written(f), f.len)
                  [] f.form = "srel" -> HasLabel(f.expr.a) /\ Evaluates(f.expr) /\ Fits(Written(f), f.len)
                  [] OTHER -> HeaderRef(f) \/ Named(f)

Rel(s, at, name, type) == [sec |-> s, at |-> at, sym |-> SymIdx(name), type |-> type, rela |-> FALSE, add |-> 0]
Rela(s, at, name, type, add) == [Rel(s, at, name, type) EXCEPT !.rela = TRUE, !.add = add]

EvalFixup ==
  /\ stage = "fixups" /\ next <= Len(fixups)
  /\ LET f == fixups[next]
     IN  /\ FixupGood(f)
         /\ rels' = IF HeaderRef(f) \/ Named(f) \/ Symbolic(f)
                    THEN Append(rels, Rel(f.sec, f.at, f.expr.a, RelType(f))) ELSE rels
         /\ sections' = IF HeaderRef(f) \/ Named(f) THEN sections
                        ELSE [sections EXCEPT ![f.sec].items[f.at].num = Written(f)]
  /\ Stay /\ UNCHANGED <<src, cur, scanned, tables, result>>

FixupFails == stage = "fixups" /\ next <= Len(fixups) /\ ~FixupGood(fixups[next]) /\ Fail

FixupsEnd == /\ stage = "fixups" /\ next > Len(fixups)
             /\ GoOn /\ UNCHANGED <<src, cur, sections, scanned, tables, rels, result>>

-----------------------------------------------------------------------------
(* parseKernels, one section at a time (the order is of no consequence).   *)

\* splitAsmSection: the lines of a section, and the instructions in them.
LinesOf(s) == sections[s].line..(IF s = Len(sections) THEN Len(src.lines) ELSE sections[s + 1].line - 1)
CodeLines(s) == ElementsAt(src.lines, {i \in LinesOf(s) : src.lines[i].op = "code"})

InfoOf(s) == <<".nv.info", sections[s].name[2]>>
AttrsOf(t) == Decode(sections[t].items, sections[t].size)

\* Where a jump to a label goes: the control word of the group if the
\* instruction is the first one behind it.
Jump(at) == IF src.grouped /\ Index(at) >= 0 /\ Index(at) % 3 = 0 THEN at - 8 ELSE at

\* evalInstructionFixup of a line of the section s: what the instruction gets
\* in place of its reference, and the relocations.
Local(s, line) == line.ref = "target" /\ HasLabel(line.expr.a) /\ LabelAt(line.expr.a).sec = s
RefGood(line) == CASE line.ref \in {"lo", "hi"} -> Evaluates(line.expr)
                   [] line.ref = "target" -> HasLabel(line.expr.a) \/ IsSym(line.expr.a)
                   [] OTHER -> TRUE
RefRel(s, line, at) ==
  IF line.ref \in {"lo", "hi"} /\ line.expr.op # ""
  THEN Rela(s, at, line.expr.a, line.ref, Second(line.expr))
  ELSE Rel(s, at, line.expr.a, line.ref)
RefRels(s, lines) ==
  LET at == InOrder({k \in DOMAIN lines : lines[k].ref # "none" /\ ~Local(s, lines[k])})
  IN  [k \in DOMAIN at |-> RefRel(s, lines[at[k]], Offset(at[k] - 1))]
Operand(s, line) == IF Local(s, line) THEN Jump(LabelAt(line.expr.a).at) ELSE 0

KernelGood(s) ==
  /\ HasSection(InfoOf(s)) /\ Readable(AttrsOf(SectionOf(InfoOf(s))))
  /\ sections[s].regs \in 0..255
  /\ \A k \in DOMAIN CodeLines(s) : CC!Matches(CodeLines(s)[k].ctrl) /\ RefGood(CodeLines(s)[k])

\* The attributes a kernel's labels and instructions ask for.
Wanted(s, lines) ==
  LET extra == ExtraInfo([k \in DOMAIN lines |-> lines[k].ins], [k \in DOMAIN lines |-> Offset(k - 1)])
      labelled == {a \in DOMAIN Format : <<sections[s].name[2], a>> \in DOMAIN offLabels}
  IN  [a \in DOMAIN extra \cup labelled |->
         IF a \in DOMAIN extra THEN extra[a] ELSE offLabels[<<sections[s].name[2], a>>]]

\* setData with the attributes in place of the items.
SetAttrs(t, attrs) == [sections[t] EXCEPT !.attrs = attrs, !.items = <<>>, !.size = AttrsSize(attrs), !.pos = 0]

\* parseKernelText and updateResourceInfo.
Assemble(s, t, lines) ==
  /\ sections' = [sections EXCEPT
       ![s] = Emit([@ EXCEPT !.code = [k \in DOMAIN lines |->
                   [ins |-> lines[k].ins, operand |-> Operand(s, lines[k]), code |-> CC!Encode(lines[k].ctrl),
                    desc |-> lines[k].desc, bit |-> lines[k].desc # NoDesc]],
                             !.pos = 0], CodeSize(Len(lines))),
       ![t] = SetAttrs(t, Update(src.grouped, AttrsOf(t), Wanted(s, lines)))]
  /\ rels' = rels \o RefRels(s, lines)

ParseKernel ==
  /\ stage = "kernels" /\ next <= Len(sections)
  /\ IsText(sections[next].name) /\ KernelGood(next)
  /\ Assemble(next, SectionOf(InfoOf(next)), CodeLines(next))
  /\ Stay /\ UNCHANGED <<src, cur, scanned, tables, result>>

KernelFails == /\ stage = "kernels" /\ next <= Len(sections)
               /\ IsText(sections[next].name) /\ ~KernelGood(next) /\ Fail

SkipSection == /\ stage = "kernels" /\ next <= Len(sections) /\ ~IsText(sections[next].name)
               /\ Stay /\ UNCHANGED <<src, cur, sections, scanned, tables, rels, result>>

KernelsEnd == /\ stage = "kernels" /\ next > Len(sections)
              /\ GoOn /\ UNCHANGED <<src, cur, sections, scanned, tables, rels, result>>

\* The register counts of the kernels, by the index of their symbol.
Counted == {s \in DOMAIN sections : IsText(sections[s].name) /\ IsSym(sections[s].name[2])}
RegNums == [k \in {SymIdx(sections[s].name[2]) : s \in Counted} |->
              sections[CHOOSE s \in Counted : SymIdx(sections[s].name[2]) = k].regs]

CountRegs ==
  /\ stage = "regcounts"
  /\ HasSection(<<".nv.info">>)
  /\ LET t == SectionOf(<<".nv.info">>)
     IN  /\ Readable(AttrsOf(t))
         /\ sections' = [sections EXCEPT ![t] = SetAttrs(t, SetRegCount(AttrsOf(t), RegNums))]
  /\ GoOn /\ UNCHANGED <<src, cur, scanned, tables, rels, result>>

RegsFail == /\ stage = "regcounts"
            /\ ~(HasSection(<<".nv.info">>) /\ Readable(AttrsOf(SectionOf(<<".nv.info">>))))
            /\ Fail

-----------------------------------------------------------------------------
(* buildRelocationSections: the entries of a section in reverse order.     *)

RelSection(r) == <<IF r.rela THEN ".rela" ELSE ".rel">> \o sections[r.sec].name
RelsOf(s) == ElementsAt(rels, {k \in DOMAIN rels : RelSection(rels[k]) = sections[s].name})
EntriesSize(list) == IF list = <<>> THEN 0 ELSE Len(list) * IF list[1].rela THEN 24 ELSE 16

RelocationsGood == \A k \in DOMAIN rels : HasSection(RelSection(rels[k]))

BuildRelocations ==
  /\ stage = "relocations" /\ RelocationsGood
  /\ sections' = [s \in DOMAIN sections |->
       Emit([sections[s] EXCEPT !.entries = Reverse(RelsOf(s))],
            EntriesSize(RelsOf(s)))]
  /\ GoOn /\ UNCHANGED <<src, cur, scanned, tables, rels, result>>

RelocationsFail == stage = "relocations" /\ ~RelocationsGood /\ Fail

-----------------------------------------------------------------------------
(* layoutSections, one section at a time.                                  *)

NoBits(s) == sections[s].type = "NOBITS"

\* The section laid out before s, 0 if there is none.
Previous(s) == LET before == {t \in 1..(s - 1) : sections[t].name # <<>>}
               IN  CHOOSE t \in before \cup {0} : before = {} \/ (t # 0 /\ \A u \in before : u <= t)

\* What the offset of s is a multiple of: 128 after code that it follows in
\* the file.
AlignFor(s) == IF Previous(s) # 0 /\ IsText(sections[Previous(s)].name) /\ ~NoBits(s)
               THEN 128 ELSE sections[s].align

\* updateSectionPadding of p to al: code is filled up with NOPs, which moves
\* its end label; other sections are followed by zeros, NOBITS only in memory.
Larger(a, b) == IF a > b THEN a ELSE b
Pads(p, al) == IF IsText(sections[p].name) THEN Larger(al, sections[p].align) ELSE al
FilePad(p, al) == IF NoBits(p) THEN 0 ELSE Aligned(end.file, Pads(p, al)) - end.file
MemPad(p, al) == Aligned(end.mem, Pads(p, al)) - end.mem
PaddingGood(p, al) == IsText(sections[p].name) => FilePad(p, al) % PadUnit = 0

PadLabel(p, al) ==
  IF IsText(sections[p].name) /\ p \in DOMAIN sizeLabel
  THEN [labels EXCEPT ![sizeLabel[p]].at = sections[p].size + FilePad(p, al)]
  ELSE labels
Padded(p, al) ==
  IF IsText(sections[p].name) THEN [sections[p] EXCEPT !.size = @ + FilePad(p, al)]
  ELSE [sections[p] EXCEPT !.pad = IF NoBits(p) THEN MemPad(p, al) ELSE FilePad(p, al)]

\* The section s at the given offsets.
Place(s, secs, atFile, atMem) ==
  /\ sections' = [secs EXCEPT ![s].at = atFile, ![s].mem = atMem]
  /\ end' = [file |-> atFile + (IF NoBits(s) THEN 0 ELSE sections[s].size),
             mem |-> atMem + sections[s].size]

LayoutFirstSection ==
  /\ stage = "layout" /\ next <= Len(sections)
  /\ sections[next].name # <<>> /\ Previous(next) = 0
  /\ Place(next, sections, end.file, end.mem)
  /\ Stay /\ UNCHANGED <<src, cur, scanned, tables, rels, file>>

LayoutSection ==
  /\ stage = "layout" /\ next <= Len(sections) /\ Previous(next) # 0
  /\ LET p == Previous(next)
         al == AlignFor(next)
     IN  /\ PaddingGood(p, al)
         /\ labels' = PadLabel(p, al)
         /\ Place(next, [sections EXCEPT ![p] = Padded(p, al)],
                  end.file + FilePad(p, al), end.mem + MemPad(p, al))
  /\ Stay /\ UNCHANGED <<src, cur, insIndex, fixups, symbols, segments, offLabels, tables, rels, file>>

LayoutFails ==
  /\ stage = "layout" /\ next <= Len(sections) /\ Previous(next) # 0
  /\ ~PaddingGood(Previous(next), AlignFor(next)) /\ Fail

SkipNull == /\ stage = "layout" /\ next <= Len(sections) /\ sections[next].name = <<>>
            /\ Stay /\ UNCHANGED <<src, cur, sections, scanned, tables, rels, result>>

LayoutEnd == /\ stage = "layout" /\ next > Len(sections)
             /\ GoOn /\ UNCHANGED <<src, cur, sections, scanned, tables, rels, result>>

\* The headers behind the last section, and where a segment starts and ends.
Shoff == Aligned(end.file, 8)
Phoff == Shoff + 64 * Len(sections)
Phlen == 56 * src.phnum
PHDR == <<"PROGRAM_HEADER">>
StartOf(name) == IF name = PHDR THEN [file |-> Phoff, mem |-> Phoff]
                 ELSE [file |-> sections[SectionOf(name)].at, mem |-> sections[SectionOf(name)].mem]

\* Mutant: the end a section had before it was filled up.
EndUnpadded(name) == IF name = PHDR THEN [file |-> Phoff + Phlen, mem |-> Phoff + Phlen]
                     ELSE LET s == SectionOf(name)
                              size == IF IsText(name) THEN CodeSize(Len(sections[s].code)) ELSE sections[s].size
                          IN  [file |-> sections[s].at + (IF NoBits(s) THEN 0 ELSE size), mem |-> sections[s].mem + size]

EndOf(name) == IF name = PHDR THEN [file |-> Phoff + Phlen, mem |-> Phoff + Phlen]
               ELSE LET s == SectionOf(name)
                    IN  [file |-> sections[s].at + (IF NoBits(s) THEN 0 ELSE sections[s].size),
                         mem |-> sections[s].mem + sections[s].size]
HasEdge(name) == name = PHDR \/ (name # <<>> /\ HasSection(name))

Ranged(g) == g.type = "LOAD" /\ g.first # <<>> /\ g.last # <<>>
SegmentGood(g) == g.type \in {"PHDR", "LOAD"} /\ (Ranged(g) => HasEdge(g.first) /\ HasEdge(g.last))
Located(g) ==
  CASE g.type = "PHDR" -> [g EXCEPT !.at = Phoff, !.filesz = 56 * Len(segments), !.memsz = 56 * Len(segments)]
    [] Ranged(g) -> [g EXCEPT !.at = StartOf(g.first).file,
                              !.filesz = EndOf(g.last).file - StartOf(g.first).file,
                              !.memsz = EndOf(g.last).mem - StartOf(g.first).mem]
    [] OTHER -> g

LocateSegments ==
  /\ stage = "segments"
  /\ \A k \in DOMAIN segments : SegmentGood(segments[k])
  /\ segments' = [k \in DOMAIN segments |-> Located(segments[k])]
  /\ GoOn /\ UNCHANGED <<src, cur, insIndex, sections, labels, fixups, symbols, offLabels, tables, rels, result>>

SegmentsFail == /\ stage = "segments"
                /\ \E k \in DOMAIN segments : ~SegmentGood(segments[k])
                /\ Fail

-----------------------------------------------------------------------------
\* updateSymtab: an entry with a label and a .size gets their values; the
\* bytes of the others stay.
Sized(name) == HasLabel(name) /\ name \in DOMAIN symbols
SymbolsGood == \A k \in DOMAIN symtab :
                 Sized(symtab[k].name) => Evaluates(symbols[symtab[k].name]) /\ Value(symbols[symtab[k].name]) >= 0

UpdateSymtab ==
  /\ stage = "symtab" /\ SymbolsGood
  /\ symtab' = [k \in DOMAIN symtab |->
       IF Sized(symtab[k].name)
       THEN [symtab[k] EXCEPT !.value = LabelAt(symtab[k].name).at, !.size = Value(symbols[symtab[k].name])]
       ELSE symtab[k]]
  /\ GoOn /\ UNCHANGED <<src, cur, sections, scanned, sizeLabel, rels, result>>

SymbolsFail == stage = "symtab" /\ ~SymbolsGood /\ Fail

\* saveAsCubin: the sections one after another, each with its padding, zeros
\* up to a multiple of 8, the section headers and the segment headers.
SavedSize(s) == IF NoBits(s) THEN 0 ELSE sections[s].size + IF IsText(sections[s].name) THEN 0 ELSE sections[s].pad

Save ==
  /\ stage = "save"
  /\ LET pos[s \in 1..(Len(sections) + 1)] == IF s = 1 THEN 64 ELSE pos[s - 1] + SavedSize(s - 1)
         headers == pos[Len(sections) + 1] + Shoff - end.file
     IN  file' = [at |-> [s \in DOMAIN sections |-> pos[s]], shoff |-> headers,
                  phoff |-> headers + 64 * Len(sections)]
  /\ GoOn /\ UNCHANGED <<src, cur, sections, scanned, tables, rels, end>>

Scan == Section \/ Align \/ Data \/ Zero \/ Label \/ OffsetLabel \/ Code \/ Size \/ Segment \/ ScanEnd
Evaluate == Gather \/ BuildTables \/ EvalFixup \/ FixupsEnd
Kernels == ParseKernel \/ SkipSection \/ KernelsEnd \/ CountRegs
Layout == LayoutFirstSection \/ LayoutSection \/ SkipNull \/ LayoutEnd \/ LocateSegments
Throw == \/ ScanFails \/ TablesFail \/ FixupFails \/ KernelFails \/ RegsFail \/ RelocationsFail
         \/ LayoutFails \/ SegmentsFail \/ SymbolsFail

Work == Scan \/ Evaluate \/ Kernels \/ BuildRelocations \/ Layout \/ UpdateSymtab \/ Save \/ Throw
Next == Parse \/ Work
Spec == Init /\ [][Next]_vars

-----------------------------------------------------------------------------
\* A file is assembled if and only if it has no mistake and its instructions
\* and symbols use only names it has, whatever the same object has parsed before.
Used(e) == {e.a, e.b} \ {""}
Whole(f) ==
  LET labelled == {f.lines[i].name : i \in {j \in DOMAIN f.lines : f.lines[j].op = "label"}}
      known == {f.lines[i].head : i \in {j \in DOMAIN f.lines : f.lines[j].op = "data"}}
  IN  \A i \in DOMAIN f.lines : f.lines[i].op \in {"code", "size"} => Used(f.lines[i].expr) \subseteq labelled \cup known
OnlyFaultyFail == /\ stage = "failed" => src \in Faulty \/ ~Whole(src)
                  /\ stage = "done" => src \notin Faulty /\ Whole(src)

\* The instructions of the section s before the line i, and a label's line.
Before(s, i) == Cardinality({j \in sections[s].line..(i - 1) : src.lines[j].op = "code"})
LabelLine(name) == CHOOSE i \in DOMAIN src.lines : src.lines[i].op = "label" /\ src.lines[i].name = name

\* A jump goes to the instruction that follows its label: to its own offset or,
\* for the first of a group, to the group's control word.  The label of a
\* SYNC, BRK, JMX or BRX (or the bundle it is in) is that instruction's offset.
LabelsLand ==
  stage = "done" =>
    \A s \in DOMAIN sections : IsText(sections[s].name) =>
      /\ \A k \in DOMAIN CodeLines(s) :
           LET line == CodeLines(s)[k]
               at == Before(s, LabelLine(line.expr.a))
           IN  Local(s, line) /\ at < Len(CodeLines(s)) =>
                 sections[s].code[k].operand = Offset(at) - IF src.grouped /\ at % 3 = 0 THEN 8 ELSE 0
      /\ \A l \in DOMAIN labels :
           labels[l].sec = s /\ labels[l].name # "" =>
             LET at == Before(s, LabelLine(labels[l].name))
             IN  at > 0 /\ BeforeSource(LabelLine(labels[l].name)) => labels[l].at = Offset(at)

\* The symbol of a kernel covers the instructions up to the label its .size
\* names and, unless nothing is laid out after them, the whole of its section
\* with the padding.
SymbolsCoverKernels ==
  stage = "done" =>
    \A k \in DOMAIN symtab : Sized(symtab[k].name) /\ HasSection(<<".text", symtab[k].name>>) =>
      LET s == SectionOf(<<".text", symtab[k].name>>)
          n == Before(s, LabelLine(symbols[symtab[k].name].a))
      IN  /\ symtab[k].value = 0
          /\ symtab[k].size >= Offset(n - 1) + Unit
          /\ s < Len(sections) => symtab[k].size = sections[s].size

\* In the file every section is where its header says, on its alignment unless
\* it follows a NOBITS section, and so are the headers.
FileMatchesHeaders ==
  stage = "done" =>
    /\ \A s \in DOMAIN sections : sections[s].name # <<>> /\ ~NoBits(s) =>
         /\ file.at[s] = sections[s].at
         /\ Previous(s) # 0 /\ ~NoBits(Previous(s)) => Aligned(file.at[s], sections[s].align) = file.at[s]
    /\ file.shoff = Shoff /\ file.phoff = Phoff

\* A segment holds every section from its first to its last, in the file and
\* in memory.
SegmentsCover ==
  stage = "done" =>
    \A k \in DOMAIN segments : LET g == segments[k] IN
      Ranged(g) /\ g.first # PHDR =>
        \A s \in SectionOf(g.first)..SectionOf(g.last) :
          /\ g.at <= sections[s].at
          /\ NoBits(s) \/ sections[s].at + sections[s].size <= g.at + g.filesz
          /\ sections[s].mem + sections[s].size <= sections[SectionOf(g.first)].mem + g.memsz

\* Each reference to a symbol has one entry of its own, in the relocation section
\* of the section it is in; what is at the place, or in the entry, is what the
\* expression adds to the symbol.  There are no other entries.
EntriesFor(s, at) ==
  UNION {{<<t, e>> : e \in {i \in DOMAIN sections[t].entries : sections[t].entries[i].at = at}} :
            t \in {u \in DOMAIN sections : sections[u].name \in {<<".rel">> \o sections[s].name, <<".rela">> \o sections[s].name}}}
Entry(p) == sections[p[1]].entries[p[2]]
Texts == {s \in DOMAIN sections : IsText(sections[s].name)}
CodeRefs(s) == {k \in DOMAIN CodeLines(s) : CodeLines(s)[k].ref # "none" /\ ~Local(s, CodeLines(s)[k])}
CodeEntries(s, k) == EntriesFor(s, Offset(k - 1))
DataRefs == {f \in DOMAIN fixups : HeaderRef(fixups[f]) \/ Named(fixups[f]) \/ Symbolic(fixups[f])}
DataEntries(f) == EntriesFor(fixups[f].sec, fixups[f].at)
RelocationsComplete ==
  stage = "done" =>
    /\ \A f \in DataRefs : \E p \in DataEntries(f) :
         /\ DataEntries(f) = {p}
         /\ Entry(p).sym = SymIdx(fixups[f].expr.a)
         /\ Symbolic(fixups[f]) =>
              VarValue(fixups[f].expr.a) + sections[fixups[f].sec].items[fixups[f].at].num = Value(fixups[f].expr)
    /\ \A s \in Texts : \A k \in CodeRefs(s) : \E p \in CodeEntries(s, k) :
         /\ CodeEntries(s, k) = {p}
         /\ Entry(p).sym = SymIdx(CodeLines(s)[k].expr.a)
         /\ VarValue(CodeLines(s)[k].expr.a) + Entry(p).add = Value(CodeLines(s)[k].expr)
    /\ \A f, g \in DataRefs : DataEntries(f) = DataEntries(g) => f = g
    /\ \A t \in DOMAIN sections : \A e \in DOMAIN sections[t].entries :
         \/ \E f \in DataRefs : <<t, e>> \in DataEntries(f)
         \/ \E s \in Texts : \E k \in CodeRefs(s) : <<t, e>> \in CodeEntries(s, k)

\* The attributes of a kernel's info section are those the source gives it that
\* are not generated, in their order, and the generated ones that the kernel's
\* instructions and labels call for.  Those the source had not tell the offsets
\* of the instructions.  The register counts are the kernels'.
Heads(t) ==
  LET attrs == ElementsAt(src.lines, {i \in LinesOf(t) : src.lines[i].op = "data" /\ src.lines[i].head \in DOMAIN Format})
  IN  [k \in DOMAIN attrs |-> attrs[k].head]
Names(attrs) == [k \in DOMAIN attrs |-> attrs[k].name]
Own(names) == SelectSeq(names, LAMBDA a : a \notin Generated(src.grouped))
ExitOffsets(s) == {Offset(k - 1) : k \in {i \in DOMAIN CodeLines(s) : CodeLines(s)[i].ins = "EXIT"}}
InfoIsCurrent ==
  stage = "done" =>
    /\ \A s \in DOMAIN sections : IsText(sections[s].name) =>
         LET t == SectionOf(InfoOf(s))
             attrs == sections[t].attrs
         IN  /\ Own(Names(attrs)) = Own(Heads(t))
             /\ ToSet(Names(attrs)) \ ToSet(Own(Heads(t)))
                  = DOMAIN Wanted(s, CodeLines(s)) \cap Generated(src.grouped)
             /\ \A k \in DOMAIN attrs :
                  attrs[k].name = "EXIT" /\ "EXIT" \notin ToSet(Heads(t)) => ToSet(attrs[k].val) = ExitOffsets(s)
    /\ LET attrs == sections[SectionOf(<<".nv.info">>)].attrs
       IN  \A k \in DOMAIN attrs, s \in Counted :
             attrs[k].name = "REGCOUNT" /\ attrs[k].val[1] = SymIdx(sections[s].name[2]) =>
               attrs[k].val[2] = sections[s].regs

\* updateNVInfoFromDict's doc: it updates attribute values from a kernel's
\* extra-info dict.
ExitOffsetsAreCurrent ==
  stage = "done" =>
    \A s \in DOMAIN sections : IsText(sections[s].name) =>
      LET attrs == sections[SectionOf(InfoOf(s))].attrs
      IN  \A k \in DOMAIN attrs : attrs[k].name = "EXIT" => ToSet(attrs[k].val) = ExitOffsets(s)
=============================================================================
