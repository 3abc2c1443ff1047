------------------------------ MODULE CubinFile ------------------------------
(***************************************************************************)
(* The disassembler (CubinFile.cpp): a cubin the assembler has saved is    *)
(* read and written as a .cuasm file, which the assembler parses again.    *)
(* Code, data and info attributes are nvdisasm's text with the control     *)
(* codes put in front of the instructions; the tables it does not show and *)
(* the segments are written from the ELF file.                             *)
(***************************************************************************)
EXTENDS CuAsmParser, CuAsmText

CONSTANTS Reread,   \* the files whose cubins are disassembled
          Defaults, \* the uniform registers compilers keep the default descriptor in
          Home      \* of a symbol, the NOBITS section it is in (st_shndx)

VARIABLE origin     \* the cubin src is the disassembly of, or nothing

cubinVars == <<vars, origin>>

-----------------------------------------------------------------------------
(* What saveAsCubin has written.                                           *)

NumbersOf(s) == [at \in {a \in DOMAIN sections[s].items : sections[s].items[a].num # 0} |-> sections[s].items[at].num]

\* The instructions of a kernel, with the NOPs it is filled up with.
PadCode == 2016
Nop == [ins |-> "NOP", operand |-> 0, code |-> PadCode, desc |-> NoDesc, bit |-> FALSE]
Slots(s) == [i \in 1..(IF src.grouped THEN 3 * (sections[s].size \div 32) ELSE sections[s].size \div 16) |->
               IF i \in DOMAIN sections[s].code THEN sections[s].code[i] ELSE Nop]

\* saveAsCubin's file, after its demoteDefaultDescBits.
Cubin ==
  [grouped |-> src.grouped, symbols |-> symtab, segments |-> segments, phoff |-> file.phoff, phnum |-> src.phnum,
   sections |-> [s \in DOMAIN sections |-> LET t == sections[s] IN
     [name |-> t.name, type |-> t.type, regs |-> t.regs, align |-> t.align, size |-> t.size, at |-> t.at,
      attrs |-> t.attrs, entries |-> t.entries,
      numbers |-> IF t.name = <<".symtab">> THEN <<>> ELSE NumbersOf(s),
      slots |-> IF IsText(t.name) THEN Demoted(Slots(s)) ELSE <<>>]]]

\* The cubin as a compiler with ur for the default descriptor writes it.
CompiledCubin(c, ur) ==
  [c EXCEPT !.sections = [s \in DOMAIN @ |-> IF IsText(@[s].name) THEN [@[s] EXCEPT !.slots = Compiled(@, ur)] ELSE @[s]]]

SectionIn(c, name) == c.sections[CHOOSE s \in DOMAIN c.sections : c.sections[s].name = name]
IsIn(c, name) == \E s \in DOMAIN c.sections : c.sections[s].name = name
NameOf(c, sym) == c.symbols[sym + 1].name
RelocsAt(c, name, at) ==
  UNION {{r \in ToSet(t.entries) : r.at = at} :
           t \in {u \in ToSet(c.sections) : u.name \in {<<".rel">> \o name, <<".rela">> \o name}}}

-----------------------------------------------------------------------------
(* The sections a segment starts and ends with (loadCubin).  A section is  *)
(* not looked up at its own offset but where the sizes and alignments of   *)
(* those before it put it, NOBITS sections included.                       *)

EdgesOf(c) ==
  FoldLeft(LAMBDA e, t : IF t.align = 0 THEN [e EXCEPT !.list = Append(@, [name |-> t.name, start |-> 0, stop |-> 0])]
                         ELSE LET start == Aligned(e.at, t.align)
                              IN  [at |-> start + t.size,
                                   list |-> Append(e.list, [name |-> t.name, start |-> start, stop |-> start + t.size])],
           [at |-> 64, list |-> <<>>], c.sections).list
Edges(c) == EdgesOf(c) \o IF c.phnum > 0 THEN <<[name |-> PHDR, start |-> c.phoff, stop |-> c.phoff + 56 * c.phnum]>> ELSE <<>>

\* The last of the edges there, or else of the nearest below or above.
Below(c, p) == {e \in DOMAIN Edges(c) : Edges(c)[e].start <= p}
Above(c, p) == {e \in DOMAIN Edges(c) : Edges(c)[e].stop >= p}
StartSection(c, p) ==
  Edges(c)[CHOOSE e \in Below(c, p) :
    \A f \in Below(c, p) : Edges(c)[f].start < Edges(c)[e].start \/ (Edges(c)[f].start = Edges(c)[e].start /\ f <= e)].name
EndSection(c, p) ==
  Edges(c)[CHOOSE e \in Above(c, p) :
    \A f \in Above(c, p) : Edges(c)[f].stop > Edges(c)[e].stop \/ (Edges(c)[f].stop = Edges(c)[e].stop /\ f <= e)].name

\* loadCubin finds the range of every segment, and saveAsCuAsm the info
\* section of every kernel.
Loads(c) ==
  /\ \A g \in ToSet(c.segments) : g.type = "LOAD" => Below(c, g.at) # {} /\ Above(c, g.at + g.memsz) # {}
  /\ \A t \in ToSet(c.sections) : IsText(t.name) => IsIn(c, <<".nv.info", t.name[2]>>)

\* writeSegmentHeaderAsm.
SegmentLine(c, g) ==
  IF g.type = "LOAD" THEN Seg(g.type, StartSection(c, g.at), EndSection(c, g.at + g.memsz))
  ELSE Seg(g.type, <<>>, <<>>)

-----------------------------------------------------------------------------
(* Code (writeCodeSectionAsm).                                             *)

\* nvdisasm's labels: of the instructions that others jump to, and of the end
\* of the kernel.
JumpOps == {"BRA"}
IsJump(c, t, i) == t.slots[i].ins \in JumpOps /\ RelocsAt(c, t.name, Offset(i - 1)) = {}
JumpTo(at) == 1 + IF src.grouped /\ at % 32 = 0 THEN 3 * (at \div 32) ELSE Index(at)
Targets(c, t) == {JumpTo(t.slots[i].operand) : i \in {j \in DOMAIN t.slots : IsJump(c, t, j)}}
LabelOf(k, i) == k \o ".L" \o ToString(i)
EndOfKernel(k) == k \o ".end"
SizeOf(c, k) == LET sized == {y \in ToSet(c.symbols) : y.name = k /\ y.size > 0}
                IN  IF sized = {} THEN 0 ELSE (CHOOSE y \in sized : TRUE).size

\* nvdisasm's text of an instruction, a relocation in place of its operand.
Bare(c, t, i) ==
  LET ins == t.slots[i]
      rels_i == RelocsAt(c, t.name, Offset(i - 1))
      r == CHOOSE x \in rels_i : TRUE
      name == NameOf(c, r.sym)
  IN  CASE rels_i # {} -> [ref |-> r.type, expr |-> IF r.rela THEN Plus(name, r.add) ELSE Ref(name)]
        [] IsJump(c, t, i) -> [ref |-> "target", expr |-> Ref(LabelOf(t.name[2], JumpTo(ins.operand)))]
        [] OTHER -> [ref |-> "none", expr |-> Ref("")]

\* The control code in front of an instruction, whose text shows a descriptor
\* if that of the file with the descriptor bits fixed does.
Control(code) == CC!Decode(code)
CodeLine(c, t, i) ==
  LET ctrl == Control(t.slots[i].code)
      bare == Bare(c, t, i)
  IN  [InsRef(t.slots[i].ins, ctrl, bare.ref, bare.expr) EXCEPT
         !.open = src.grouped /\ ctrl.stall = 0, !.desc = Shown(Fixed(t.slots)[i])]

\* getOffsetLabelDict: the attribute an offset has a label of, the last one.
LabelledAttrs(grouped) == {"COOP", "EXIT", "S2RCTAID"} \ AutoGen(grouped)
OffsetAttrs(c, k, at) ==
  SelectSeq(SectionIn(c, <<".nv.info", k>>).attrs, LAMBDA a : a.name \in LabelledAttrs(c.grouped) /\ at \in ToSet(a.val))

SlotLines(c, t, i) ==
  LET k == t.name[2]
      attrs == OffsetAttrs(c, k, Offset(i - 1))
  IN  (IF i \in Targets(c, t) THEN <<Lab(LabelOf(k, i))>> ELSE <<>>)
      \o (IF attrs # <<>> THEN <<Off(k, attrs[Len(attrs)].name)>> ELSE <<>>)
      \o <<CodeLine(c, t, i)>>
      \o (IF Offset(i - 1) + Unit = SizeOf(c, k) THEN <<Lab(EndOfKernel(k))>> ELSE <<>>)

KernelLines(c, t) ==
  LET k == t.name[2]
  IN  <<Text(k, t.regs), Al(t.align)>>
      \o (IF SizeOf(c, k) > 0 THEN <<Siz(k, Minus(EndOfKernel(k), k))>> ELSE <<>>)
      \o <<Lab(k)>> \o FlattenSeq([i \in DOMAIN t.slots |-> SlotLines(c, t, i)])

-----------------------------------------------------------------------------
(* The other sections (writeExplicitSectionAsm, writeImplicitSectionAsm).  *)

\* Offsets of a section, in order.
Places(size, ats) == SelectSeq([i \in 1..(size + 1) |-> i - 1], LAMBDA at : at \in ats)

InfoLines(c, t) ==
  LET first(a, k) == a.name \in {"REGCOUNT", "FRAME"} /\ k = 1
      word(a, k) == IF first(a, k) THEN Fix(4, "index", Ref(NameOf(c, a.val[k]))) ELSE Hex(4, a.val[k])
      lines(a) == CASE Format[a.name] = "SVAL" -> <<AttrHead(a.name), Hex(2, 4 * Len(a.val))>>
                                                  \o [k \in DOMAIN a.val |-> word(a, k)]
                    [] Format[a.name] = "HVAL" -> <<AttrHead(a.name), Hex(2, a.val[1])>>
                    [] OTHER -> <<AttrHead(a.name), Hex(2, 0)>>
  IN  FlattenSeq([k \in DOMAIN t.attrs |-> lines(t.attrs[k])])

\* Numbers up to the next item, relocated words by what their relocation says.
DataLines(c, t) ==
  LET relocated == {at \in 0..t.size : RelocsAt(c, t.name, at) # {}}
      ats == Places(t.size, relocated \cup DOMAIN t.numbers)
      stop(k) == IF k < Len(ats) THEN ats[k + 1] ELSE t.size
      num(at) == IF at \in DOMAIN t.numbers THEN t.numbers[at] ELSE 0
      rel(at) == CHOOSE r \in RelocsAt(c, t.name, at) : TRUE
      len(r) == IF r.type = "R_CUDA_64" THEN 8 ELSE 4
      line(r) == IF r.type \in {"tex", "surf", "fun"} THEN Fix(len(r), r.type, Ref(NameOf(c, r.sym)))
                 ELSE Fix(len(r), "expr", IF num(r.at) = 0 THEN Ref(NameOf(c, r.sym)) ELSE Plus(NameOf(c, r.sym), num(r.at)))
      lines(k) == IF ats[k] \notin relocated THEN <<Hex(stop(k) - ats[k], num(ats[k]))>>
                  ELSE <<line(rel(ats[k])), Zr(stop(k) - ats[k] - len(rel(ats[k])))>>
  IN  IF ats = <<>> THEN <<Zr(t.size)>> ELSE <<Zr(ats[1])>> \o FlattenSeq([k \in DOMAIN ats |-> lines(k)])

\* Zeros, with the labels of the symbols in them.
RoomLines(c, t) ==
  LET here(at) == SelectSeq(c.symbols, LAMBDA y : y.name \in DOMAIN Home /\ Home[y.name] = t.name /\ y.value = at)
      ats == Places(t.size, {at \in 0..t.size : here(at) # <<>>})
      from(k) == IF k = 1 THEN 0 ELSE ats[k - 1]
      lines(k) == <<Zr(ats[k] - from(k))>> \o [j \in DOMAIN here(ats[k]) |-> Lab(here(ats[k])[j].name)]
  IN  FlattenSeq([k \in DOMAIN ats |-> lines(k)]) \o <<Zr(t.size - from(Len(ats) + 1))>>

SectionLines(c, t) ==
  CASE IsText(t.name) -> KernelLines(c, t)
    [] t.name # <<>> /\ t.name[1] \in {".rel", ".rela"} -> <<Sec(t.name, t.type), Al(t.align)>>
    [] t.name = <<".symtab">> -> <<Sec(t.name, t.type), Al(t.align)>>
                                 \o [k \in DOMAIN c.symbols |-> Sym(c.symbols[k].name, c.symbols[k].value)]
    [] t.name # <<>> /\ t.name[1] = ".nv.info" -> <<Sec(t.name, t.type), Al(t.align)>> \o InfoLines(c, t)
    [] t.type = "NOBITS" -> <<Sec(t.name, t.type), Al(t.align)>> \o RoomLines(c, t)
    [] OTHER -> <<Sec(t.name, t.type), Al(t.align)>> \o DataLines(c, t)

\* saveAsCuAsm.
Disassembled(c) ==
  [grouped |-> c.grouped, phnum |-> c.phnum,
   lines |-> FlattenSeq([s \in DOMAIN c.sections |-> SectionLines(c, c.sections[s])])
             \o [k \in DOMAIN c.segments |-> SegmentLine(c, c.segments[k])]]

-----------------------------------------------------------------------------
CubinInit == Init /\ origin = <<>>

\* The cubin that a compiler makes of the same sections is loaded, written as
\* text and parsed by a new object.
Disassemble ==
  /\ stage = "done" /\ src \in Reread /\ Loads(Cubin)
  /\ \E ur \in Defaults :
       LET c == CompiledCubin(Cubin, ur)
       IN  Restart(Disassembled(c)) /\ origin' = <<c>>
  /\ symtab' = <<>>
==============================================================================
