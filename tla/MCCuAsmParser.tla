---------------------------- MODULE MCCuAsmParser ----------------------------
(* Files of one or two kernels of both layouts, as the disassembler writes   *)
(* them, with every place of a label, ends of kernels and what follows them; *)
(* and files with one mistake each.                                          *)
EXTENDS CuAsmParser, CuAsmText

Alone == [wait |-> {}, read |-> 7, write |-> 7, yield |-> "-", stall |-> 1]
Op(ins) == Ins(ins, Alone)
OpRef(ins, ref, e) == InsRef(ins, [Alone EXCEPT !.wait = {0, 4}, !.write = 2, !.yield = "Y"], ref, e)
Mem(ins, ur) == [Op(ins) EXCEPT !.desc = ur]

\* An attribute whose length is the distance of two labels.
Attr(name, from, to, words) == <<AttrHead(name), Fix(2, "expr", Minus(to, from)), Lab(from)>> \o words \o <<Lab(to)>>

-----------------------------------------------------------------------------
Top(syms) ==
  <<Sec(<<>>, "NULL"), Sec(<<".shstrtab">>, "PROGBITS"), Al(1), Zr(13),
    Sec(<<".strtab">>, "PROGBITS"), Al(1), Zr(7), Sec(<<".symtab">>, "PROGBITS"), Al(8)>>
  \o [k \in DOMAIN syms |-> Sym(syms[k], IF syms[k] = "g" THEN 4 ELSE 0)]
  \o <<Sec(<<".nv.info">>, "PROGBITS"), Al(4)>>
  \o Attr("REGCOUNT", "r0", "r1", <<Fix(4, "index", Ref("A")), Hex(4, 0)>>)
  \o Attr("REGCOUNT", "r2", "r3", <<Fix(4, "index", Ref("B")), Hex(4, 0)>>)

\* The info section of A as an earlier assembly left it.
InfoA(old) ==
  <<Sec(<<".nv.info", "A">>, "PROGBITS"), Al(4), AttrHead("MAXREG"), Hex(2, 255)>>
  \o (IF old THEN Attr("EXIT", "a0", "a1", <<Hex(4, 8)>>) \o <<AttrHead("CTAIDZ"), Zr(2)>> ELSE <<>>)
  \o Attr("FRAME", "a2", "a3", <<Fix(4, "index", Ref("f")), Hex(4, 0)>>)

RelSecs == <<Sec(<<".rel", ".text", "A">>, "PROGBITS"), Al(8), Sec(<<".rela", ".text", "A">>, "PROGBITS"), Al(8),
             Sec(<<".rel", ".nv.constant4">>, "PROGBITS"), Al(8)>>

Constants(more) ==
  <<Sec(<<".nv.constant4">>, "PROGBITS"), Al(8), Fix(8, "expr", Ref("g")), Fix(8, "expr", Plus("A", 24)),
    Fix(1, "expr", Minus("a3", "a2")), Al(4), Fix(4, "tex", Ref("g")), Fix(4, "surf", Ref("g")),
    Fix(8, "fun", Ref("f")), Fix(4, "expr", Ref("f")), Fix(4, "srel", Ref("L")), Lab("c"), Fix(4, "expr", Ref("c"))>> \o more

\* The code of A: a label before the instruction at, in a mode of its own, n
\* instructions, and references at its end.
Mark(mode) == CASE mode = "sync" -> <<Lab("L"), Op("SYNC")>>
                [] mode = "bundle" -> <<Lab("L"), [Op("CTAID.X") EXCEPT !.open = TRUE, !.ctrl.stall = 0], Op("BRK")>>
                [] mode = "offset" -> <<Off("A", "COOP"), Lab("L"), Op("CTAID.Z")>>
                [] mode = "refs" -> <<Lab("L"), OpRef("MOV", "lo", Plus("g", 4)), OpRef("MOV", "hi", Ref("g")), OpRef("JCAL", "target", Ref("f"))>>
                [] mode = "most" -> <<Lab("L"), Mem("LDG", 4), Mem("STG", 4), Mem("LDG", 6)>>
                [] mode = "half" -> <<Mem("LDG", 4), Lab("L"), Mem("LDG", 6), Mem("LDG", 4), Mem("LDG", 8)>>
                [] OTHER -> <<Lab("L"), Op("BAR")>>
CodeA(mode, at, n, align) ==
  <<Text("A", 16), Al(align), Siz("A", Minus("endA", "A")), Lab("A")>>
  \o [k \in 1..at |-> Op("IADD")] \o Mark(mode) \o <<OpRef("BRA", "target", Ref("L"))>>
  \o [k \in 1..n |-> IF k = 1 THEN Op("EXIT") ELSE Op("NOP")] \o <<Lab("endA")>>

InfoB == <<Sec(<<".nv.info", "B">>, "PROGBITS"), Al(4)>>
CodeB(align) == <<Text("B", 255), Al(align), Siz("B", Minus("endB", "B")), Lab("B"), Op("HMMA"),
                  OpRef("BRA", "target", Ref("B")), Op("EXIT"), Op("EXIT"), Lab("endB")>>
Shared == <<Sec(<<".nv.shared", "A">>, "NOBITS"), Al(16), Zr(20)>>
Global == <<Sec(<<".nv.global">>, "NOBITS"), Al(4), Zr(4), Lab("g"), Zr(4)>>

After(tail, align) == CASE tail = "kernel" -> CodeB(align) \o Global
                       [] tail = "shared" -> CodeB(align) \o Shared \o Global
                       [] tail = "data" -> <<Sec(<<".nv.callgraph">>, "PROGBITS"), Al(4), Hex(4, 7)>> \o CodeB(align)
                       [] OTHER -> <<>>

File(grouped, old, mode, at, n, tail, syms, more, last) ==
  LET align == IF grouped THEN 32 ELSE 128
      lines == Top(syms) \o InfoA(old) \o InfoB \o RelSecs \o Constants(more)
               \o CodeA(mode, at, n, align) \o After(tail, align) \o last
  IN  [grouped |-> grouped, phnum |-> Len(SelectSeq(lines, LAMBDA l : l.op = "segment")), lines |-> lines]

Syms == <<"", "A", "B", "g", "f">>
Segs(tail) == <<Seg("PHDR", <<>>, <<>>), Seg("LOAD", PHDR, PHDR), Seg("LOAD", <<".nv.constant4">>, <<".text", "A">>),
                Seg("LOAD", <<>>, <<>>)>>
              \o (IF tail \in {"kernel", "shared"} THEN <<Seg("LOAD", <<".text", "B">>, <<".nv.global">>)>> ELSE <<>>)

Correct ==
  {File(grouped, n = 2, mode, at, n, tail, Syms, <<>>, Segs(tail)) :
     grouped \in BOOLEAN, mode \in {"sync", "bundle", "offset", "refs", "bar"}, at \in 0..3, n \in 1..3,
     tail \in {"none", "kernel", "shared", "data"}}
  \cup {File(FALSE, FALSE, mode, 0, 1, tail, Syms, <<>>, Segs(tail)) : mode \in {"most", "half"}, tail \in {"none", "kernel"}}

-----------------------------------------------------------------------------
\* A file with more lines in its constants, or behind its last section.
Sound(grouped, more, last) == File(grouped, FALSE, "refs", 1, 2, "shared", Syms, more, last \o Segs("shared"))
Replaced(f, old, new) == [f EXCEPT !.lines = [k \in DOMAIN @ |-> IF @[k] = old THEN new ELSE @[k]]]

Misplaced == {<<Lab("c")>>, <<Op("NOP")>>, <<Off("A", "COOP")>>, <<Fix(4, "index", Ref("x"))>>, <<Fix(4, "expr", Ref("x"))>>,
              <<Fix(4, "expr", Minus("a2", "a3"))>>, <<Fix(1, "expr", Plus("c", 250))>>, <<Fix(4, "srel", Ref("x"))>>,
              <<Fix(4, "fun", Ref("B"))>>, <<Siz("g", Minus("a2", "a3"))>>}

Odd == {<<Sec(<<".nv.constant4">>, "PROGBITS")>>, <<Text("C", 8), Al(128), Lab("C"), Op("EXIT")>>,
        <<Sec(<<".data">>, "PROGBITS"), Al(4), Fix(4, "expr", Ref("f"))>>,
        <<Seg("NOTE", <<>>, <<>>)>>, <<Seg("LOAD", <<".text", "A">>, <<".data">>)>>, <<Seg("PHDR", <<>>, <<>>), Lab("d")>>,
        <<Sec(<<".nv.info", "C">>, "PROGBITS"), Sec(<<".data">>, "PROGBITS"), Al(4), Hex(4, 1),
          Sec(<<".bss">>, "NOBITS"), Al(4), Zr(4), Text("C", 8), Al(32), Op("EXIT"),
          Sec(<<".last">>, "PROGBITS"), Al(4), Hex(4, 1)>>}

Wrong == {<<Sec(<<".symtab">>, "PROGBITS"), Sec(<<".x">>, "PROGBITS")>>, <<Sec(<<".nv.info">>, "PROGBITS"), Sec(<<".x">>, "PROGBITS")>>,
          <<Sec(<<".nv.info", "A">>, "PROGBITS"), Sec(<<".x">>, "PROGBITS")>>, <<AttrHead("MAXREG"), Hex(2, 0)>>,
          <<AttrHead("REGCOUNT"), Hex(2, 0)>>, <<Sym("g", 4), Sym("A", 0)>>, <<Text("B", 255), Text("B", -1)>>,
          <<OpRef("JCAL", "target", Ref("f")), OpRef("JCAL", "target", Ref("x"))>>, <<Op("EXIT"), [Op("EXIT") EXCEPT !.ctrl.read = 6]>>}

MCFaulty == {Sound(grouped, more, <<>>) : grouped \in BOOLEAN, more \in Misplaced}
            \cup {Sound(grouped, <<>>, last) : grouped \in BOOLEAN, last \in Odd}
            \cup {Replaced(Sound(grouped, <<>>, <<>>), w[1], w[2]) : grouped \in BOOLEAN, w \in Wrong}
MCSources == Correct \cup MCFaulty
MCAgain == {Sound(grouped, <<>>, <<>>) : grouped \in BOOLEAN}
MCOneLetter == {"f"}
=============================================================================
