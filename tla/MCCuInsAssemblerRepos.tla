------------------------ MODULE MCCuInsAssemblerRepos -------------------------
(***************************************************************************)
(* An instruction with an optional modifier, a guard of two values and one *)
(* value of which the code has the half.  Samples are right or have the    *)
(* code of another sample (as a disassembler that loses a flag prints      *)
(* them).  The listing that is parsed has every kind of operand, and the   *)
(* texts not in it other numbers, registers and guards.  The two machines  *)
(* share no state, and are explored one or the other.                      *)
(***************************************************************************)
EXTENDS CuInsAssemblerRepos, ParsedRepos

MCTrueCode(s) ==
  8 * s.vals[1] + s.vals[2] \div 2 + (IF "X" \in ToSet(s.modi) THEN 4 ELSE 0) + (IF "OP" \in ToSet(s.modi) THEN 16 ELSE 0)

Ins(modi, guard, val) == [modi |-> modi, vals |-> <<guard, val>>]
Right(i) == [modi |-> i.modi, vals |-> i.vals, code |-> MCTrueCode(i)]
Off(i, d) == [Right(i) EXCEPT !.code = @ + d]

Op == <<"OP">>
OpX == <<"OP", "X">>

MCSamples ==
  {Right(Ins(Op, 1, 2)), Right(Ins(OpX, 1, 4)), Right(Ins(OpX, 0, 2)), Off(Ins(Op, 1, 4), 1)}
MCOthers ==
  {<<Right(Ins(Op, 0, 4)), Right(Ins(Op, 1, 2))>>,
   <<Right(Ins(OpX, 1, 0)), Off(Ins(OpX, 1, 0), 1)>>}
MCInputs == {Ins(m, g, v) : m \in {Op, OpX}, g \in {0, 1}, v \in {0, 2, 4}} \cup {Ins(<<"OP", "Y">>, 1, 0)}

-------------------------------------------------------------------------------
Num(n) == [neg |-> n < 0, mag |-> IF n < 0 THEN -n ELSE n]
Imm(n) == [kind |-> "int", num |-> Num(n), post |-> <<>>]
Reg(label, i) == [kind |-> "reg", label |-> label, idx |-> i, pre |-> <<>>, post |-> <<>>]
R(i) == Reg("R", i)
Neg(o) == [o EXCEPT !.pre = <<"-">>]
Only(label, i) == <<[label |-> label, idx |-> i, post |-> <<>>]>>
Wide(i) == <<[label |-> "R", idx |-> i, post |-> <<"64">>]>>
Offset_(n) == <<[label |-> "I", num |-> Num(n)]>>
At(parts) == [kind |-> "addr", parts |-> parts]
In(kind, x, parts) == [kind |-> kind, parts |-> parts, pre |-> <<>>, post |-> <<>>, bank |-> Num(x), idx |-> x]
Single(neg, single, hex, bits) ==
  [kind |-> "float", post |-> <<>>, num |-> [neg |-> neg, hex |-> hex, bits |-> bits, single |-> single, upper |-> 0]]

Text(legacy, addr, guard, op, dots, operands) ==
  [legacy |-> legacy, addr |-> addr, guard |-> guard, dots |-> dots, operands |-> operands,
   op |-> [name |-> op, first |-> IF op \in {"FADD", "F2F"} THEN "F" ELSE IF op = "HADD2" THEN "H" ELSE "other", wide |-> op = "MOV32I"]]
Old(op, dots, operands) == Text(TRUE, 0, <<>>, op, dots, operands)
New(op, dots, operands) == Text(FALSE, 0, <<>>, op, dots, operands)
Under(neg, i, t) == [t EXCEPT !.guard = <<[neg |-> neg, idx |-> i]>>]
From(addr, t) == [t EXCEPT !.addr = addr]

\* Binary32 values: 0.5, 3, 40 and one that halves round; the least that
\* the old versions tell apart, and the least half.
Half == 126 * Exp32
Three == 128 * Exp32 + Exp32 \div 2
Forty == 132 * Exp32 + Exp32 \div 4
Odd == 127 * Exp32 + 12288
Least == 4096
LeastHalf == 103 * Exp32

MCListing ==
  << \* immediates with and without a sign, and in 32 bits
     Old("MOV", <<>>, <<R(0), Imm(1)>>), Old("MOV", <<>>, <<R(1), Imm(1)>>), Old("MOV", <<>>, <<R(0), Imm(2)>>),
     Under(FALSE, 0, Old("MOV", <<>>, <<R(0), Imm(1)>>)), Old("MOV", <<>>, <<R(0), Imm(-1)>>), Old("MOV", <<>>, <<R(0), Imm(64)>>),
     Old("MOV", <<>>, <<R(0), Imm(-2)>>), Old("MOV", <<>>, <<R(Z), Imm(70)>>),
     Old("MOV32I", <<>>, <<R(0), Imm(1)>>), Old("MOV32I", <<>>, <<R(1), Imm(3)>>), Old("MOV32I", <<>>, <<R(0), Imm(65)>>),
     Under(TRUE, 1, Old("MOV32I", <<>>, <<R(0), Imm(1)>>)), Old("MOV32I", <<>>, <<R(0), Imm(-1)>>),
     New("MOV", <<>>, <<R(0), Imm(1)>>), New("MOV", <<>>, <<R(1), Imm(2)>>), New("MOV", <<>>, <<R(0), Imm(2)>>),
     Under(TRUE, 0, New("MOV", <<>>, <<R(0), Imm(1)>>)), New("MOV", <<>>, <<R(0), Imm(-1)>>),
     \* jumps
     Old("BRA", <<>>, <<Imm(8)>>), From(8, Old("BRA", <<>>, <<Imm(8)>>)), Under(FALSE, 1, Old("BRA", <<>>, <<Imm(8)>>)),
     Old("BRA", <<>>, <<Imm(16)>>),
     Old("BRX", <<>>, <<[kind |-> "both", reg |-> R(0), num |-> Imm(0), text |-> "R0 0x0"]>>), From(8, Old("BRX", <<>>, <<R(1), Imm(16)>>)),
     Old("BRX", <<>>, <<R(0), Imm(8)>>), Old("BRX", <<>>, <<R(0), Imm(16)>>),
     \* floats
     Old("FADD", <<>>, <<R(0), Single(FALSE, Least, FALSE, 0)>>), Old("FADD", <<>>, <<R(1), Single(FALSE, 0, TRUE, 3)>>),
     Old("FADD", <<>>, <<R(0), Single(FALSE, 0, TRUE, 2)>>), Old("FADD", <<>>, <<R(0), Single(TRUE, 2 * Least, FALSE, 0)>>),
     Under(FALSE, 2, Old("FADD", <<>>, <<R(0), Single(FALSE, Least, FALSE, 0)>>)),
     New("HADD2", <<>>, <<R(0), Single(FALSE, 0, FALSE, 0)>>), New("HADD2", <<>>, <<R(1), Single(FALSE, LeastHalf, FALSE, 0)>>),
     New("HADD2", <<>>, <<R(0), Single(FALSE, LeastHalf, FALSE, 0)>>),
     \* types of conversions
     Old("F2F", <<"F32", "F16">>, <<R(0), R(0)>>), Old("F2F", <<"F16", "F32">>, <<R(0), R(0)>>), Old("F2F", <<"F32", "F32">>, <<R(0), R(0)>>),
     Old("F2F", <<"F32", "F16">>, <<R(1), R(0)>>), Old("F2F", <<"F32", "F16">>, <<R(0), Neg(R(1))>>), Old("F2F", <<"F32", "F16">>, <<R(0), R(1)>>),
     New("I2F", <<"F32">>, <<R(0), R(0)>>), New("I2F", <<"F64">>, <<R(0), R(0)>>),
     \* memory
     Old("LD", <<>>, <<R(0), At(Only("R", 2) \o Offset_(1))>>), Old("LD", <<>>, <<R(0), At(Only("R", 3))>>),
     Old("LD", <<>>, <<R(1), At(Only("R", 3))>>), Old("LD", <<>>, <<R(0), At(Only("R", 2) \o Offset_(-4))>>),
     Old("LD", <<>>, <<R(0), At(Only("R", 2) \o Offset_(64))>>), Old("LD", <<>>, <<R(0), At(Only("R", 2))>>),
     New("LDG", <<>>, <<R(0), In("desc", 4, Wide(2) \o Offset_(4))>>), New("LDG", <<>>, <<R(0), In("desc", 6, Wide(2))>>),
     New("LDG", <<>>, <<R(0), In("desc", 4, Wide(3))>>), New("LDG", <<>>, <<R(1), In("desc", 4, Offset_(-4) \o Wide(2))>>),
     New("LDG", <<>>, <<R(0), In("desc", 4, Wide(2))>>), New("LDG", <<>>, <<R(0), In("desc", 4, Wide(2) \o Offset_(-4))>>),
     New("LDG", <<>>, <<R(0), In("desc", 1, Only("R", 1) \o Only("UR", 1))>>),
     New("LDG", <<>>, <<R(0), In("desc", 1, Only("R", 1) \o Only("UR", 2) \o Offset_(4))>>),
     New("LDC", <<>>, <<R(0), In("const", 0, Only("R", 1))>>), New("LDC", <<>>, <<R(0), In("const", 3, Only("R", 2) \o Offset_(4))>>),
     New("LDC", <<>>, <<R(0), In("cx", 4, Offset_(4))>>), New("LDC", <<>>, <<R(0), In("cx", 5, <<>>)>>),
     \* tables, sets and labels
     New("PLOP3", <<"LUT">>, <<Reg("P", 0), Imm(5), Imm(0)>>), New("PLOP3", <<"LUT">>, <<Reg("P", 0), Imm(42), Imm(0)>>),
     New("PLOP3", <<"LUT">>, <<Reg("P", 1), Imm(7), Imm(0)>>), New("PLOP3", <<"LUT">>, <<Reg("P", Z), Imm(8), Imm(2)>>),
     Old("PSETP", <<"AND", "OR">>, <<Reg("P", 0), Reg("P", Z)>>), Old("PSETP", <<"OR", "AND">>, <<Reg("P", 0), Reg("P", Z)>>),
     Old("DEPBAR", <<>>, <<[kind |-> "set", set |-> {0, 2}, pre |-> <<>>, post |-> <<>>]>>),
     Old("DEPBAR", <<>>, <<[kind |-> "set", set |-> {1}, pre |-> <<>>, post |-> <<>>]>>),
     New("R2P", <<>>, <<[kind |-> "label", text |-> "PR"], R(8)>>) >>

Signed7 == {-64, -63, -8, 0, 63, 64, 65, 127}
Signed8 == {-128, -65, -64, 0, 64, 127, 128, 255}

MCUnseen ==
  {Old("MOV", <<>>, <<R(r), Imm(n)>>) : r \in {3, Z}, n \in Signed7}
  \cup {Under(g, 2, Old("MOV", <<>>, <<R(0), Imm(n)>>)) : g \in BOOLEAN, n \in Signed7}
  \cup {Old("MOV32I", <<>>, <<R(2), Imm(n)>>) : n \in Signed8}
  \cup {Under(TRUE, 3, New("MOV", <<>>, <<R(2), Imm(n)>>)) : n \in Signed8}
  \cup {From(8 * a, Old("BRA", <<>>, <<Imm(8 * b)>>)) : a \in 0..5, b \in 0..5}
  \cup {Old("FADD", <<>>, <<R(2), Single(neg, x, FALSE, 0)>>) : neg \in BOOLEAN, x \in {0, Half, Three, Forty, Odd}}
  \cup {Old("FADD", <<>>, <<R(2), Single(neg, 0, TRUE, x)>>) : neg \in BOOLEAN, x \in {7, 522240}}
  \cup {New("HADD2", <<>>, <<R(2), Single(neg, x, FALSE, 0)>>) : neg \in BOOLEAN, x \in {0, Half, Three, Forty, Odd}}
  \cup {Old("F2F", <<d, s>>, <<R(2), Neg(R(Z))>>) : d \in {"F16", "F32"}, s \in {"F16", "F32"}}
  \cup {Old("LD", <<>>, <<R(4), At(Only("R", 5) \o Offset_(n))>>) : n \in Signed8}
  \cup {New("LDG", <<>>, <<R(4), In("desc", 8, Wide(6) \o Offset_(n))>>) : n \in Signed8}
  \cup {New("PLOP3", <<"LUT">>, <<Reg("P", 0), Imm(n), Imm(0)>>) : n \in 0..63}

-------------------------------------------------------------------------------
\* The hardware's fields, narrower than they are: 6 bits and a sign for the
\* immediates of the old versions, 8 bits for the others.
\* Their places are small numbers: to a linear function overlaps do not matter.
GuardField(t) == IF t.guard = <<>> THEN 7 ELSE t.guard[1].idx + (IF t.guard[1].neg THEN 8 ELSE 0)
RegField(o) == (IF o.idx # Z THEN o.idx ELSE IF o.label = "R" THEN 255 ELSE 7) + (IF o.pre # <<>> THEN 2 ELSE 0)
Number(o) == IF o.num.neg THEN -o.num.mag ELSE o.num.mag
OffsetOf(parts) == LET nums == SelectSeq(parts, LAMBDA p : p.label = "I") IN IF nums = <<>> THEN 0 ELSE Number(nums[1]) % 256
SumOf(parts, label) == LET regs == SelectSeq(parts, LAMBDA p : p.label = label) IN IF regs = <<>> THEN 0 ELSE IF regs[1].idx = Z THEN 63 ELSE regs[1].idx
TypeField(d) == CASE d \in {"F16", "AND"} -> 1 [] d \in {"F32", "OR"} -> 2 [] d = "F64" -> 3 [] OTHER -> 0

IntField(t, n) ==
  CASE t.op.name \in AddrFuncs -> (n - t.addr - (IF t.legacy THEN 8 ELSE 16)) % 256
    [] t.op.name = "PLOP3" -> (n % 8) + 256 * (n \div 8)
    [] t.legacy /\ ~t.op.wide -> (n % 64) + 3 * ((n \div 64) % 2)
    [] OTHER -> n % 256

\* The new versions keep the sign of a half above it, the old ones beside it.
FloatField(t, f) ==
  LET bits == IF f.hex THEN f.bits ELSE IF t.legacy THEN f.single \div 4096 ELSE HalfBits(f.single)
  IN  bits + (IF f.neg THEN (IF t.legacy THEN 5 ELSE 2^15) ELSE 0)

OperandField(t, o) ==
  CASE o.kind = "reg" -> RegField(o)
    [] o.kind = "set" -> MapThenSumSet(LAMBDA b : 2^b, o.set)
    [] o.kind = "int" -> IntField(t, Number(o))
    [] o.kind = "float" -> FloatField(t, o.num)
    [] o.kind = "addr" -> SumOf(o.parts, "R") + 3 * OffsetOf(o.parts)
    [] o.kind \in {"const", "cx", "desc"} -> o.idx + 2 * SumOf(o.parts, "R") + 3 * SumOf(o.parts, "UR") + 5 * OffsetOf(o.parts)
    [] OTHER -> 0

MCHardware(t) ==
  LET fields == FlattenSeq([i \in 1..Len(t.operands) |->
                  IF t.operands[i].kind = "both" THEN <<t.operands[i].reg, t.operands[i].num>> ELSE <<t.operands[i]>>])
      places == [i \in 1..Len(t.dots) |-> TypeField(t.dots[i]) * i]
  IN  GuardField(t) + FoldLeft(LAMBDA x, y : x + y, 0, places)
      + FoldLeft(LAMBDA x, i : x + i * OperandField(t, fields[i]), 0, [i \in 1..Len(fields) |-> i])

-------------------------------------------------------------------------------
MCInit == Init /\ RInit
MCNext ==
  \/ fed = 0 /\ Next /\ UNCHANGED <<repos, fed>>
  \/ asm = Fresh /\ UpdateText /\ UNCHANGED asm
MCSpec == MCInit /\ [][MCNext]_<<asm, repos, fed>>
===============================================================================
