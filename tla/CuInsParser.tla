----------------------------- MODULE CuInsParser -----------------------------
(***************************************************************************)
(* CuInsParser: an instruction's text as its key, its values and its       *)
(* modifiers, which is all that CuInsAssembler learns the encoding from.   *)
(*                                                                         *)
(* A text is a record: its address, is it of a version up to 6x (legacy),  *)
(* the guard (<<>> or <<[neg, idx]>>), the opcode [name, first, wide] (its *)
(* first letter, does it end in 32I), the words after its dots and the     *)
(* operands, records by kind.  Registers written RZ, PT and so on have the *)
(* index Z.  The splitting of characters into these tokens is left out.    *)
(***************************************************************************)
EXTENDS FloatImme, Sequences, SequencesExt, FiniteSetsExt

CONSTANTS Word,      \* 2^64
          SignBit,   \* 2^19, the sign of an immediate of the old versions
          Listing    \* the texts that are parsed, in order

Kinds == {"reg", "set", "addr", "const", "cx", "desc", "int", "float", "label", "both"}
Labels == {"R", "UR", "P", "UP", "B", "SB", "SR"}
WellFormed(o) == o.kind \in Kinds /\ (o.kind = "reg" => o.label \in Labels)

ASSUME ListingAssumption ==
  /\ Listing \in Seq(ToSet(Listing))
  /\ \A t \in ToSet(Listing) :
       /\ t.operands \in Seq(ToSet(t.operands))
       /\ \A o \in ToSet(t.operands) :
            WellFormed(o) /\ (o.kind = "both" => WellFormed(o.reg) /\ WellFormed(o.num))

Z == -1
Top(label) == CASE label = "R" -> 255 [] label = "UR" -> 63 [] label \in {"P", "UP"} -> 7
IndexOf(label, idx) == IF idx = Z THEN Top(label) ELSE idx

AddrFuncs == {"BRA", "BRX", "BRXU", "CALL", "JMP", "JMX", "JMXU", "RET", "BSSY", "SSY", "CAL", "PRET", "PBK"}
CvtOpcodes == {"I2F", "I2I", "F2I", "F2F", "I2FP", "I2IP", "F2IP", "F2FP", "FRND"}
LUTOpcodes == {"PLOP3", "UPLOP3"}
DTypes == {"S4", "S8", "S16", "S32", "S64", "U4", "U8", "U16", "U32", "U64", "F16", "F32", "F64"}
DTypesExt == DTypes \cup {"S24", "U24", "S16H0", "S16H1", "U16H0", "U16H1"}

\* The opcodes some of whose modifiers mean something else at another place;
\* the later ones are 8x's (7x has no I2IP and F2FP among them).
PosDepModis(name, legacy) ==
  CASE name \in {"I2I", "F2F", "IDP", "VADD", "VMAD", "VSHL", "VSHR", "VSET", "VSETP", "VMNMX", "VABSDIFF", "VABSDIFF4"} -> DTypes
    [] name = "TLD4" -> {"R", "G", "B", "A"}
    [] legacy /\ name \in {"XMAD", "IMAD", "IMAD32I", "IMADSP", "IMUL", "IMUL32I"} -> DTypesExt
    [] legacy /\ name \in {"PSET", "PSETP"} -> {"AND", "OR", "XOR", "NOT"}
    [] ~legacy /\ name \in {"HMMA", "IMMA", "I2IP", "F2FP"} -> DTypes
    [] OTHER -> {}

-----------------------------------------------------------------------------
(* Immediates.                                                             *)

\* parseHexSigned: a number of 64 bits, negated or not, read as signed.
Signed(n) ==
  LET bits == IF n.neg THEN (Word - n.mag) % Word ELSE n.mag
  IN  IF bits < Word \div 2 THEN bits ELSE bits - Word

\* Mutant: the sign of the encoding is taken for a bit of the number.
IntImmePlain(t, n) ==
  [val |-> <<Signed(n)>>, modi |-> IF Signed(n) < 0 THEN <<"NegIntImme">> ELSE <<>>]

\* parseIntImme with splitIntImmeModifier: the encoding's sign is far from its
\* number, so a number whose sign is set has a modifier.
IntImme(t, n) ==
  LET i == Signed(n)
      signed == t.legacy /\ ~t.op.wide /\ (i \div SignBit) % 2 = 1
  IN  CASE i < 0 -> [val |-> <<i>>, modi |-> <<"NegIntImme">>]
        [] i >= 0 /\ signed -> [val |-> <<i - SignBit>>, modi |-> <<"ImplicitNegIntImme">>]
        [] OTHER -> [val |-> <<i>>, modi |-> <<>>]

\* parseFloatImme's precision, "none" where it throws.
Has(t, words) == \E w \in words : w \in ToSet(t.dots)
Precision(t) ==
  CASE t.op.first \in {"H", "F", "D"} -> t.op.first
    [] t.op.name \in {"MUFU", "RRO"} -> IF Has(t, {"64", "RCP64H", "RSQ64H"}) THEN "D" ELSE IF Has(t, {"16", "F16"}) THEN "H" ELSE "F"
    [] OTHER -> "none"

-----------------------------------------------------------------------------
(* Operands: type, values, modifiers and the tags of the values.           *)

PreNames == [c \in {"!", "-", "|", "~"} |-> CASE c = "!" -> "cNOT" [] c = "-" -> "cNEG" [] c = "|" -> "cABS" [] c = "~" -> "cINV"]
Around(o) == [k \in 1..Len(o.pre) |-> PreNames[o.pre[k]]] \o o.post

\* The last part of an address with a label; parts of other kinds are dropped.
PartsOf(parts, label) == SelectSeq(parts, LAMBDA p : p.label = label)
HasPart(parts, label) == PartsOf(parts, label) # <<>>
TheLast(parts, label) == PartsOf(parts, label)[Len(PartsOf(parts, label))]

\* The index of a register, if there is one.
Base(parts, label) == IF HasPart(parts, label) THEN <<IndexOf(label, TheLast(parts, label).idx)>> ELSE <<>>

\* Mutant: an address without a number has no value for it.
AddressBare(t, parts) ==
  [val |-> Base(parts, "R") \o Base(parts, "UR") \o (IF HasPart(parts, "I") THEN IntImme(t, TheLast(parts, "I").num).val ELSE <<>>),
   modi |-> <<>>]

\* parseAddress: the registers there are, and a number, which is 0 by default.
AddressType(parts) == [r |-> HasPart(parts, "R"), ur |-> HasPart(parts, "UR")]
AddressTags(type) ==
  (IF type.r THEN <<"R.Addr">> ELSE <<>>) \o (IF type.ur THEN <<"UR.Addr">> ELSE <<>>) \o <<"Imme.Addr">>
AddressNum(t, parts) ==
  IF HasPart(parts, "I") THEN IntImme(t, TheLast(parts, "I").num) ELSE [val |-> <<0>>, modi |-> <<>>]
Address(t, parts) ==
  LET modi(label) == IF HasPart(parts, label) THEN [k \in 1..Len(TheLast(parts, label).post) |-> label \o "." \o TheLast(parts, label).post[k]] ELSE <<>>
  IN  [val |-> Base(parts, "R") \o Base(parts, "UR") \o AddressNum(t, parts).val,
       modi |-> modi("R") \o modi("UR") \o AddressNum(t, parts).modi]

\* parseOperand.  What surrounds an address on its own is dropped.
OperandType(o) ==
  CASE o.kind = "reg" -> <<o.label>>
    [] o.kind = "set" -> <<"SBSET">>
    [] o.kind = "addr" -> <<"A", AddressType(o.parts)>>
    [] o.kind = "const" -> <<"c", AddressType(o.parts)>>
    [] o.kind = "cx" -> <<"cx", AddressType(o.parts)>>
    [] o.kind = "desc" -> <<"d", AddressType(o.parts)>>
    [] o.kind = "int" -> <<"II">>
    [] o.kind = "float" -> <<"FI">>
    [] OTHER -> <<"L">>

Tags(o) ==
  CASE o.kind = "addr" -> AddressTags(AddressType(o.parts))
    [] o.kind = "const" -> <<"Imme.CBank">> \o AddressTags(AddressType(o.parts))
    [] o.kind = "cx" -> <<"UR.CBank">> \o AddressTags(AddressType(o.parts))
    [] o.kind = "desc" -> <<"UR.Desc">> \o AddressTags(AddressType(o.parts))
    [] o.kind \in {"label", "both"} -> <<>>
    [] OTHER -> OperandType(o)

Values(t, o) ==
  CASE o.kind = "reg" -> <<IndexOf(o.label, o.idx)>>
    [] o.kind = "set" -> <<MapThenSumSet(LAMBDA b : 2^b, o.set)>>
    [] o.kind = "addr" -> Address(t, o.parts).val
    [] o.kind = "const" -> <<Signed(o.bank)>> \o Address(t, o.parts).val
    [] o.kind \in {"cx", "desc"} -> <<IndexOf("UR", o.idx)>> \o Address(t, o.parts).val
    [] o.kind = "int" -> IntImme(t, o.num).val
    [] o.kind = "float" -> <<FloatBits(o.num, Precision(t), t.op.wide, t.legacy)>>
    [] OTHER -> <<>>

OperandModi(t, o) ==
  CASE o.kind \in {"reg", "set"} -> Around(o)
    [] o.kind = "addr" -> Address(t, o.parts).modi
    [] o.kind \in {"const", "cx", "desc"} -> Address(t, o.parts).modi \o Around(o)
    [] o.kind = "int" -> IntImme(t, o.num).modi \o o.post
    [] o.kind = "float" -> Modifiers(o.num, t.legacy) \o o.post
    [] OTHER -> <<o.text>>

\* preprocessOperands: the "R2 -0x10" of a jump is two operands, and of anything
\* else one, a label.  (No text has two of them.)
Operands(t) ==
  LET ops == t.operands
      at == CHOOSE i \in 1..Len(ops) : ops[i].kind = "both"
  IN  IF t.op.name \in AddrFuncs /\ \E i \in 1..Len(ops) : ops[i].kind = "both"
        THEN SubSeq(ops, 1, at - 1) \o <<ops[at].reg, ops[at].num>> \o SubSeq(ops, at + 1, Len(ops))
        ELSE ops

-----------------------------------------------------------------------------
(* parse.                                                                  *)

Key(t) == <<<<t.op.name>>>> \o [i \in 1..Len(Operands(t)) |-> OperandType(Operands(t)[i])]

\* parsePred.
GuardVal(t) == IF t.guard = <<>> THEN 7 ELSE IndexOf("P", t.guard[1].idx) + (IF t.guard[1].neg THEN 8 ELSE 0)

Jumps(t) == t.op.name \in AddrFuncs /\ Last(Key(t)) = <<"II">> /\ ~Has(t, {"ABS"})
Distance(t, val) == val - t.addr - (IF t.legacy THEN 8 ELSE 16)

\* specialTreatment of the values: the table of a PLOP3 has a gap behind its
\* three low bits, and a jump is relative to the next instruction.
Vals(t) ==
  LET vals == <<GuardVal(t)>> \o FlattenSeq([i \in 1..Len(Operands(t)) |-> Values(t, Operands(t)[i])])
      n == Len(vals)
  IN  CASE t.op.name \in LUTOpcodes -> [vals EXCEPT ![n - 1] = (@ % 8) + (256 * ((@ \div 8) % 32))]
        [] Jumps(t) -> [vals EXCEPT ![n] = Distance(t, @)]
        [] OTHER -> vals

\* The opcode and its modifiers, those that depend on their place counted.
OpModi(t) ==
  LET posDep == PosDepModis(t.op.name, t.legacy)
      counter(k) == Cardinality({j \in 1..(k - 1) : t.dots[j] \in posDep})
  IN  <<<<0, t.op.name>>>>
      \o [k \in 1..Len(t.dots) |-> IF t.dots[k] \in posDep THEN <<0, t.dots[k], counter(k)>> ELSE <<0, t.dots[k]>>]

\* Those of the operands with their place, and those of specialTreatment.
Modi(t) ==
  OpModi(t)
  \o FlattenSeq([i \in 1..Len(Operands(t)) |-> LET modi == OperandModi(t, Operands(t)[i])
                                               IN  [k \in 1..Len(modi) |-> <<i, modi[k]>>]])
  \o (IF t.op.name \in CvtOpcodes /\ Has(t, {"S64", "U64", "F64"}) THEN <<<<0, "CVT64">>>> ELSE <<>>)
  \o (IF Jumps(t) /\ Last(Vals(t)) < 0 THEN <<<<0, "NegAddrOffset">>>> ELSE <<>>)

\* The texts that parse does not throw on.
Fits(n) == n.mag < Word
Numbers(o) ==
  CASE o.kind = "int" -> {o.num}
    [] o.kind \in {"addr", "const", "cx", "desc"} -> {p.num : p \in ToSet(PartsOf(o.parts, "I"))}
    [] OTHER -> {}
Parses(t) ==
  /\ \A o \in ToSet(Operands(t)) : /\ \A n \in Numbers(o) : Fits(n)
                                   /\ o.kind = "const" => Fits(o.bank)
                                   /\ o.kind = "float" => Precision(t) # "none"
  /\ t.op.name \in LUTOpcodes => Operands(t) # <<>>

-----------------------------------------------------------------------------
\* Two texts have the same operands, and every value has its tag.
SameShape(t, u) ==
  /\ Len(Operands(t)) = Len(Operands(u))
  /\ \A i \in 1..Len(Operands(t)) :
       /\ Tags(Operands(t)[i]) = Tags(Operands(u)[i])
       /\ Len(Values(t, Operands(t)[i])) = Len(Tags(Operands(t)[i]))
       /\ Len(Values(u, Operands(u)[i])) = Len(Tags(Operands(u)[i]))
==============================================================================
