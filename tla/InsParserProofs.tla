--------------------------- MODULE InsParserProofs ----------------------------
(***************************************************************************)
(* The texts of one key have the same shape, for every listing, and every  *)
(* magnitude becomes the half it is nearest to.                            *)
(***************************************************************************)
EXTENDS ParsedRepos, TLAPS

\* An immediate is one value.
LEMMA OneNumber == ASSUME NEW t, NEW n PROVE \E v : IntImme(t, n).val = <<v>>
<1> DEFINE i == Signed(n)
<1>1. IntImme(t, n).val = <<i>> \/ IntImme(t, n).val = <<i - SignBit>>
  <2>1. CASE i < 0
    BY <2>1 DEF IntImme
  <2>2. CASE ~(i < 0)
    BY <2>2 DEF IntImme
  <2> QED  BY <2>1, <2>2
<1> QED  BY <1>1

\* The number of an address is one value, whether it is written or not.
LEMMA OneOffset == ASSUME NEW t, NEW parts PROVE \E v : AddressNum(t, parts).val = <<v>>
<1>1. CASE HasPart(parts, "I")
  BY <1>1, OneNumber DEF AddressNum
<1>2. CASE ~HasPart(parts, "I")
  BY <1>2 DEF AddressNum
<1> QED  BY <1>1, <1>2

\* Three sequences of known lengths.
LEMMA Concat3 ==
  ASSUME NEW S, NEW p \in Seq(S), NEW q \in Seq(S), NEW r \in Seq(S)
  PROVE  /\ p \o q \o r \in Seq(S)
         /\ Len(p \o q \o r) = Len(p) + Len(q) + Len(r)
OBVIOUS

\* One value, or none, is a sequence of any set it is in.
LEMMA Single == ASSUME NEW S, NEW v \in S PROVE <<v>> \in Seq(S) /\ Len(<<v>>) = 1
OBVIOUS

\* An address has a value for each of its tags.
LEMMA AddressShape ==
  ASSUME NEW t, NEW parts
  PROVE  \E S, T : /\ Address(t, parts).val \in Seq(S)
                   /\ AddressTags(AddressType(parts)) \in Seq(T)
                   /\ Len(Address(t, parts).val) = Len(AddressTags(AddressType(parts)))
<1> DEFINE index(label) == IndexOf(label, TheLast(parts, label).idx)
           type == AddressType(parts)
           tagR == IF type.r THEN <<"R.Addr">> ELSE <<>>
           tagUR == IF type.ur THEN <<"UR.Addr">> ELSE <<>>
<1>1. PICK v : AddressNum(t, parts).val = <<v>>
  BY OneOffset
<1> DEFINE S == {v, index("R"), index("UR")}
           T == {"R.Addr", "UR.Addr", "Imme.Addr"}
<1>2. /\ Base(parts, "R") \in Seq(S) /\ tagR \in Seq(T)
      /\ Len(Base(parts, "R")) = Len(tagR)
  <2>1. CASE HasPart(parts, "R")
    BY <2>1 DEF Base, AddressType
  <2>2. CASE ~HasPart(parts, "R")
    BY <2>2 DEF Base, AddressType
  <2> QED  BY <2>1, <2>2
<1>3. /\ Base(parts, "UR") \in Seq(S) /\ tagUR \in Seq(T)
      /\ Len(Base(parts, "UR")) = Len(tagUR)
  <2>1. CASE HasPart(parts, "UR")
    BY <2>1 DEF Base, AddressType
  <2>2. CASE ~HasPart(parts, "UR")
    BY <2>2 DEF Base, AddressType
  <2> QED  BY <2>1, <2>2
<1>4. /\ <<v>> \in Seq(S) /\ <<"Imme.Addr">> \in Seq(T)
      /\ Len(<<v>>) = Len(<<"Imme.Addr">>)
  OBVIOUS
<1>5. Address(t, parts).val = Base(parts, "R") \o Base(parts, "UR") \o <<v>>
  BY <1>1 DEF Address
<1>6. AddressTags(type) = tagR \o tagUR \o <<"Imme.Addr">>
  BY DEF AddressTags
<1> HIDE DEF S, T, tagR, tagUR, type
<1>7. /\ Address(t, parts).val \in Seq(S)
      /\ Len(Address(t, parts).val) = Len(Base(parts, "R")) + Len(Base(parts, "UR")) + Len(<<v>>)
  BY <1>2, <1>3, <1>4, <1>5, Concat3
<1>8. /\ AddressTags(type) \in Seq(T)
      /\ Len(AddressTags(type)) = Len(tagR) + Len(tagUR) + Len(<<"Imme.Addr">>)
  BY <1>2, <1>3, <1>4, <1>6, Concat3
<1> QED  BY <1>2, <1>3, <1>4, <1>7, <1>8 DEF type

\* A value in front of an address.
LEMMA InFront ==
  ASSUME NEW S, NEW p \in Seq(S), NEW v PROVE Len(<<v>> \o p) = Len(p) + 1
<1> DEFINE T == S \cup {v}
<1>1. p \in Seq(T) /\ <<v>> \in Seq(T)
  OBVIOUS
<1> HIDE DEF T
<1> QED  BY <1>1

\* An operand has a value for each of its tags.
LEMMA ValueForTag ==
  ASSUME NEW t, NEW o, WellFormed(o) PROVE Len(Values(t, o)) = Len(Tags(o))
<1>1. CASE o.kind = "reg"
  BY <1>1 DEF Values, Tags, OperandType
<1>2. CASE o.kind = "set"
  BY <1>2 DEF Values, Tags, OperandType
<1>3. CASE o.kind = "addr"
  BY <1>3, AddressShape DEF Values, Tags
<1>4. CASE o.kind \in {"const", "cx", "desc"}
  <2>1. PICK S, T : /\ Address(t, o.parts).val \in Seq(S)
                    /\ AddressTags(AddressType(o.parts)) \in Seq(T)
                    /\ Len(Address(t, o.parts).val) = Len(AddressTags(AddressType(o.parts)))
    BY AddressShape
  <2>2. \E v : Values(t, o) = <<v>> \o Address(t, o.parts).val
    BY <1>4 DEF Values
  <2>3. \E v : Tags(o) = <<v>> \o AddressTags(AddressType(o.parts))
    BY <1>4 DEF Tags
  <2> QED  BY <2>1, <2>2, <2>3, InFront
<1>5. CASE o.kind = "int"
  <2>1. PICK v : IntImme(t, o.num).val = <<v>>
    BY OneNumber
  <2>2. Values(t, o) = IntImme(t, o.num).val
    BY <1>5 DEF Values
  <2>3. Tags(o) = <<"II">>
    BY <1>5 DEF Tags, OperandType
  <2> QED  BY <2>1, <2>2, <2>3
<1>6. CASE o.kind = "float"
  BY <1>6 DEF Values, Tags, OperandType
<1>7. CASE o.kind \in {"label", "both"}
  BY <1>7 DEF Values, Tags
<1> QED  BY <1>1, <1>2, <1>3, <1>4, <1>5, <1>6, <1>7 DEF WellFormed, Kinds

\* The first word of a type names the kind, but for labels, and operands with
\* the same first word that have an address have its type for their second.
LEMMA TypeTellsTags ==
  ASSUME NEW o, NEW p, WellFormed(o), WellFormed(p), OperandType(o) = OperandType(p)
  PROVE  Tags(o) = Tags(p)
<1> DEFINE first(x) == OperandType(x)[1]
<1>1. ASSUME NEW x, WellFormed(x)
      PROVE  /\ x.kind = "reg" => OperandType(x) = <<x.label>> /\ x.label \in Labels
             /\ x.kind = "set" => OperandType(x) = <<"SBSET">>
             /\ x.kind = "addr" => OperandType(x) = <<"A", AddressType(x.parts)>>
             /\ x.kind = "const" => OperandType(x) = <<"c", AddressType(x.parts)>>
             /\ x.kind = "cx" => OperandType(x) = <<"cx", AddressType(x.parts)>>
             /\ x.kind = "desc" => OperandType(x) = <<"d", AddressType(x.parts)>>
             /\ x.kind = "int" => OperandType(x) = <<"II">>
             /\ x.kind = "float" => OperandType(x) = <<"FI">>
             /\ x.kind \in {"label", "both"} => OperandType(x) = <<"L">>
  BY <1>1 DEF OperandType, WellFormed
<1>2. ASSUME NEW x, WellFormed(x)
      PROVE  /\ x.kind = "reg" <=> first(x) \in Labels
             /\ x.kind = "set" <=> first(x) = "SBSET"
             /\ x.kind = "addr" <=> first(x) = "A"
             /\ x.kind = "const" <=> first(x) = "c"
             /\ x.kind = "cx" <=> first(x) = "cx"
             /\ x.kind = "desc" <=> first(x) = "d"
             /\ x.kind = "int" <=> first(x) = "II"
             /\ x.kind = "float" <=> first(x) = "FI"
             /\ x.kind \in {"label", "both"} <=> first(x) = "L"
  <2>1. x.kind \in Kinds
    BY <1>2 DEF WellFormed
  <2> QED  BY <1>1, <1>2, <2>1 DEF Kinds, Labels
<1>3. first(o) = first(p)
  OBVIOUS
<1> HIDE DEF first
<1>4. CASE o.kind \in {"reg", "set", "int", "float"}
  <2>1. p.kind \in {"reg", "set", "int", "float"}
    BY <1>2, <1>3, <1>4
  <2> QED  BY <1>4, <2>1 DEF Tags
<1>5. CASE o.kind \in {"addr", "const", "cx", "desc"}
  <2>1. p.kind = o.kind
    BY <1>2, <1>3, <1>5
  <2>2. AddressType(o.parts) = AddressType(p.parts)
    <3>1. AddressType(o.parts) = OperandType(o)[2] /\ AddressType(p.parts) = OperandType(p)[2]
      BY <1>1, <1>5, <2>1
    <3> QED  BY <3>1
  <2> QED  BY <1>5, <2>1, <2>2 DEF Tags
<1>6. CASE o.kind \in {"label", "both"}
  <2>1. p.kind \in {"label", "both"}
    BY <1>2, <1>3, <1>6
  <2> QED  BY <1>6, <2>1 DEF Tags
<1> QED  BY <1>4, <1>5, <1>6 DEF WellFormed, Kinds

\* What preprocessOperands makes of a text is a sequence of operands.
LEMMA OperandsAreFormed ==
  ASSUME NEW t \in ToSet(Listing)
  PROVE  /\ Operands(t) \in Seq({o \in UNION {{x, x.reg, x.num} : x \in ToSet(t.operands)} : WellFormed(o)})
<1> DEFINE ops == t.operands
           All == UNION {{x, x.reg, x.num} : x \in ToSet(ops)}
           Good == {o \in All : WellFormed(o)}
           at == CHOOSE i \in 1..Len(ops) : ops[i].kind = "both"
<1>1. /\ ops \in Seq(ToSet(ops))
      /\ \A o \in ToSet(ops) : WellFormed(o) /\ (o.kind = "both" => WellFormed(o.reg) /\ WellFormed(o.num))
  BY ListingAssumption
<1>2. ToSet(ops) \subseteq Good
  BY <1>1
<1>3. ops \in Seq(Good)
  BY <1>1, <1>2
<1>4. CASE t.op.name \in AddrFuncs /\ \E i \in 1..Len(ops) : ops[i].kind = "both"
  <2>1. at \in 1..Len(ops) /\ ops[at].kind = "both"
    BY <1>4
  <2> HIDE DEF at
  <2>2. ops[at] \in ToSet(ops)
    BY <1>1, <2>1 DEF ToSet
  <2>3. ops[at].reg \in Good /\ ops[at].num \in Good
    <3>1. WellFormed(ops[at].reg) /\ WellFormed(ops[at].num)
      BY <1>1, <2>1, <2>2
    <3>2. {ops[at], ops[at].reg, ops[at].num} \subseteq All
      BY <2>2
    <3> QED  BY <3>1, <3>2
  <2> HIDE DEF Good
  <2>4. SubSeq(ops, 1, at - 1) \in Seq(Good) /\ SubSeq(ops, at + 1, Len(ops)) \in Seq(Good)
    BY <1>3, <2>1
  <2>5. <<ops[at].reg, ops[at].num>> \in Seq(Good)
    BY <2>3
  <2>6. Operands(t) = SubSeq(ops, 1, at - 1) \o <<ops[at].reg, ops[at].num>> \o SubSeq(ops, at + 1, Len(ops))
    BY <1>4, Zenon DEF Operands, at
  <2>7. Operands(t) \in Seq(Good)
    BY <2>4, <2>5, <2>6, Concat3
  <2> QED  BY <2>7 DEF Good
<1>5. CASE ~(t.op.name \in AddrFuncs /\ \E i \in 1..Len(ops) : ops[i].kind = "both")
  BY <1>3, <1>5 DEF Operands
<1> QED  BY <1>4, <1>5

\* The types of a text's operands can be read off its key.
LEMMA KeyTellsTypes ==
  ASSUME NEW t \in ToSet(Listing), NEW u \in ToSet(Listing), Key(t) = Key(u)
  PROVE  /\ Len(Operands(t)) = Len(Operands(u))
         /\ \A i \in 1..Len(Operands(t)) : OperandType(Operands(t)[i]) = OperandType(Operands(u)[i])
<1> DEFINE types(x) == [i \in 1..Len(Operands(x)) |-> OperandType(Operands(x)[i])]
<1>1. ASSUME NEW x \in ToSet(Listing)
      PROVE  /\ Len(Operands(x)) \in Nat
             /\ Len(Key(x)) = Len(Operands(x)) + 1
             /\ \A i \in 1..Len(Operands(x)) : Key(x)[i + 1] = OperandType(Operands(x)[i])
  <2>1. Len(Operands(x)) \in Nat
    BY OperandsAreFormed
  <2> DEFINE S == {OperandType(Operands(x)[i]) : i \in 1..Len(Operands(x))} \cup {<<x.op.name>>}
  <2>2. types(x) \in Seq(S) /\ Len(types(x)) = Len(Operands(x))
    BY <2>1
  <2>3. <<<<x.op.name>>>> \in Seq(S) /\ Len(<<<<x.op.name>>>>) = 1
    OBVIOUS
  <2>4. Key(x) = <<<<x.op.name>>>> \o types(x)
    BY DEF Key
  <2>5. \A i \in 1..Len(Operands(x)) : types(x)[i] = OperandType(Operands(x)[i])
    OBVIOUS
  <2> HIDE DEF S, types
  <2>6. Len(Key(x)) = 1 + Len(Operands(x))
    BY <2>2, <2>3, <2>4
  <2>7. \A i \in 1..Len(Operands(x)) : Key(x)[i + 1] = types(x)[i]
    BY <2>1, <2>2, <2>3, <2>4
  <2> QED  BY <2>1, <2>5, <2>6, <2>7
<1>2. Len(Operands(t)) = Len(Operands(u))
  BY <1>1
<1> QED  BY <1>1, <1>2

\* The key tells the shape.
LEMMA KeyTellsShape ==
  ASSUME NEW t \in ToSet(Listing), NEW u \in ToSet(Listing), Key(t) = Key(u)
  PROVE  SameShape(t, u)
<1>1. /\ Len(Operands(t)) = Len(Operands(u))
      /\ \A i \in 1..Len(Operands(t)) : OperandType(Operands(t)[i]) = OperandType(Operands(u)[i])
  BY KeyTellsTypes
<1>2. ASSUME NEW x \in ToSet(Listing), NEW i \in 1..Len(Operands(x)) PROVE WellFormed(Operands(x)[i])
  <2> DEFINE Good == {o \in UNION {{y, y.reg, y.num} : y \in ToSet(x.operands)} : WellFormed(o)}
  <2>1. Operands(x) \in Seq(Good)
    BY <1>2, OperandsAreFormed
  <2>2. Operands(x)[i] \in Good
    <3> HIDE DEF Good
    <3> QED  BY <1>2, <2>1
  <2> QED  BY <2>2
<1>3. ASSUME NEW i \in 1..Len(Operands(t))
      PROVE  /\ Tags(Operands(t)[i]) = Tags(Operands(u)[i])
             /\ Len(Values(t, Operands(t)[i])) = Len(Tags(Operands(t)[i]))
             /\ Len(Values(u, Operands(u)[i])) = Len(Tags(Operands(u)[i]))
  <2>1. WellFormed(Operands(t)[i]) /\ WellFormed(Operands(u)[i])
    BY <1>1, <1>2, <1>3
  <2> QED  BY <1>1, <1>3, <2>1, TypeTellsTags, ValueForTag
<1> QED  BY <1>1, <1>3 DEF SameShape

\* Where the repositories are in the listing.
LEMMA FedTyped == ReadSpec => [](fed \in 0..Len(Listing))
<1> DEFINE Typed == fed \in 0..Len(Listing)
<1>1. Len(Listing) \in Nat
  BY ListingAssumption
<1>2. RInit => Typed
  BY <1>1 DEF RInit
<1>3. Typed /\ [UpdateText]_<<repos, fed>> => Typed'
  BY <1>1 DEF UpdateText
<1>4. ReadSpec => []Typed
  <2> HIDE DEF Typed
  <2> QED  BY <1>2, <1>3, PTL DEF ReadSpec
<1> QED  BY <1>4

\* For every listing, the text that is read next has the shape of all texts of
\* its key before: push never mixes vectors of different columns.
THEOREM ShapesAgree == ReadSpec => []KeyFixesShape
<1>1. fed \in 0..Len(Listing) => KeyFixesShape
  <2>1. SUFFICES ASSUME fed \in 0..Len(Listing), fed < Len(Listing), NEW k \in 1..fed,
                        Key(Listing[k]) = Key(Listing[fed + 1])
                 PROVE  SameShape(Listing[k], Listing[fed + 1])
    BY DEF KeyFixesShape
  <2>2. Listing[k] \in ToSet(Listing) /\ Listing[fed + 1] \in ToSet(Listing)
    <3>1. k \in 1..Len(Listing) /\ fed + 1 \in 1..Len(Listing)
      BY <2>1, ListingAssumption
    <3> QED  BY <3>1, ListingAssumption
  <2> QED  BY <2>1, <2>2, KeyTellsShape
<1> QED  BY <1>1, FedTyped, PTL
-----------------------------------------------------------------------------
\* A number by its quotient and its rest.
LEMMA Quotient ==
  ASSUME NEW d \in Nat, d > 0, NEW q \in Nat, NEW r \in Nat, r < d
  PROVE  (q * d + r) \div d = q /\ (q * d + r) % d = r
<1>1. q * d \in Nat /\ q * d + r \in Nat
  OBVIOUS
<1> QED
  BY <1>1, Z3

\* Rounding h quotients and a half, and one less and more than that.
LEMMA NearestHalf ==
  ASSUME NEW h \in Nat, NEW p \in Nat, p > 1
  PROVE  /\ Nearest(h * (2 * p) + p - 1, 2 * p) = h
         /\ Nearest(h * (2 * p) + p, 2 * p) = h + (h % 2)
         /\ Nearest(h * (2 * p) + p + 1, 2 * p) = h + 1
<1> DEFINE d == 2 * p
<1>1. d \in Nat /\ d > 0 /\ p - 1 \in Nat /\ p + 1 \in Nat /\ p - 1 < d /\ p < d /\ p + 1 < d
  OBVIOUS
<1>2. \A r \in Nat : r < d => (h * d + r) \div d = h /\ (h * d + r) % d = r
  BY <1>1, Quotient
<1>3. h * d \in Nat
  BY <1>1
<1>4. h * d + p - 1 = h * d + (p - 1) /\ h * d + p + 1 = h * d + (p + 1)
  BY <1>3
<1>5. (h * d + p - 1) \div d = h /\ (h * d + p - 1) % d = p - 1
  BY <1>1, <1>2, <1>4
<1>6. (h * d + p) \div d = h /\ (h * d + p) % d = p
  BY <1>1, <1>2
<1>7. (h * d + p + 1) \div d = h /\ (h * d + p + 1) % d = p + 1
  BY <1>1, <1>2, <1>4
<1>8. 2 * (p - 1) < d /\ 2 * p = d /\ 2 * (p + 1) > d
  OBVIOUS
<1>9. (h % 2 = 1 /\ h + 1 = h + (h % 2)) \/ (h % 2 # 1 /\ h + 0 = h + (h % 2))
  OBVIOUS
<1> HIDE DEF d
<1>a. Nearest(h * d + p - 1, d) = h
  BY <1>1, <1>5, <1>8 DEF Nearest
<1>b. Nearest(h * d + p, d) = h + (h % 2)
  BY <1>1, <1>6, <1>8, <1>9 DEF Nearest
<1>c. Nearest(h * d + p + 1, d) = h + 1
  BY <1>1, <1>7, <1>8 DEF Nearest
<1> QED
  BY <1>a, <1>b, <1>c DEF d

\* The steps of the two formats, in each other.
LEMMA Powers ==
  /\ Exp32 \in Nat /\ Exp32 > 1 /\ Inf32 = 255 * Exp32 /\ HalfInf = 31 * HalfExp
  /\ 2^12 \in Nat /\ 2^12 > 1 /\ 2^13 = 2 * 2^12 /\ HalfExp * (2 * 2^12) = Exp32
  BY SMT DEF Exp32, Inf32, HalfExp, HalfInf

\* A binary32 by its exponent and mantissa.
LEMMA SingleIs ==
  ASSUME NEW n \in Nat, n < 255, NEW k \in Nat, k < Exp32
  PROVE  /\ n * Exp32 + k \in Nat /\ (n * Exp32 + k) \div Exp32 = n /\ (n * Exp32 + k) % Exp32 = k
         /\ ~(n * Exp32 + k > Inf32) /\ n * Exp32 + k # Inf32
<1>1. \A d \in Nat : k < d /\ d > 1 => n * d + k \in Nat /\ n * d + k < 255 * d
  <2>1. ASSUME NEW d \in Nat, k < d PROVE n * d + k \in Nat /\ n * d + k < 255 * d
    <3>1. \A m \in Nat : m <= 254 => m * d <= 254 * d
      BY SMT
    <3>2. n * d <= 254 * d /\ n * d \in Nat
      BY <3>1, SMT
    <3>3. 254 * d + d = 255 * d
      BY SMT
    <3> QED
      BY <2>1, <3>2, <3>3, SMT
  <2> QED
    BY <2>1
<1>2. n * Exp32 + k \in Nat /\ n * Exp32 + k < Inf32 /\ Inf32 \in Nat
  BY <1>1, Powers
<1>3. (n * Exp32 + k) \div Exp32 = n /\ (n * Exp32 + k) % Exp32 = k
  BY Quotient, Powers
<1> QED
  BY <1>2, <1>3

\* What a binary32 of a half's range is rounded to, by its exponent e and mantissa k.
LEMMA HalfBitsIs ==
  ASSUME NEW e \in Int, -11 < e, e < 31, NEW k \in Nat, k < Exp32
  PROVE  HalfBits((e + 112) * Exp32 + k)
           = IF e < 1 THEN Nearest(k + Exp32, 2^(14 - e)) ELSE e * HalfExp + Nearest(k, 2^13)
<1>1. e + 112 \in Nat /\ e + 112 < 255 /\ (e + 112) - 112 = e
  OBVIOUS
<1> DEFINE s == (e + 112) * Exp32 + k
<1>2. s \div Exp32 = e + 112 /\ s % Exp32 = k /\ ~(s > Inf32) /\ s # Inf32
  BY <1>1, SingleIs
<1>3. (s \div Exp32) - 112 = e
  BY <1>1, <1>2
<1>4. ~(e < -10) /\ (e < 1 => e \in -10..0) /\ (~(e < 1) => e \notin -10..0 /\ e \in 1..30)
  OBVIOUS
<1> HIDE DEF s
<1>5. HalfBits(s) = IF e < 1 THEN Nearest(k + Exp32, 2^(14 - e)) ELSE e * HalfExp + Nearest(k, 2^13)
  BY <1>2, <1>3, <1>4 DEF HalfBits
<1> QED
  BY <1>5 DEF s

\* From the smallest normal half on.
LEMMA NormalHalf ==
  ASSUME NEW h \in Nat, HalfExp <= h, h < HalfInf
  PROVE  /\ HalfBits(Middle(h) - 1) = h
         /\ HalfBits(Middle(h)) = h + (h % 2)
         /\ HalfBits(Middle(h) + 1) = h + 1
<1> DEFINE e == h \div HalfExp
           m == h % HalfExp
           p == 2^12
           x == (e + 112) * Exp32
           k == m * (2 * p) + p
<1>1. e \in Int /\ -11 < e /\ ~(e < 1) /\ e < 31 /\ m \in Nat /\ m + 1 <= HalfExp /\ h = e * HalfExp + m /\ m % 2 = h % 2
  BY SMT DEF HalfExp, HalfInf
<1>2. p \in Nat /\ p > 1 /\ 2^13 = 2 * p /\ HalfExp * (2 * p) = Exp32 /\ Exp32 \in Nat /\ HalfExp \in Nat
  BY Powers, SMT DEF HalfExp
<1> HIDE DEF e, m, p
<1>3. (2 * m + 1) * p = k
  BY <1>1, <1>2, Z3
<1>4. Middle(h) = x + k
  <2>1. ~(h < HalfExp)
    BY <1>1, <1>2, SMT
  <2> QED
    BY <1>3, <2>1 DEF Middle, e, m, p
<1>5. k \in Nat /\ k - 1 \in Nat /\ k + 1 \in Nat /\ k < Exp32 /\ k - 1 < Exp32 /\ k + 1 < Exp32
  <2>1. \A a, b, d \in Nat : a + 1 <= b => a * d + d <= b * d
    BY Z3
  <2>2. m * (2 * p) + 2 * p <= Exp32 /\ m * (2 * p) \in Nat
    BY <1>1, <1>2, <2>1
  <2> QED
    BY <1>2, <2>2
<1>6. Nearest(k - 1, 2 * p) = m /\ Nearest(k, 2 * p) = m + (m % 2) /\ Nearest(k + 1, 2 * p) = m + 1
  <2>1. m \in Nat /\ p \in Nat /\ p > 1
    BY <1>1, <1>2
  <2>2. ASSUME NEW a \in Nat, NEW b \in Nat, b > 1
        PROVE  /\ Nearest(a * (2 * b) + b - 1, 2 * b) = a
               /\ Nearest(a * (2 * b) + b, 2 * b) = a + (a % 2)
               /\ Nearest(a * (2 * b) + b + 1, 2 * b) = a + 1
    BY <2>2, NearestHalf
  <2>3. Nearest(k - 1, 2 * p) = m
    BY <2>1, <2>2
  <2>4. Nearest(k, 2 * p) = m + (m % 2)
    BY <2>1, <2>2
  <2>5. Nearest(k + 1, 2 * p) = m + 1
    BY <2>1, <2>2
  <2> QED
    BY <2>3, <2>4, <2>5
<1> HIDE DEF k
<1>7. \A j \in Nat : j < Exp32 => HalfBits(x + j) = e * HalfExp + Nearest(j, 2 * p)
  BY <1>1, <1>2, HalfBitsIs
<1>8. x \in Nat /\ Middle(h) - 1 = x + (k - 1) /\ Middle(h) + 1 = x + (k + 1)
  BY <1>1, <1>2, <1>4, <1>5
<1> HIDE DEF x
<1>9. /\ HalfBits(Middle(h) - 1) = e * HalfExp + m
      /\ HalfBits(Middle(h)) = e * HalfExp + (m + (m % 2))
      /\ HalfBits(Middle(h) + 1) = e * HalfExp + (m + 1)
  BY <1>4, <1>5, <1>6, <1>7, <1>8
<1> QED
  BY <1>1, <1>2, <1>9

\* The powers that the middles have.
LEMMA PowersOfTwo ==
  /\ 2^0 = 1 /\ 2^1 = 2 /\ 2^2 = 4 /\ 2^3 = 8 /\ 2^4 = 16
  /\ 2^5 = 32 /\ 2^6 = 64 /\ 2^7 = 128 /\ 2^8 = 256 /\ 2^9 = 512
  /\ 2^10 = 1024 /\ 2^11 = 2048 /\ 2^12 = 4096 /\ 2^13 = 8192 /\ 2^14 = 16384
  /\ 2^15 = 32768 /\ 2^16 = 65536 /\ 2^17 = 131072 /\ 2^18 = 262144 /\ 2^19 = 524288
  /\ 2^20 = 1048576 /\ 2^21 = 2097152 /\ 2^22 = 4194304 /\ 2^23 = 8388608 /\ 2^24 = 16777216
BY SMT

\* The exponent n of a middle below the smallest normal half, and the step there.
LEMMA SmallPowers ==
  ASSUME NEW n \in 0..10
  PROVE  /\ 2^n \in Nat /\ 2^(23 - n) \in Nat /\ 2^(n + 1) = 2 * 2^n
         /\ 2^(24 - n) = 2 * 2^(23 - n) /\ 2^n * 2^(23 - n) = Exp32 /\ 2^(23 - n) > 1
         /\ (n = 0 /\ 2^n = 1) \/ 2^n % 2 = 0
<1>e. Exp32 = 8388608
  BY SMT DEF Exp32
<1>0. CASE n = 0  BY <1>0, <1>e, PowersOfTwo, SMT
<1>1. CASE n = 1  BY <1>1, <1>e, PowersOfTwo, SMT
<1>2. CASE n = 2  BY <1>2, <1>e, PowersOfTwo, SMT
<1>3. CASE n = 3  BY <1>3, <1>e, PowersOfTwo, SMT
<1>4. CASE n = 4  BY <1>4, <1>e, PowersOfTwo, SMT
<1>5. CASE n = 5  BY <1>5, <1>e, PowersOfTwo, SMT
<1>6. CASE n = 6  BY <1>6, <1>e, PowersOfTwo, SMT
<1>7. CASE n = 7  BY <1>7, <1>e, PowersOfTwo, SMT
<1>8. CASE n = 8  BY <1>8, <1>e, PowersOfTwo, SMT
<1>9. CASE n = 9  BY <1>9, <1>e, PowersOfTwo, SMT
<1>10. CASE n = 10  BY <1>10, <1>e, PowersOfTwo, SMT
<1> QED
  BY <1>0, <1>1, <1>2, <1>3, <1>4, <1>5, <1>6, <1>7, <1>8, <1>9, <1>10, SMT

\* The smaller ones, whose middles are odd multiples of 2^-25: n is the
\* exponent of the multiple, w and p are the powers of two of it and of 23 - n.
LEMMA SmallHalf ==
  ASSUME NEW h \in Nat, NEW n \in Nat, n < 11, NEW w \in Nat, NEW p \in Nat,
         2^(24 - n) = 2 * p, w * p = Exp32, p > 1,
         w <= 2 * h + 1, 2 * h + 1 < 2 * w, (n = 0 /\ w = 1) \/ w % 2 = 0,
         Middle(h) = (n + 102) * Exp32 + ((2 * h + 1) - w) * p
  PROVE  /\ HalfBits(Middle(h) - 1) = h
         /\ HalfBits(Middle(h)) = h + (h % 2)
         /\ HalfBits(Middle(h) + 1) = h + 1
<1> DEFINE e == n - 10
           x == (e + 112) * Exp32
           c == ((2 * h + 1) - w) * p
<1>1. e \in Int /\ -11 < e /\ e < 1 /\ e < 31 /\ 14 - e = 24 - n /\ e + 112 = n + 102 /\ Exp32 \in Nat /\ Exp32 > 1
  BY Powers
<1>2. c + Exp32 = h * (2 * p) + p
  <2>1. ((2 * h + 1) - w) * p = (2 * h + 1) * p - w * p
    BY Z3
  <2>2. (2 * h + 1) * p = h * (2 * p) + p
    BY Z3
  <2> QED
    BY <1>1, <2>1, <2>2
<1>3. c \in Nat /\ c + p <= Exp32
  <2>1. (2 * h + 1) - w \in Nat /\ ((2 * h + 1) - w) + 1 <= w
    OBVIOUS
  <2>2. \A a, b, d \in Nat : a + 1 <= b => a * d + d <= b * d
    BY Z3
  <2>3. \A a, d \in Nat : a * d \in Nat
    BY Z3
  <2> QED
    BY <2>1, <2>2, <2>3
<1>4. Nearest(h * (2 * p) + p - 1, 2 * p) = h /\ Nearest(h * (2 * p) + p, 2 * p) = h + (h % 2)
        /\ Nearest(h * (2 * p) + p + 1, 2 * p) = h + 1
  BY NearestHalf
<1>5. Middle(h) = x + c /\ x \in Nat
  BY <1>1
<1>6. n > 0 => c > 0
  <2>1. ASSUME n > 0 PROVE (2 * h + 1) - w \in Nat /\ (2 * h + 1) - w > 0
    <3>1. w # 2 * h + 1
      BY <2>1
    <3> QED
      BY <3>1
  <2>2. \A a, d \in Nat : a > 0 /\ d > 0 => a * d > 0
    BY Z3
  <2> QED
    BY <2>1, <2>2
<1> HIDE DEF c, e
<1>7. \A j \in Nat : j < Exp32 => HalfBits(x + j) = Nearest(j + Exp32, 2 * p)
  <2>1. ASSUME NEW j \in Nat, j < Exp32 PROVE HalfBits(x + j) = Nearest(j + Exp32, 2 * p)
    <3>1. HalfBits(x + j) = IF e < 1 THEN Nearest(j + Exp32, 2^(14 - e)) ELSE e * HalfExp + Nearest(j, 2^13)
      BY <1>1, <2>1, HalfBitsIs, Zenon
    <3>2. 2^(14 - e) = 2 * p
      BY <1>1, Zenon
    <3> QED
      BY <1>1, <3>1, <3>2, Zenon
  <2> QED
    BY <2>1
<1> HIDE DEF x
<1>8. HalfBits(Middle(h)) = h + (h % 2) /\ HalfBits(Middle(h) + 1) = h + 1
  <2>1. c < Exp32 /\ c + 1 < Exp32 /\ c + 1 \in Nat /\ (c + 1) + Exp32 = h * (2 * p) + p + 1 /\ x + c + 1 = x + (c + 1)
    BY <1>1, <1>2, <1>3, <1>5
  <2> QED
    BY <1>2, <1>3, <1>4, <1>5, <1>7, <2>1
<1>9. CASE c > 0
  <2>1. c - 1 \in Nat /\ c - 1 < Exp32 /\ (c - 1) + Exp32 = h * (2 * p) + p - 1 /\ x + c - 1 = x + (c - 1)
    BY <1>1, <1>2, <1>3, <1>5, <1>9
  <2>2. HalfBits(Middle(h) - 1) = h
    <3>1. Middle(h) - 1 = x + (c - 1)
      BY <1>3, <1>5
    <3>2. HalfBits(x + (c - 1)) = Nearest((c - 1) + Exp32, 2 * p)
      BY <1>7, <2>1, Zenon
    <3>3. Nearest((c - 1) + Exp32, 2 * p) = h
      BY <1>4, <2>1, Zenon
    <3> QED
      BY <3>1, <3>2, <3>3, Zenon
  <2> QED
    BY <1>8, <2>2
<1>a. CASE ~(c > 0)
  <2>1. n = 0 /\ w = 1 /\ h = 0 /\ c = 0
    <3>1. n = 0
      BY <1>6, <1>a
    <3>2. w = 1 \/ w % 2 = 0
      OBVIOUS
    <3>3. w < 2 * h + 2
      OBVIOUS
    <3>4. c = 0
      BY <1>3, <1>a
    <3>5. \A a, d \in Nat : a > 0 /\ d > 0 => a * d > 0
      BY Z3
    <3>6. (2 * h + 1) - w \in Nat /\ ~((2 * h + 1) - w > 0)
      BY <3>4, <3>5 DEF c
    <3> QED
      BY <3>1, <3>2, <3>4, <3>6
  <2>2. Middle(h) - 1 = 101 * Exp32 + (Exp32 - 1)
    BY <1>1, <1>5, <2>1 DEF x
  <2>3. (Middle(h) - 1) \div Exp32 = 101 /\ ~(Middle(h) - 1 > Inf32) /\ Middle(h) - 1 # Inf32
    <3>1. Exp32 - 1 \in Nat /\ Exp32 - 1 < Exp32 /\ 101 \in Nat /\ 101 < 255
      BY <1>1
    <3> QED
      BY <2>2, <3>1, SingleIs
  <2>4. 101 - 112 < -10
    OBVIOUS
  <2>5. HalfBits(Middle(h) - 1) = h
    BY <2>1, <2>3, <2>4 DEF HalfBits
  <2> QED
    BY <1>8, <2>5
<1> QED
  BY <1>3, <1>9, <1>a

\* Below the smallest normal half.
LEMMA SubnormalHalf ==
  ASSUME NEW h \in Nat, h < HalfExp
  PROVE  /\ HalfBits(Middle(h) - 1) = h
         /\ HalfBits(Middle(h)) = h + (h % 2)
         /\ HalfBits(Middle(h) + 1) = h + 1
<1> DEFINE twice == 2 * h + 1
           Between(n) == 2^n <= twice /\ twice < 2^(n + 1)
           e == CHOOSE n \in 0..11 : Between(n)
<1>1. twice \in Nat /\ 1 <= twice /\ twice < 2048
  BY SMT DEF HalfExp
<1>2. 2^11 = 2048
  BY PowersOfTwo
<1>3. \E n \in 0..10 : Between(n)
  <2>0. CASE 1 <= twice /\ twice < 2
    <3>1. 0 \in 0..10 /\ Between(0)  BY <2>0, PowersOfTwo, SMT
    <3> QED  BY <3>1
  <2>1. CASE 2 <= twice /\ twice < 4
    <3>1. 1 \in 0..10 /\ Between(1)  BY <2>1, PowersOfTwo, SMT
    <3> QED  BY <3>1
  <2>2. CASE 4 <= twice /\ twice < 8
    <3>1. 2 \in 0..10 /\ Between(2)  BY <2>2, PowersOfTwo, SMT
    <3> QED  BY <3>1
  <2>3. CASE 8 <= twice /\ twice < 16
    <3>1. 3 \in 0..10 /\ Between(3)  BY <2>3, PowersOfTwo, SMT
    <3> QED  BY <3>1
  <2>4. CASE 16 <= twice /\ twice < 32
    <3>1. 4 \in 0..10 /\ Between(4)  BY <2>4, PowersOfTwo, SMT
    <3> QED  BY <3>1
  <2>5. CASE 32 <= twice /\ twice < 64
    <3>1. 5 \in 0..10 /\ Between(5)  BY <2>5, PowersOfTwo, SMT
    <3> QED  BY <3>1
  <2>6. CASE 64 <= twice /\ twice < 128
    <3>1. 6 \in 0..10 /\ Between(6)  BY <2>6, PowersOfTwo, SMT
    <3> QED  BY <3>1
  <2>7. CASE 128 <= twice /\ twice < 256
    <3>1. 7 \in 0..10 /\ Between(7)  BY <2>7, PowersOfTwo, SMT
    <3> QED  BY <3>1
  <2>8. CASE 256 <= twice /\ twice < 512
    <3>1. 8 \in 0..10 /\ Between(8)  BY <2>8, PowersOfTwo, SMT
    <3> QED  BY <3>1
  <2>9. CASE 512 <= twice /\ twice < 1024
    <3>1. 9 \in 0..10 /\ Between(9)  BY <2>9, PowersOfTwo, SMT
    <3> QED  BY <3>1
  <2>10. CASE 1024 <= twice /\ twice < 2048
    <3>1. 10 \in 0..10 /\ Between(10)  BY <2>10, PowersOfTwo, SMT
    <3> QED  BY <3>1
  <2> HIDE DEF Between, twice
  <2> QED
    BY <1>1, <2>0, <2>1, <2>2, <2>3, <2>4, <2>5, <2>6, <2>7, <2>8, <2>9, <2>10, SMT
<1> HIDE DEF Between
<1>4. e \in 0..11 /\ Between(e)
  <2>1. \E n \in 0..11 : Between(n)
    BY <1>3
  <2> QED
    BY <2>1
<1> HIDE DEF e
<1>5. e \in 0..10
  <2>1. ~Between(11)
    BY <1>1, <1>2, SMT DEF Between
  <2>2. e # 11
    BY <1>4, <2>1, Zenon
  <2> QED
    BY <1>4, <2>2
<1>7. Middle(h) = (e + 102) * Exp32 + ((2 * h + 1) - 2^e) * 2^(23 - e)
  BY DEF Middle, e, Between
<1>8. 2^e <= 2 * h + 1 /\ 2 * h + 1 < 2 * 2^e
  BY <1>4, <1>5, SmallPowers DEF Between
<1> DEFINE w == 2^e
           p == 2^(23 - e)
<1>9. /\ e \in Nat /\ e < 11 /\ w \in Nat /\ p \in Nat
      /\ 2^(24 - e) = 2 * p /\ w * p = Exp32 /\ p > 1 /\ ((e = 0 /\ w = 1) \/ w % 2 = 0)
  <2>1. e \in Nat /\ e < 11
    BY <1>5
  <2> QED
    BY <1>5, <2>1, SmallPowers, Zenon
<1> HIDE DEF w
<1>10. w <= 2 * h + 1 /\ 2 * h + 1 < 2 * w /\ Middle(h) = (e + 102) * Exp32 + ((2 * h + 1) - w) * p
  BY <1>7, <1>8, Zenon DEF w
<1> HIDE DEF p
<1> QED
  BY <1>9, <1>10, SmallHalf

\* The rounding of HalfIsNearest, of every half.
LEMMA EveryHalf ==
  ASSUME NEW h \in 0..(HalfInf - 1)
  PROVE  /\ HalfBits(Middle(h) - 1) = h
         /\ HalfBits(Middle(h)) = h + (h % 2)
         /\ HalfBits(Middle(h) + 1) = h + 1
<1>1. HalfExp \in Nat /\ HalfInf \in Nat
  BY SMT DEF HalfExp, HalfInf
<1>2. h \in Nat /\ h < HalfInf
  BY <1>1
<1> QED
  BY <1>1, <1>2, NormalHalf, SubnormalHalf

\* Every magnitude becomes the half it is nearest to, one in the middle of two
\* the even half, and what is over the largest by half a step is infinite: the
\* rounding by hand of floatBitsToHalfBits, of all halves and whatever is read.
THEOREM HalvesAreNearest == ReadSpec => []HalfIsNearest
<1>1. HalfIsNearest
  BY EveryHalf DEF HalfIsNearest
<1> QED  BY <1>1, PTL
================================================================================
