-------------------------- MODULE CuAsmParserProofs --------------------------
(***************************************************************************)
(* What the assembler makes of every file it is given: the types of what   *)
(* its passes leave to each other, the layout of the file, the places of   *)
(* the labels, the kernels' symbols and the relocations.                   *)
(***************************************************************************)
EXTENDS CuAsmParserInv, FiniteSetTheorems, SequenceTheorems, WellFoundedInduction, TLAPS

-----------------------------------------------------------------------------
(* Numbers and sets of numbers.                                            *)

\* Rounding up to an alignment.
LEMMA AlignedUp ==
  ASSUME NEW a \in Alignments, NEW pos \in Nat
  PROVE  /\ Aligned(pos, a) \in Nat /\ Aligned(pos, a) >= pos
         /\ Aligned(Aligned(pos, a), a) = Aligned(pos, a)
         /\ Aligned(Aligned(pos, 128), a) = Aligned(pos, 128)
<1>1. CASE a \in {0, 1, 2}
  BY <1>1, Z3 DEF Aligned
<1>2. CASE a \in {4, 8}
  BY <1>2, Z3 DEF Aligned
<1>3. CASE a = 16
  BY <1>3, Z3 DEF Aligned
<1>4. CASE a = 32
  BY <1>4, Z3 DEF Aligned
<1>5. CASE a = 64
  BY <1>5, Z3 DEF Aligned
<1>6. CASE a = 128
  BY <1>6, Z3 DEF Aligned
<1> QED
  BY <1>1, <1>2, <1>3, <1>4, <1>5, <1>6 DEF Alignments

LEMMA LargerType ==
  ASSUME NEW a \in Alignments, NEW b \in Alignments
  PROVE  /\ a \in Nat /\ Larger(a, b) \in Alignments
         /\ a = 128 => Larger(a, b) = 128
  BY DEF Alignments, Larger

\* A set of numbers has a least one.
LEMMA LeastElement ==
  ASSUME NEW T \in SUBSET Nat, T # {}
  PROVE  \E x \in T : \A y \in T : x <= y
<1>1. IsWellFoundedOn(OpToRel(<, Nat), Nat)
  BY NatLessThanWellFounded, Zenon
<1>2. PICK x \in T : \A y \in T : ~(<<y, x>> \in OpToRel(<, Nat))
  BY <1>1, WFMin, Zenon
<1>3. \A y \in T : ~(y < x)
  BY <1>2 DEF OpToRel
<1>4. QED
  BY <1>3

LEMMA UpToFinite == \A n \in Int : IsFiniteSet(1..n)
  BY FS_Interval

LEMMA FirstExists ==
  ASSUME NEW T \in SUBSET Nat, T # {}
  PROVE  HasNth(T, 1)
<1>1. PICK i \in T : \A y \in T : i <= y
  BY LeastElement
<1>2. \A y \in T : ~(y < i)
  BY <1>1
<1>3. Below(T, i) = {}
  BY <1>2 DEF Below
<1>4. Cardinality(Below(T, i)) = 1 - 1
  BY <1>3, FS_EmptySet
<1> QED
  BY <1>4 DEF HasNth

LEMMA NextExists ==
  ASSUME NEW T \in SUBSET Nat, IsFiniteSet(T), NEW k \in 1..Cardinality(T), k + 1 <= Cardinality(T), HasNth(T, k)
  PROVE  HasNth(T, k + 1)
<1>1. PICK i \in T : Cardinality(Below(T, i)) = k - 1
  BY DEF HasNth
<1> DEFINE U == Below(T, i)
           V == U \cup {i}
           W == T \ V
<1>2. IsFiniteSet(U) /\ i \notin U /\ U \subseteq T
  BY FS_Subset DEF Below
<1>3. Cardinality(V) = Cardinality(U) + 1
  BY <1>2, FS_AddElement
<1>4. Cardinality(V) = k
  BY <1>1, <1>3
<1>5. W # {}
  <2> SUFFICES ASSUME W = {} PROVE FALSE
    OBVIOUS
  <2>1. V = T
    BY <1>2
  <2> HIDE DEF V
  <2> QED
    BY <2>1, <1>4, FS_CardinalityType
<1>6. PICK z \in W : \A y \in W : z <= y
  <2>1. W \in SUBSET Nat
    OBVIOUS
  <2> HIDE DEF W
  <2> QED
    BY <2>1, <1>5, LeastElement
<1>7. Below(T, z) = V
  <2>1. z \in T /\ z # i /\ ~(z < i) /\ z \in Nat /\ i \in Nat
    BY <1>6 DEF Below
  <2>2. i < z
    BY <2>1
  <2>3. ASSUME NEW j \in T PROVE j < z <=> j \in V
    BY <2>1, <2>2, <1>6 DEF Below
  <2> QED
    BY <2>3, <1>2 DEF Below
<1>8. Cardinality(Below(T, z)) = (k + 1) - 1 /\ z \in T
  BY <1>4, <1>6, <1>7
<1> QED
  BY <1>8 DEF HasNth

LEMMA EveryExists ==
  ASSUME NEW T \in SUBSET Nat, IsFiniteSet(T)
  PROVE  \A k \in 1..Cardinality(T) : HasNth(T, k)
<1> DEFINE B == {k \in 1..Cardinality(T) : ~HasNth(T, k)}
<1>1. Cardinality(T) \in Nat
  BY FS_CardinalityType
<1> SUFFICES ASSUME B # {} PROVE FALSE
  OBVIOUS
<1>2. B \in SUBSET Nat
  BY <1>1
<1> HIDE DEF B
<1>3. PICK k \in B : \A y \in B : k <= y
  BY <1>2, LeastElement
<1> USE DEF B
<1>4. CASE k = 1
  <2>1. T # {}
    BY <1>1, <1>4, FS_EmptySet
  <2> QED
    BY <1>4, <2>1, FirstExists
<1>5. CASE k # 1
  <2> DEFINE m == k - 1
  <2>1. m \in 1..Cardinality(T) /\ m \notin B /\ m + 1 = k /\ m + 1 <= Cardinality(T)
    BY <1>1, <1>3, <1>5
  <2>2. HasNth(T, m)
    BY <2>1
  <2> HIDE DEF m
  <2>3. HasNth(T, m + 1)
    BY <2>1, <2>2, NextExists
  <2> QED
    BY <2>1, <2>3
<1> QED
  BY <1>4, <1>5

LEMMA InOrderIn ==
  ASSUME NEW T \in SUBSET Nat, IsFiniteSet(T)
  PROVE  /\ Cardinality(T) \in Nat
         /\ DOMAIN InOrder(T) = 1..Cardinality(T)
         /\ \A k \in 1..Cardinality(T) : InOrder(T)[k] \in T
<1>1. \A k \in 1..Cardinality(T) : \E i \in T : Cardinality({j \in T : j < i}) = k - 1
  BY EveryExists DEF HasNth, Below
<1>2. \A k \in 1..Cardinality(T) : InOrder(T)[k] = CHOOSE i \in T : Cardinality({j \in T : j < i}) = k - 1
  BY DEF InOrder
<1>3. \A k \in 1..Cardinality(T) : InOrder(T)[k] \in T
  BY <1>1, <1>2
<1> QED
  BY <1>3, FS_CardinalityType DEF InOrder

\* The elements at some places of a sequence.
LEMMA ElementsAtType ==
  ASSUME NEW s, NEW T \in SUBSET Nat, IsFiniteSet(T)
  PROVE  /\ Len(ElementsAt(s, T)) \in Nat
         /\ ElementsAt(s, T) \in Seq({s[i] : i \in T})
<1> DEFINE n == Cardinality(T)
           e == ElementsAt(s, T)
<1>1. n \in Nat /\ \A k \in 1..n : InOrder(T)[k] \in T
  BY InOrderIn
<1>2. e = [k \in 1..n |-> s[InOrder(T)[k]]]
  BY InOrderIn DEF ElementsAt
<1>3. \A k \in 1..n : e[k] \in {s[i] : i \in T}
  BY <1>1, <1>2
<1>4. e \in [1..n -> {s[i] : i \in T}]
  BY <1>2, <1>3
<1> HIDE DEF e, n
<1>5. e \in Seq({s[i] : i \in T})
  BY <1>1, <1>4
<1>6. Len(e) \in Nat
  BY <1>5, LenProperties
<1> QED
  BY <1>5, <1>6 DEF e

-----------------------------------------------------------------------------
(* Lists of attributes.                                                    *)

LEMMA SeqIsSeq ==
  ASSUME NEW S, NEW s \in Seq(S)
  PROVE  IsSeq(s)
<1> DEFINE R == {s[k] : k \in DOMAIN s}
<1>1. Len(s) \in Nat /\ DOMAIN s = 1..Len(s) /\ s \in [1..Len(s) -> S]
  BY LenProperties
<1>2. s \in [1..Len(s) -> R]
  <2>1. \A k \in 1..Len(s) : s[k] \in R
    BY <1>1
  <2> HIDE DEF R
  <2> QED
    BY <1>1, <2>1
<1> HIDE DEF R
<1>3. s \in Seq(R)
  BY <1>1, <1>2
<1> QED
  BY <1>3 DEF R, IsSeq

LEMMA IsSeqDomain ==
  ASSUME NEW s, IsSeq(s)
  PROVE  Len(s) \in Nat /\ DOMAIN s = 1..Len(s) /\ IsFiniteSet(DOMAIN s) /\ DOMAIN s \subseteq Nat
<1> DEFINE S == {s[k] : k \in DOMAIN s}
<1>1. s \in Seq(S)
  BY DEF IsSeq
<1> HIDE DEF S
<1>2. Len(s) \in Nat /\ DOMAIN s = 1..Len(s)
  BY <1>1, LenProperties
<1> QED
  BY <1>2, FS_Interval

\* What serialize returns has a size.
LEMMA AttrsSizeType ==
  ASSUME NEW attrs, IsAttrs(attrs)
  PROVE  AttrsSize(attrs) \in Nat
<1> DEFINE D == DOMAIN attrs
           W(k) == {k} \X ({0} \cup IF Format[attrs[k].name] = "SVAL" THEN DOMAIN attrs[k].val ELSE {})
           F == {W(k) : k \in D}
<1>1. IsFiniteSet(D)
  BY IsSeqDomain DEF IsAttrs
<1>2. ASSUME NEW k \in D PROVE IsFiniteSet(W(k))
  <2> DEFINE V == IF Format[attrs[k].name] = "SVAL" THEN DOMAIN attrs[k].val ELSE {}
  <2>1. IsFiniteSet(DOMAIN attrs[k].val)
    BY DEF IsAttrs
  <2>2. IsFiniteSet(V)
    BY <2>1, FS_EmptySet
  <2> HIDE DEF V
  <2>3. IsFiniteSet({0} \cup V)
    BY <2>2, FS_Union, FS_Singleton
  <2>4. IsFiniteSet({k})
    BY FS_Singleton
  <2>5. IsFiniteSet({k} \X ({0} \cup V))
    BY <2>3, <2>4, FS_Product
  <2> QED
    BY <2>5 DEF V
<1> HIDE DEF D
<1>3. IsFiniteSet(F)
  <2> DEFINE f == [k \in D |-> W(k)]
  <2> HIDE DEF W
  <2>1. f \in Surjection(D, F)
    BY DEF Surjection
  <2> HIDE DEF f, F
  <2> QED
    BY <2>1, <1>1, FS_Surjection
<1>4. \A T \in F : IsFiniteSet(T)
  <2> HIDE DEF W
  <2> QED
    BY <1>2
<1>5. Words(attrs) = UNION F
  BY DEF Words, D
<1> HIDE DEF F
<1>6. IsFiniteSet(Words(attrs))
  BY <1>3, <1>4, <1>5, FS_UNION
<1>7. Cardinality(Words(attrs)) \in Nat
  BY <1>6, FS_CardinalityType
<1> QED
  BY <1>7 DEF AttrsSize

LEMMA DecodeType ==
  ASSUME NEW items, HasNumbers(items), NEW size \in Nat
  PROVE  IsAttrs(Decode(items, size))
<1> DEFINE words(at) == IF IsHead(items, at) /\ Format[items[at].head] = "SVAL" THEN NumberAt(items, at + 2) \div 4 ELSE 0
           value(at) == CASE Format[items[at].head] = "SVAL" -> [k \in 1..words(at) |-> NumberAt(items, at + 4 * k)]
                          [] Format[items[at].head] = "HVAL" -> <<NumberAt(items, at + 2)>>
                          [] OTHER -> <<>>
           after(at) == at + 4 * (words(at) + 1)
           whole(at) == IsHead(items, at) /\ (after(at) <= size \/ Format[items[at].head] = "NVAL")
           place == CHOOSE place : place = [n \in Nat |-> IF n = 0 THEN 0 ELSE after(place[n - 1])]
           count == Cardinality({n \in 0..(size \div 4) : place[n] < size})
           attr(k) == IF whole(place[k - 1]) THEN [name |-> items[place[k - 1]].head, val |-> value(place[k - 1])]
                      ELSE Unreadable
<1>1. Decode(items, size) = [k \in 1..count |-> attr(k)]
  BY DEF Decode
<1> HIDE DEF place
<1>2. count \in Nat
  <2>1. size \div 4 \in Nat
    BY SMT
  <2>2. IsFiniteSet(0..(size \div 4))
    BY <2>1, FS_Interval
  <2>3. IsFiniteSet({n \in 0..(size \div 4) : place[n] < size})
    BY <2>2, FS_Subset
  <2> QED
    BY <2>3, FS_CardinalityType
<1>3. ASSUME NEW at PROVE IsFiniteSet(DOMAIN value(at))
  <2>1. words(at) \in Int
    <3>1. NumberAt(items, at + 2) \in Int
      BY DEF NumberAt, HasNumbers
    <3> QED
      BY <3>1
  <2> HIDE DEF words
  <2>2. IsFiniteSet(1..words(at))
    BY <2>1, FS_Interval
  <2>3. IsFiniteSet(1..1) /\ IsFiniteSet(1..0)
    <3>1. 0 \in Int /\ 1 \in Int
      OBVIOUS
    <3> QED
      BY <3>1, UpToFinite, Zenon
  <2>4. value(at) = [k \in 1..words(at) |-> NumberAt(items, at + 4 * k)]
        \/ value(at) = <<NumberAt(items, at + 2)>> \/ value(at) = <<>>
    OBVIOUS
  <2>5. DOMAIN value(at) = 1..words(at) \/ DOMAIN value(at) = 1..1 \/ DOMAIN value(at) = 1..0
    <3> HIDE DEF value
    <3> QED
      BY <2>4
  <2> HIDE DEF value
  <2> QED
    BY <2>2, <2>3, <2>5
<1> HIDE DEF value, whole, count
<1>4. ASSUME NEW k \in 1..count PROVE IsFiniteSet(DOMAIN attr(k).val)
  <2>1. CASE whole(place[k - 1])
    BY <2>1, <1>3
  <2>2. CASE ~whole(place[k - 1])
    <3>1. attr(k).val = <<>>
      BY <2>2 DEF Unreadable
    <3>2. DOMAIN <<>> = {}
      OBVIOUS
    <3>3. DOMAIN attr(k).val = {}
      BY <3>1, <3>2, Zenon
    <3> HIDE DEF attr
    <3> QED
      BY <3>3, FS_EmptySet
  <2> QED
    BY <2>1, <2>2
<1> HIDE DEF attr
<1>5. Decode(items, size) \in Seq({attr(k) : k \in 1..count})
  BY <1>1, <1>2
<1>6. IsSeq(Decode(items, size))
  BY <1>5, SeqIsSeq
<1> QED
  BY <1>1, <1>4, <1>6 DEF IsAttrs

LEMMA AttrsOfSeq ==
  ASSUME NEW S, NEW s \in Seq(S), \A x \in S : IsFiniteSet(DOMAIN x.val)
  PROVE  IsAttrs(s)
<1>1. IsSeq(s)
  BY SeqIsSeq
<1>2. \A k \in DOMAIN s : s[k] \in S
  BY LenProperties
<1>3. \A k \in DOMAIN s : IsFiniteSet(DOMAIN s[k].val)
  BY <1>2
<1> QED
  BY <1>1, <1>3 DEF IsAttrs

\* Updating keeps a list of attributes one, if it is told lists.
LEMMA UpdateType ==
  ASSUME NEW grouped, NEW attrs, IsAttrs(attrs), NEW dict, \A a \in DOMAIN dict : IsFiniteSet(DOMAIN dict[a])
  PROVE  IsAttrs(Update(grouped, attrs, dict))
<1> DEFINE kept == {i \in DOMAIN attrs :
                 \/ attrs[i].name \notin Generated(grouped)
                 \/ attrs[i].name \in DOMAIN dict /\ \A j \in 1..(i - 1) : attrs[j].name # attrs[i].name}
           names == <<"COOP", "CTAIDZ", "EXIT", "S2RCTAID", "WMMA">>
           missed == {k \in DOMAIN names : /\ names[k] \in DOMAIN dict \cap Generated(grouped)
                                           /\ \A i \in DOMAIN attrs : attrs[i].name # names[k]}
           found == Missing(grouped, attrs, dict)
           A == {attrs[i] : i \in kept}
           B == {[name |-> a, val |-> dict[a]] : a \in DOMAIN dict}
<1>1. ElementsAt(attrs, kept) \in Seq(A)
  <2>1. kept \subseteq DOMAIN attrs
    OBVIOUS
  <2> HIDE DEF kept
  <2>2. kept \in SUBSET Nat /\ IsFiniteSet(kept)
    BY <2>1, IsSeqDomain, FS_Subset DEF IsAttrs
  <2> QED
    BY <2>2, ElementsAtType
<1>2. found \in Seq({names[k] : k \in missed})
  <2>1. missed \subseteq 1..5
    OBVIOUS
  <2>2. found = ElementsAt(names, missed)
    BY DEF Missing
  <2> HIDE DEF names, missed, found
  <2>3. IsFiniteSet(1..5)
    <3>1. 5 \in Int
      OBVIOUS
    <3> QED
      BY <3>1, UpToFinite, Zenon
  <2>4. IsFiniteSet(missed)
    BY <2>1, <2>3, FS_Subset
  <2>5. missed \in SUBSET Nat
    BY <2>1
  <2> QED
    BY <2>2, <2>4, <2>5, ElementsAtType
<1>3. {names[k] : k \in missed} \subseteq DOMAIN dict
  <2> HIDE DEF names
  <2>1. \A k \in missed : names[k] \in DOMAIN dict
    BY Zenon
  <2> HIDE DEF missed
  <2> QED
    BY <2>1
<1> HIDE DEF names, missed, found
<1>4. found \in Seq(DOMAIN dict)
  BY <1>2, <1>3, SeqMonotonic
<1>5. Attributes(found, dict) \in Seq(B)
  <2>1. Len(found) \in Nat /\ DOMAIN found = 1..Len(found) /\ \A k \in 1..Len(found) : found[k] \in DOMAIN dict
    BY <1>4, LenProperties
  <2>2. \A k \in 1..Len(found) : [name |-> found[k], val |-> dict[found[k]]] \in B
    BY <2>1
  <2> HIDE DEF B
  <2>3. [k \in 1..Len(found) |-> [name |-> found[k], val |-> dict[found[k]]]] \in [1..Len(found) -> B]
    BY <2>2
  <2>4. Attributes(found, dict) \in [1..Len(found) -> B]
    BY <2>1, <2>3 DEF Attributes
  <2> QED
    BY <2>1, <2>4
<1>6. \A x \in A \cup B : IsFiniteSet(DOMAIN x.val)
  BY DEF IsAttrs
<1>7. Update(grouped, attrs, dict) = ElementsAt(attrs, kept) \o Attributes(found, dict)
  BY DEF Update, found
<1> HIDE DEF A, B, kept
<1>8. ElementsAt(attrs, kept) \in Seq(A \cup B) /\ Attributes(found, dict) \in Seq(A \cup B)
  BY <1>1, <1>5, SeqMonotonic
<1>9. Update(grouped, attrs, dict) \in Seq(A \cup B)
  BY <1>7, <1>8, ConcatProperties
<1> QED
  BY <1>6, <1>9, AttrsOfSeq

LEMMA SetRegCountType ==
  ASSUME NEW attrs, IsAttrs(attrs), NEW regs
  PROVE  IsAttrs(SetRegCount(attrs, regs))
<1> DEFINE given(k) == attrs[k].name = "REGCOUNT" /\ attrs[k].val # <<>> /\ attrs[k].val[1] \in DOMAIN regs
           v(k) == <<attrs[k].val[1], regs[attrs[k].val[1]]>>
           e(k) == IF given(k) THEN [name |-> attrs[k].name, val |-> v(k)] ELSE attrs[k]
           S == {e(k) : k \in DOMAIN attrs}
<1>1. Len(attrs) \in Nat /\ DOMAIN attrs = 1..Len(attrs)
  BY IsSeqDomain DEF IsAttrs
<1>2. SetRegCount(attrs, regs) = [k \in DOMAIN attrs |-> e(k)]
  BY DEF SetRegCount
<1>3. ASSUME NEW k \in DOMAIN attrs PROVE IsFiniteSet(DOMAIN e(k).val)
  <2>1. IsFiniteSet(DOMAIN attrs[k].val)
    BY DEF IsAttrs
  <2>2. e(k).val = v(k) \/ e(k).val = attrs[k].val
    OBVIOUS
  <2>3. IsFiniteSet(DOMAIN v(k))
    <3>1. DOMAIN v(k) = 1..2
      OBVIOUS
    <3>2. 2 \in Int
      OBVIOUS
    <3> HIDE DEF v
    <3> QED
      BY <3>1, <3>2, UpToFinite, Zenon
  <2> HIDE DEF v, e
  <2> QED
    BY <2>1, <2>2, <2>3
<1>4. SetRegCount(attrs, regs) \in Seq(S)
  <2>1. \A k \in DOMAIN attrs : e(k) \in S
    OBVIOUS
  <2> HIDE DEF S, e
  <2> QED
    BY <1>1, <1>2, <2>1
<1>5. \A x \in S : IsFiniteSet(DOMAIN x.val)
  <2> HIDE DEF e
  <2> QED
    BY <1>3
<1> HIDE DEF S
<1> QED
  BY <1>4, <1>5, AttrsOfSeq

\* The offsets of the instructions that make an attribute are a list.
LEMMA ExtraInfoType ==
  ASSUME NEW ops, NEW at, IsFiniteSet(DOMAIN ops), DOMAIN ops \subseteq Nat
  PROVE  \A a \in DOMAIN ExtraInfo(ops, at) : IsFiniteSet(DOMAIN ExtraInfo(ops, at)[a])
<1> DEFINE T(a) == {i \in DOMAIN ops : ops[i] \in Makers[a]}
           offsets(a) == ElementsAt(at, T(a))
           used == {a \in DOMAIN Makers : ToSet(ops) \cap Makers[a] # {}}
<1>1. ExtraInfo(ops, at) = [a \in used |-> IF Format[a] = "NVAL" THEN <<>> ELSE offsets(a)]
  BY DEF ExtraInfo
<1> HIDE DEF used
<1>2. ASSUME NEW a PROVE IsFiniteSet(DOMAIN offsets(a))
  <2>1. T(a) \in SUBSET Nat /\ IsFiniteSet(T(a))
    BY FS_Subset
  <2> DEFINE S == {at[i] : i \in T(a)}
  <2>2. offsets(a) \in Seq(S)
    BY <2>1, ElementsAtType
  <2> HIDE DEF S, offsets
  <2>3. IsSeq(offsets(a))
    BY <2>2, SeqIsSeq
  <2> QED
    BY <2>3, IsSeqDomain
<1>3. IsFiniteSet(DOMAIN <<>>)
  <2>1. DOMAIN <<>> = {}
    OBVIOUS
  <2> QED
    BY <2>1, FS_EmptySet
<1> HIDE DEF offsets
<1> QED
  BY <1>1, <1>2, <1>3

-----------------------------------------------------------------------------
(* The stages of the assembler.                                            *)

\* The pass after a pass.
LEMMA PassesAre ==
  /\ DOMAIN Passes = 1..12
  /\ Passes[1] = "scan" /\ Passes[2] = "gather" /\ Passes[3] = "tables" /\ Passes[4] = "fixups"
  /\ Passes[5] = "kernels" /\ Passes[6] = "regcounts" /\ Passes[7] = "relocations" /\ Passes[8] = "layout"
  /\ Passes[9] = "segments" /\ Passes[10] = "symtab" /\ Passes[11] = "save" /\ Passes[12] = "done"
  BY DEF Passes

LEMMA PassIs ==
  ASSUME NEW i \in 1..12
  PROVE  (CHOOSE j \in DOMAIN Passes : Passes[j] = Passes[i]) = i
<1>1. ASSUME NEW j \in DOMAIN Passes, Passes[j] = Passes[i] PROVE j = i
  BY PassesAre, <1>1
<1>2. i \in DOMAIN Passes
  BY PassesAre
<1> QED
  BY <1>1, <1>2

LEMMA GoesOn ==
  ASSUME GoOn
  PROVE  /\ next' = 1
         /\ stage = "scan" => stage' = "gather"
         /\ stage = "gather" => stage' = "tables"
         /\ stage = "tables" => stage' = "fixups"
         /\ stage = "fixups" => stage' = "kernels"
         /\ stage = "kernels" => stage' = "regcounts"
         /\ stage = "regcounts" => stage' = "relocations"
         /\ stage = "relocations" => stage' = "layout"
         /\ stage = "layout" => stage' = "segments"
         /\ stage = "segments" => stage' = "symtab"
         /\ stage = "symtab" => stage' = "save"
         /\ stage = "save" => stage' = "done"
<1>1. ASSUME NEW i \in 1..11, stage = Passes[i] PROVE stage' = Passes[i + 1]
  <2>1. i \in 1..12
    OBVIOUS
  <2>2. (CHOOSE j \in DOMAIN Passes : Passes[j] = stage) = i
    BY <2>1, <1>1, PassIs
  <2>3. 1 + i = i + 1
    OBVIOUS
  <2> QED
    BY <2>2, <2>3 DEF GoOn
<1>2. /\ 1 \in 1..11 /\ 2 \in 1..11 /\ 3 \in 1..11 /\ 4 \in 1..11 /\ 5 \in 1..11 /\ 6 \in 1..11
      /\ 7 \in 1..11 /\ 8 \in 1..11 /\ 9 \in 1..11 /\ 10 \in 1..11 /\ 11 \in 1..11
      /\ 1 + 1 = 2 /\ 2 + 1 = 3 /\ 3 + 1 = 4 /\ 4 + 1 = 5 /\ 5 + 1 = 6 /\ 6 + 1 = 7 /\ 7 + 1 = 8
      /\ 8 + 1 = 9 /\ 9 + 1 = 10 /\ 10 + 1 = 11 /\ 11 + 1 = 12
  OBVIOUS
<1>3. next' = 1
  BY DEF GoOn
<1> QED
  BY <1>1, <1>2, <1>3, PassesAre

\* Sequences with one element more, and with others in their places.
LEMMA AppendIs ==
  ASSUME NEW s, IsSeq(s), NEW e
  PROVE  /\ IsSeq(Append(s, e)) /\ Len(Append(s, e)) = Len(s) + 1
         /\ DOMAIN Append(s, e) = DOMAIN s \cup {Len(s) + 1}
         /\ \A k \in DOMAIN s : Append(s, e)[k] = s[k]
         /\ Append(s, e)[Len(s) + 1] = e
         /\ Len(s) + 1 \notin DOMAIN s
<1> DEFINE S == {s[k] : k \in DOMAIN s} \cup {e}
<1>1. Len(s) \in Nat /\ DOMAIN s = 1..Len(s)
  BY IsSeqDomain
<1>2. s \in Seq(S) /\ e \in S
  <2>1. s \in Seq({s[k] : k \in DOMAIN s})
    BY DEF IsSeq
  <2> QED
    BY <2>1, SeqMonotonic
<1> HIDE DEF S
<1>3. Append(s, e) \in Seq(S) /\ Len(Append(s, e)) = Len(s) + 1
  BY <1>2
<1>4. IsSeq(Append(s, e))
  BY <1>3, SeqIsSeq
<1>5. DOMAIN Append(s, e) = 1..(Len(s) + 1)
  BY <1>3, LenProperties
<1>6. 1..(Len(s) + 1) = (1..Len(s)) \cup {Len(s) + 1} /\ Len(s) + 1 \notin 1..Len(s)
  BY <1>1
<1>7. /\ \A k \in 1..Len(s) : Append(s, e)[k] = s[k]
      /\ Append(s, e)[Len(s) + 1] = e
  BY <1>1, <1>2
<1> QED
  BY <1>1, <1>3, <1>4, <1>5, <1>6, <1>7

LEMMA SameDomain ==
  ASSUME NEW s, IsSeq(s), NEW t, t = [k \in DOMAIN s |-> t[k]]
  PROVE  IsSeq(t) /\ DOMAIN t = DOMAIN s /\ Len(t) = Len(s)
<1> DEFINE S == {t[k] : k \in DOMAIN s}
<1>1. Len(s) \in Nat /\ DOMAIN s = 1..Len(s)
  BY IsSeqDomain
<1>2. \A k \in DOMAIN s : t[k] \in S
  OBVIOUS
<1> HIDE DEF S
<1>3. t \in [1..Len(s) -> S]
  BY <1>1, <1>2
<1>4. t \in Seq(S) /\ DOMAIN t = 1..Len(s)
  BY <1>1, <1>3
<1>5. Len(t) = Len(s)
  BY <1>1, <1>3
<1> QED
  BY <1>1, <1>4, <1>5, SeqIsSeq

-----------------------------------------------------------------------------
(* What a pass may do to a section: the null section stays empty.          *)

LEMMA ChangedSame == ASSUME NEW t, IsSection(t) PROVE Changed(t, t) /\ SamePlace(t, t)
  BY DEF Changed, SamePlace

LEMMA UnchangedWorked ==
  ASSUME TypeInv, UNCHANGED sections
  PROVE  Worked /\ InPlace
<1>1. \A s \in DOMAIN sections : Changed(sections[s], sections[s]) /\ SamePlace(sections[s], sections[s])
  BY ChangedSame DEF TypeInv, SectionsTyped
<1> QED
  BY <1>1 DEF TypeInv, SectionsTyped, Worked, InPlace, SamePlace

\* One section replaced.
LEMMA OneWorked ==
  ASSUME TypeInv, NEW s \in DOMAIN sections, NEW e, Changed(sections[s], e), SamePlace(sections[s], e),
         sections' = [sections EXCEPT ![s] = e]
  PROVE  Worked /\ InPlace
<1>1. IsSeq(sections) /\ \A t \in DOMAIN sections : IsSection(sections[t])
  BY DEF TypeInv, SectionsTyped
<1>2. sections' = [t \in DOMAIN sections |-> sections'[t]]
  OBVIOUS
<1>3. IsSeq(sections') /\ DOMAIN sections' = DOMAIN sections
  BY <1>1, <1>2, SameDomain
<1>4. ASSUME NEW t \in DOMAIN sections PROVE Changed(sections[t], sections'[t]) /\ SamePlace(sections[t], sections'[t])
  <2>1. sections'[t] = IF t = s THEN e ELSE sections[t]
    OBVIOUS
  <2>2. CASE t = s
    BY <2>1, <2>2
  <2>3. CASE t # s
    BY <2>1, <2>3, <1>1, ChangedSame
  <2> QED
    BY <2>2, <2>3
<1> QED
  BY <1>3, <1>4 DEF Worked, InPlace, SamePlace

LEMMA EmitIs ==
  ASSUME NEW t, DOMAIN t = SectionFields, NEW n
  PROVE  LET e == Emit(t, n) IN
         /\ DOMAIN e = SectionFields
         /\ e.pos = t.pos + n /\ e.size = IF t.pos + n > t.size THEN t.pos + n ELSE t.size
         /\ \A x \in SectionFields \ {"pos", "size"} : e[x] = t[x]
  BY DEF Emit, SectionFields

\* Bytes put into a section that is not the null section, or none.
LEMMA EmitType ==
  ASSUME NEW t, IsSection(t), NEW n \in Nat, t.name = <<>> => n = 0 /\ t.pos = 0
  PROVE  Changed(t, Emit(t, n)) /\ SamePlace(t, Emit(t, n))
<1> DEFINE e == Emit(t, n)
<1>1. DOMAIN t = SectionFields
  BY DEF IsSection
<1>2. /\ DOMAIN e = SectionFields
      /\ e.pos = t.pos + n /\ e.size = IF t.pos + n > t.size THEN t.pos + n ELSE t.size
      /\ \A x \in SectionFields \ {"pos", "size"} : e[x] = t[x]
  BY <1>1, EmitIs
<1> HIDE DEF e
<1>3. /\ e.name = t.name /\ e.type = t.type /\ e.line = t.line /\ e.align = t.align /\ e.items = t.items
      /\ e.at = t.at /\ e.mem = t.mem /\ e.pad = t.pad
  BY <1>2 DEF SectionFields
<1>4. e.pos \in Nat /\ e.size \in Nat
  BY <1>2 DEF IsSection
<1>5. IsSection(e)
  BY <1>2, <1>3, <1>4 DEF IsSection
<1>6. ASSUME t.name = <<>> PROVE e.size = t.size /\ e.pos = t.pos
  <2>1. n = 0 /\ t.pos = 0
    BY <1>6, Zenon
  <2>2. t.size \in Nat
    BY DEF IsSection
  <2>3. e.pos = 0 + 0 /\ e.size = IF 0 + 0 > t.size THEN 0 + 0 ELSE t.size
    BY <1>2, <2>1, Zenon
  <2> QED
    BY <2>1, <2>2, <2>3
<1> QED
  BY <1>3, <1>5, <1>6 DEF Changed, SamePlace, e

\* What stays typed when sections are only worked on.
LEMMA WorkedTyped ==
  ASSUME TypeInv, Worked, src' = src,
         stage' # "scan" \/ (/\ stage = "scan" /\ next <= Len(src.lines)
                             /\ Line.op \notin {"section", "segment"} /\ cur' = cur)
  PROVE  /\ SectionsTyped' /\ (fixups' = fixups => FixupsTyped') /\ (rels' = rels => RelsTyped')
         /\ (cur' = cur => cur' \in {0} \cup DOMAIN sections')
<1>1. /\ IsSeq(sections') /\ DOMAIN sections' = DOMAIN sections
      /\ \A s \in DOMAIN sections : IsSection(sections'[s]) /\ sections'[s].name = sections[s].name
  BY DEF Worked, Changed
<1>2. \A s, t \in DOMAIN sections' : sections'[s].name = sections'[t].name => s = t
  BY <1>1 DEF TypeInv, SectionsTyped
<1>3. NullIsEmpty'
  <2> SUFFICES ASSUME NEW s \in DOMAIN sections, sections'[s].name = <<>>
               PROVE  /\ s = 1 /\ sections'[s].size = 0 /\ sections'[s].pos = 0
                      /\ stage' = "scan" /\ cur' = s /\ next' <= Len(src'.lines) => Line'.op \in {"section", "segment"}
    BY <1>1 DEF NullIsEmpty
  <2>1. sections[s].name = <<>>
    BY <1>1
  <2>2. /\ s = 1 /\ sections[s].size = 0 /\ sections[s].pos = 0
        /\ stage = "scan" /\ cur = s /\ next <= Len(src.lines) => Line.op \in {"section", "segment"}
    BY <2>1 DEF TypeInv, SectionsTyped, NullIsEmpty
  <2>3. sections'[s].size = 0 /\ sections'[s].pos = 0
    BY <2>1, <2>2 DEF Worked, Changed
  <2>4. ~(stage' = "scan" /\ cur' = s)
    BY <2>2
  <2> QED
    BY <2>2, <2>3, <2>4
<1>4. SectionsTyped'
  BY <1>1, <1>2, <1>3 DEF SectionsTyped
<1>5. fixups' = fixups => FixupsTyped'
  BY <1>1 DEF TypeInv, FixupsTyped
<1>6. rels' = rels => RelsTyped'
  BY <1>1 DEF TypeInv, RelsTyped
<1>7. cur' = cur => cur' \in {0} \cup DOMAIN sections'
  BY <1>1 DEF TypeInv
<1> QED
  BY <1>4, <1>5, <1>6, <1>7

\* The line that is scanned, and the section it is in.
LEMMA ScannedLine ==
  ASSUME TypeInv, stage = "scan", next <= Len(src.lines)
  PROVE  IsLine(Line)
<1>1. Len(src.lines) \in Nat /\ \A i \in 1..Len(src.lines) : IsLine(src.lines[i])
  BY SourceAssumption DEF TypeInv
<1>2. next \in 1..Len(src.lines)
  BY <1>1 DEF TypeInv
<1> QED
  BY <1>1, <1>2 DEF Line

LEMMA CurIs ==
  ASSUME TypeInv, stage = "scan", next <= Len(src.lines), Line.op \notin {"section", "segment"}, cur # 0
  PROVE  cur \in DOMAIN sections /\ IsSection(sections[cur]) /\ sections[cur].name # <<>>
<1>1. cur \in DOMAIN sections
  BY DEF TypeInv
<1> QED
  BY <1>1 DEF TypeInv, SectionsTyped, NullIsEmpty

-----------------------------------------------------------------------------
(* The types hold at the start and after every step.                       *)

LEMMA NoneIsSeq == IsSeq(<<>>) /\ DOMAIN <<>> = {}
  BY DEF IsSeq

LEMMA InitTyped ==
  ASSUME Init
  PROVE  TypeInv
<1>1. DOMAIN <<>> = {} /\ IsSeq(<<>>)
  BY NoneIsSeq
<1>2. SectionsTyped /\ LabelsTyped /\ FixupsTyped /\ RelsTyped /\ SegmentsTyped
  BY <1>1 DEF Init, SectionsTyped, LabelsTyped, FixupsTyped, RelsTyped, SegmentsTyped, NullIsEmpty
<1> QED
  BY <1>1, <1>2 DEF Init, TypeInv, Stages, Start, NothingPlaced

LEMMA ParseTyped ==
  ASSUME TypeInv, Parse
  PROVE  TypeInv'
<1> PICK f \in Again : Restart(f)
  BY DEF Parse
<1>1. DOMAIN <<>> = {} /\ IsSeq(<<>>)
  BY NoneIsSeq
<1>2. SectionsTyped' /\ LabelsTyped' /\ FixupsTyped' /\ RelsTyped' /\ SegmentsTyped'
  BY <1>1 DEF Restart, SectionsTyped, LabelsTyped, FixupsTyped, RelsTyped, SegmentsTyped, NullIsEmpty
<1>3. DOMAIN symtab' \subseteq Int
  BY DEF TypeInv, Parse
<1> QED
  BY <1>1, <1>2, <1>3 DEF Restart, TypeInv, Stages, Start, NothingPlaced

LEMMA StageAfter ==
  ASSUME TypeInv, stage \notin {"done", "failed"}, GoOn \/ (Stay /\ stage # "scan")
  PROVE  stage' \in Stages \ {"scan"} /\ next' \in Nat \ {0}
<1>1. CASE GoOn
  <2>1. stage \in Stages
    BY DEF TypeInv
  <2> QED
    BY <1>1, <2>1, GoesOn DEF Stages
<1>2. CASE Stay /\ stage # "scan"
  BY <1>2 DEF TypeInv, Stay
<1> QED
  BY <1>1, <1>2

LEMMA PassTyped ==
  ASSUME TypeInv, Worked, stage \notin {"done", "failed"}, GoOn \/ (Stay /\ stage # "scan"),
         UNCHANGED <<src, cur, insIndex, fixups, offLabels>>,
         LabelsTyped', RelsTyped', SegmentsTyped', DOMAIN symtab' \subseteq Int, EndTyped',
         stage # "layout" => end' = end
  PROVE  TypeInv'
<1>1. stage' \in Stages \ {"scan"} /\ next' \in Nat \ {0}
  BY StageAfter
<1>2. src' = src /\ cur' = cur /\ fixups' = fixups /\ offLabels' = offLabels /\ insIndex' = insIndex
  OBVIOUS
<1>3. SectionsTyped' /\ FixupsTyped' /\ cur' \in {0} \cup DOMAIN sections'
  BY <1>1, <1>2, WorkedTyped
<1>4. src' \in Sources \cup Again /\ insIndex' \in Nat /\ \A k \in DOMAIN offLabels' : IsSeq(offLabels'[k])
  BY <1>2 DEF TypeInv
<1>5. NothingPlaced'
  <2> SUFFICES ASSUME stage' \in Unplaced PROVE end' = Start /\ \A s \in DOMAIN sections' : sections'[s].pad = 0
    BY DEF NothingPlaced, Start
  <2>1. stage \in Unplaced
    <3>1. stage \in Stages
      BY DEF TypeInv
    <3> QED
      BY <3>1, GoesOn DEF Stages, Unplaced, Stay
  <2>2. stage # "layout"
    BY <2>1 DEF Unplaced
  <2> QED
    BY <2>1, <2>2 DEF TypeInv, NothingPlaced, Worked
<1> QED
  BY <1>1, <1>3, <1>4, <1>5 DEF TypeInv, EndTyped

LEMMA IdlePassTyped ==
  ASSUME TypeInv, stage \notin {"done", "failed"}, GoOn \/ (Stay /\ stage # "scan"),
         UNCHANGED <<src, cur, sections, scanned, rels, end>>, DOMAIN symtab' \subseteq Int
  PROVE  TypeInv'
<1>1. Worked
  BY UnchangedWorked
<1>2. LabelsTyped'
  BY DEF TypeInv, LabelsTyped, scanned
<1>3. RelsTyped'
  BY DEF TypeInv, RelsTyped
<1>4. SegmentsTyped'
  BY DEF TypeInv, SegmentsTyped, scanned
<1>5. EndTyped'
  BY DEF TypeInv, EndTyped
<1>6. UNCHANGED <<src, cur, insIndex, fixups, offLabels>>
  BY DEF scanned
<1> QED
  BY <1>1, <1>2, <1>3, <1>4, <1>5, <1>6, PassTyped

LEMMA FailTyped ==
  ASSUME TypeInv, Fail
  PROVE  TypeInv'
<1>1. /\ src' = src /\ next' = next /\ cur' = cur /\ sections' = sections /\ insIndex' = insIndex
      /\ labels' = labels /\ fixups' = fixups /\ segments' = segments /\ offLabels' = offLabels
      /\ symtab' = symtab /\ rels' = rels /\ end' = end /\ stage' = "failed"
  BY DEF Fail, scanned, tables, result
<1>2. Worked
  BY <1>1, UnchangedWorked
<1>3. SectionsTyped' /\ FixupsTyped' /\ RelsTyped' /\ cur' \in {0} \cup DOMAIN sections'
  BY <1>1, <1>2, WorkedTyped
<1>4. LabelsTyped' /\ SegmentsTyped'
  BY <1>1 DEF TypeInv, LabelsTyped, SegmentsTyped
<1>5. "failed" \in Stages
  BY DEF Stages
<1>6. /\ src' \in Sources \cup Again /\ next' \in Nat \ {0} /\ insIndex' \in Nat
      /\ \A k \in DOMAIN offLabels' : IsSeq(offLabels'[k])
      /\ DOMAIN symtab' \subseteq Int
      /\ DOMAIN end' = {"file", "mem"} /\ end'.file \in Nat /\ end'.mem \in Nat
      /\ stage' # "scan"
  BY <1>1 DEF TypeInv
<1>7. NothingPlaced'
  BY <1>1 DEF NothingPlaced, Unplaced
<1> QED
  BY <1>1, <1>3, <1>4, <1>5, <1>6, <1>7 DEF TypeInv

LEMMA StutterTyped ==
  ASSUME TypeInv, UNCHANGED vars
  PROVE  TypeInv'
<1>1. TypeInv' <=> TypeInv
  BY DEF TypeInv, vars, scanned, tables, result, SectionsTyped, LabelsTyped, FixupsTyped, RelsTyped, SegmentsTyped, NullIsEmpty, Line, NothingPlaced
<1> QED
  BY <1>1

-----------------------------------------------------------------------------
(* The scan.                                                               *)

LEMMA WorkedLen ==
  ASSUME TypeInv, Worked
  PROVE  Len(sections') = Len(sections) /\ Len(sections) \in Nat
<1>1. Len(sections) \in Nat /\ DOMAIN sections = 1..Len(sections)
  BY IsSeqDomain DEF TypeInv, SectionsTyped
<1>2. Len(sections') \in Nat /\ DOMAIN sections' = 1..Len(sections')
  BY IsSeqDomain DEF Worked
<1>3. 1..Len(sections) = 1..Len(sections')
  BY <1>1, <1>2 DEF Worked
<1>4. \A m, n \in Nat : 1..m = 1..n => m = n
  <2> SUFFICES ASSUME NEW m \in Nat, NEW n \in Nat, 1..m = 1..n PROVE m = n
    OBVIOUS
  <2>1. m \in 1..m \/ m = 0
    OBVIOUS
  <2>2. n \in 1..n \/ n = 0
    OBVIOUS
  <2>3. m <= n /\ n <= m
    BY <2>1, <2>2
  <2> QED
    BY <2>3
<1> QED
  BY <1>1, <1>2, <1>3, <1>4, Zenon

LEMMA ScanTyped ==
  ASSUME TypeInv, Worked, stage = "scan", next <= Len(src.lines), Line.op \notin {"section", "segment"}, Stay,
         UNCHANGED <<src, cur, segments, symtab, rels, end>>,
         insIndex' \in Nat, LabelsTyped', FixupsTyped', \A k \in DOMAIN offLabels' : IsSeq(offLabels'[k])
  PROVE  TypeInv'
<1>1. /\ src' = src /\ cur' = cur /\ segments' = segments /\ symtab' = symtab /\ rels' = rels /\ end' = end
      /\ stage' = stage /\ next' = next + 1
  BY DEF Stay
<1>2. SectionsTyped' /\ RelsTyped' /\ cur' \in {0} \cup DOMAIN sections'
  BY <1>1, WorkedTyped
<1>3. SegmentsTyped'
  BY <1>1 DEF TypeInv, SegmentsTyped
<1>4. /\ src' \in Sources \cup Again /\ stage' \in Stages /\ next' \in Nat \ {0}
      /\ DOMAIN symtab' \subseteq Int
      /\ DOMAIN end' = {"file", "mem"} /\ end'.file \in Nat /\ end'.mem \in Nat
  BY <1>1 DEF TypeInv
<1>5. Len(sections') = Len(sections) /\ Len(sections) \in Nat
  BY WorkedLen
<1>6. Len(sections') < next'
  BY <1>1, <1>5 DEF TypeInv
<1>7. NothingPlaced'
  BY <1>1 DEF TypeInv, NothingPlaced, Worked, Unplaced
<1> QED
  BY <1>2, <1>3, <1>4, <1>6, <1>7 DEF TypeInv

LEMMA SectionTyped ==
  ASSUME TypeInv, Section
  PROVE  TypeInv'
<1> DEFINE e == [name |-> Line.name, type |-> Line.type, regs |-> Line.regs, line |-> next, align |-> 0,
                 items |-> <<>>, attrs |-> <<>>, code |-> <<>>, entries |-> <<>>,
                 size |-> 0, pos |-> 0, at |-> 0, mem |-> 0, pad |-> 0]
           n == Len(sections) + 1
<1>1. /\ stage = "scan" /\ next <= Len(src.lines) /\ Line.op = "section" /\ ~HasSection(Line.name)
  BY DEF Section, Scanning, Accepted
<1>2. /\ sections' = Append(sections, e) /\ cur' = n
      /\ src' = src /\ labels' = labels /\ fixups' = fixups /\ segments' = segments /\ offLabels' = offLabels
      /\ symtab' = symtab /\ rels' = rels /\ end' = end /\ stage' = stage /\ next' = next + 1
      /\ insIndex' \in {0, insIndex}
  BY DEF Section, Stay, tables, result
<1>3. IsSeq(sections) /\ Len(sections) \in Nat /\ DOMAIN sections = 1..Len(sections)
  BY IsSeqDomain DEF TypeInv, SectionsTyped
<1>4. /\ IsSeq(sections') /\ DOMAIN sections' = DOMAIN sections \cup {n} /\ n \notin DOMAIN sections
      /\ \A k \in DOMAIN sections : sections'[k] = sections[k]
      /\ sections'[n] = e
  <2> HIDE DEF e
  <2> QED
    BY <1>2, <1>3, AppendIs
<1>5. IsLine(Line)
  BY <1>1, ScannedLine
<1>6. IsSection(e) /\ e.name = Line.name /\ e.size = 0 /\ e.pos = 0 /\ e.pad = 0
  <2>1. Line.name \in Seq(STRING)
    BY <1>1, <1>5 DEF IsLine
  <2>2. next \in Nat
    BY DEF TypeInv
  <2>3. HasNumbers(<<>>)
    BY DEF HasNumbers
  <2>4. 0 \in Alignments
    BY DEF Alignments
  <2> QED
    BY <2>1, <2>2, <2>3, <2>4 DEF IsSection, SectionFields
<1> HIDE DEF e
<1>7. \A s \in DOMAIN sections' : IsSection(sections'[s])
  BY <1>4, <1>6 DEF TypeInv, SectionsTyped
<1>8. \A s, t \in DOMAIN sections' : sections'[s].name = sections'[t].name => s = t
  BY <1>1, <1>4, <1>6 DEF HasSection, TypeInv, SectionsTyped
<1>9. NullIsEmpty'
  <2> SUFFICES ASSUME NEW s \in DOMAIN sections', sections'[s].name = <<>>
               PROVE  /\ s = 1 /\ sections'[s].size = 0 /\ sections'[s].pos = 0
                      /\ stage' = "scan" /\ cur' = s /\ next' <= Len(src'.lines) => Line'.op \in {"section", "segment"}
    BY DEF NullIsEmpty
  <2>1. CASE s = n
    <3>1. Line.name = <<>>
      BY <2>1, <1>4, <1>6
    <3>2. next \in Nat \ {0} /\ Len(src.lines) \in Nat /\ src \in Sources \cup Again
      BY SourceAssumption DEF TypeInv
    <3>3. next \in 1..Len(src.lines)
      BY <3>2, <1>1
    <3>4. next = 1 /\ (next < Len(src.lines) => src.lines[next + 1].op \in {"section", "segment"})
      BY <1>1, <3>1, <3>2, <3>3, SourceAssumption DEF Line
    <3>5. n = 1
      <4>1. Len(sections) < next
        BY <1>1 DEF TypeInv
      <4> QED
        BY <4>1, <3>4, <1>3
    <3>6. Line' = src.lines[next + 1]
      BY <1>2 DEF Line
    <3>7. next' <= Len(src'.lines) => Line'.op \in {"section", "segment"}
      BY <3>2, <3>4, <3>6, <1>2
    <3> QED
      BY <2>1, <3>5, <3>7, <1>4, <1>6
  <2>2. CASE s # n
    <3>1. s \in DOMAIN sections /\ sections'[s] = sections[s] /\ cur' # s
      BY <2>2, <1>2, <1>4
    <3> QED
      BY <3>1 DEF TypeInv, SectionsTyped, NullIsEmpty
  <2> QED
    BY <2>1, <2>2
<1>10. SectionsTyped'
  BY <1>4, <1>7, <1>8, <1>9 DEF SectionsTyped
<1>11. LabelsTyped' /\ SegmentsTyped'
  BY <1>2 DEF TypeInv, LabelsTyped, SegmentsTyped
<1>12. FixupsTyped' /\ RelsTyped'
  BY <1>2, <1>4 DEF TypeInv, FixupsTyped, RelsTyped
<1>13. cur' \in {0} \cup DOMAIN sections'
  BY <1>2, <1>4
<1>14. /\ src' \in Sources \cup Again /\ stage' \in Stages /\ next' \in Nat \ {0} /\ insIndex' \in Nat
       /\ \A k \in DOMAIN offLabels' : IsSeq(offLabels'[k])
       /\ DOMAIN symtab' \subseteq Int
       /\ DOMAIN end' = {"file", "mem"} /\ end'.file \in Nat /\ end'.mem \in Nat
  BY <1>2 DEF TypeInv
<1>15. Len(sections') < next'
  <2>1. Len(sections') = Len(sections) + 1
    <3> HIDE DEF n
    <3> QED
      BY <1>2, <1>3, AppendIs
  <2>2. Len(sections) < next /\ next \in Nat
    BY <1>1 DEF TypeInv
  <2> QED
    BY <2>1, <2>2, <1>2, <1>3
<1> HIDE DEF n
<1>16. NothingPlaced'
  BY <1>1, <1>2, <1>4, <1>6 DEF TypeInv, NothingPlaced, Unplaced
<1> QED
  BY <1>10, <1>11, <1>12, <1>13, <1>14, <1>15, <1>16 DEF TypeInv

\* One field of a section replaced.
LEMMA SetFields ==
  ASSUME NEW t, IsSection(t)
  PROVE  /\ \A a \in Alignments : LET e == [t EXCEPT !.align = a] IN
              Changed(t, e) /\ SamePlace(t, e)
         /\ \A f : HasNumbers(f) => LET e == [t EXCEPT !.items = f] IN
              Changed(t, e) /\ SamePlace(t, e) /\ e.pos = t.pos
         /\ \A p \in Nat : t.name # <<>> => LET e == [t EXCEPT !.pos = p] IN
              Changed(t, e) /\ SamePlace(t, e)
<1>1. DOMAIN t = SectionFields
  BY DEF IsSection
<1>2. ASSUME NEW a \in Alignments
      PROVE  LET e == [t EXCEPT !.align = a] IN Changed(t, e) /\ SamePlace(t, e)
  <2> DEFINE e == [t EXCEPT !.align = a]
  <2>1. DOMAIN e = SectionFields /\ e.align = a /\ \A x \in SectionFields \ {"align"} : e[x] = t[x]
    BY <1>1 DEF SectionFields
  <2> HIDE DEF e
  <2>2. /\ e.name = t.name /\ e.type = t.type /\ e.line = t.line /\ e.size = t.size /\ e.pos = t.pos
        /\ e.items = t.items /\ e.at = t.at /\ e.mem = t.mem /\ e.pad = t.pad
    BY <2>1 DEF SectionFields
  <2> QED
    BY <2>1, <2>2 DEF IsSection, Changed, SamePlace, e
<1>3. ASSUME NEW f, HasNumbers(f)
      PROVE  LET e == [t EXCEPT !.items = f] IN Changed(t, e) /\ SamePlace(t, e) /\ e.pos = t.pos
  <2> DEFINE e == [t EXCEPT !.items = f]
  <2>1. DOMAIN e = SectionFields /\ e.items = f /\ \A x \in SectionFields \ {"items"} : e[x] = t[x]
    BY <1>1 DEF SectionFields
  <2> HIDE DEF e
  <2>2. /\ e.name = t.name /\ e.type = t.type /\ e.line = t.line /\ e.size = t.size /\ e.pos = t.pos
        /\ e.align = t.align /\ e.at = t.at /\ e.mem = t.mem /\ e.pad = t.pad
    BY <2>1 DEF SectionFields
  <2> QED
    BY <2>1, <2>2, <1>3 DEF IsSection, Changed, SamePlace, e
<1>4. ASSUME NEW p \in Nat, t.name # <<>>
      PROVE  LET e == [t EXCEPT !.pos = p] IN Changed(t, e) /\ SamePlace(t, e)
  <2> DEFINE e == [t EXCEPT !.pos = p]
  <2>1. DOMAIN e = SectionFields /\ e.pos = p /\ \A x \in SectionFields \ {"pos"} : e[x] = t[x]
    BY <1>1 DEF SectionFields
  <2> HIDE DEF e
  <2>2. /\ e.name = t.name /\ e.type = t.type /\ e.line = t.line /\ e.size = t.size /\ e.items = t.items
        /\ e.align = t.align /\ e.at = t.at /\ e.mem = t.mem /\ e.pad = t.pad
    BY <2>1 DEF SectionFields
  <2> QED
    BY <2>1, <2>2, <1>4 DEF IsSection, Changed, SamePlace, e
<1> QED
  BY <1>2, <1>3, <1>4

LEMMA ChangedTwice ==
  ASSUME NEW t, NEW u, NEW e, Changed(t, u), SamePlace(t, u), Changed(u, e), SamePlace(u, e)
  PROVE  Changed(t, e) /\ SamePlace(t, e)
  BY DEF Changed, SamePlace

\* Bytes put into the section that is scanned, at its cursor or another place.
LEMMA EmitTwice ==
  ASSUME NEW t, NEW u, NEW n \in Nat, Changed(t, u), SamePlace(t, u), t.name # <<>>
  PROVE  Changed(t, Emit(u, n)) /\ SamePlace(t, Emit(u, n))
<1>1. IsSection(u) /\ u.name # <<>>
  BY DEF Changed
<1>2. Changed(u, Emit(u, n)) /\ SamePlace(u, Emit(u, n))
  BY <1>1, EmitType
<1> QED
  BY <1>2, ChangedTwice

LEMMA OffsetType == \A i \in Nat : Offset(i) \in Nat
<1> SUFFICES ASSUME NEW i \in Nat PROVE Offset(i) \in Nat
  OBVIOUS
<1>1. Six!Offset(i) \in Nat /\ Seven!Offset(i) \in Nat
  BY DEF Six!Offset, Seven!Offset
<1> QED
  BY <1>1 DEF Offset

LEMMA UnitType == Unit \in Nat
  BY DEF Unit, Six!Unit, Seven!Unit

\* The directives that put something into the section that is scanned.
LEMMA AlignTyped ==
  ASSUME TypeInv, Align
  PROVE  TypeInv'
<1> DEFINE t == sections[cur]
           e == IF t.pos # 0 THEN Emit(t, Aligned(t.pos, Line.n) - t.pos)
                ELSE IF t.align = 0 THEN [t EXCEPT !.align = Line.n] ELSE t
<1>1. stage = "scan" /\ next <= Len(src.lines) /\ Line.op = "align" /\ cur # 0
  BY DEF Align, Scanning, Accepted
<1>2. cur \in DOMAIN sections /\ IsSection(t) /\ t.name # <<>>
  BY <1>1, CurIs
<1>3. Line.n \in Alignments
  BY <1>1, ScannedLine DEF IsLine
<1>4. Aligned(t.pos, Line.n) - t.pos \in Nat
  <2>1. t.pos \in Nat
    BY <1>2 DEF IsSection
  <2>2. Aligned(t.pos, Line.n) \in Nat /\ Aligned(t.pos, Line.n) >= t.pos
    BY <2>1, <1>3, AlignedUp
  <2> QED
    BY <2>1, <2>2
<1>5. sections' = [sections EXCEPT ![cur] = e]
  BY DEF Align
<1>6. Changed(t, e) /\ SamePlace(t, e)
  <2> HIDE DEF t
  <2>1. Changed(t, Emit(t, Aligned(t.pos, Line.n) - t.pos)) /\ SamePlace(t, Emit(t, Aligned(t.pos, Line.n) - t.pos))
    BY <1>2, <1>4, EmitType
  <2>2. Changed(t, [t EXCEPT !.align = Line.n]) /\ SamePlace(t, [t EXCEPT !.align = Line.n])
    BY <1>2, <1>3, SetFields
  <2>3. Changed(t, t) /\ SamePlace(t, t)
    BY <1>2, ChangedSame
  <2> QED
    BY <2>1, <2>2, <2>3
<1> HIDE DEF e
<1>7. Worked
  BY <1>2, <1>5, <1>6, OneWorked
<1>8. /\ insIndex' \in Nat /\ LabelsTyped' /\ FixupsTyped' /\ \A k \in DOMAIN offLabels' : IsSeq(offLabels'[k])
  BY <1>7 DEF Align, scanned, TypeInv, LabelsTyped, FixupsTyped, Worked
<1>9. UNCHANGED <<src, cur, segments, symtab, rels, end>> /\ Stay
  BY DEF Align, scanned, tables, result
<1> QED
  BY <1>1, <1>7, <1>8, <1>9, ScanTyped

LEMMA ZeroTyped ==
  ASSUME TypeInv, Zero
  PROVE  TypeInv'
<1> DEFINE e == Emit(sections[cur], Line.n)
<1>1. stage = "scan" /\ next <= Len(src.lines) /\ Line.op = "zero" /\ cur # 0
  BY DEF Zero, Scanning, Accepted
<1>2. cur \in DOMAIN sections /\ IsSection(sections[cur]) /\ sections[cur].name # <<>>
  BY <1>1, CurIs
<1>3. Line.n \in Nat
  BY <1>1, ScannedLine DEF IsLine
<1>5. sections' = [sections EXCEPT ![cur] = e]
  BY DEF Zero
<1>6. Changed(sections[cur], e) /\ SamePlace(sections[cur], e)
  BY <1>2, <1>3, EmitType
<1> HIDE DEF e
<1>7. Worked
  BY <1>2, <1>5, <1>6, OneWorked
<1>8. /\ insIndex' \in Nat /\ LabelsTyped' /\ FixupsTyped' /\ \A k \in DOMAIN offLabels' : IsSeq(offLabels'[k])
  BY <1>7 DEF Zero, scanned, TypeInv, LabelsTyped, FixupsTyped, Worked
<1>9. UNCHANGED <<src, cur, segments, symtab, rels, end>> /\ Stay
  BY DEF Zero, scanned, tables, result
<1> QED
  BY <1>1, <1>7, <1>8, <1>9, ScanTyped

LEMMA CodeTyped ==
  ASSUME TypeInv, Code
  PROVE  TypeInv'
<1> DEFINE t == sections[cur]
           u == [t EXCEPT !.pos = Offset(insIndex)]
           e == Emit(u, Unit)
<1>1. stage = "scan" /\ next <= Len(src.lines) /\ Line.op = "code" /\ cur # 0
  BY DEF Code, Scanning, Accepted
<1>2. cur \in DOMAIN sections /\ IsSection(t) /\ t.name # <<>>
  BY <1>1, CurIs
<1>3. Offset(insIndex) \in Nat /\ Unit \in Nat
  BY OffsetType, UnitType DEF TypeInv
<1>5. sections' = [sections EXCEPT ![cur] = e]
  BY DEF Code
<1>6. Changed(t, e) /\ SamePlace(t, e)
  <2> HIDE DEF t
  <2>1. Changed(t, u) /\ SamePlace(t, u)
    BY <1>2, <1>3, SetFields
  <2> HIDE DEF u
  <2> QED
    BY <2>1, <1>2, <1>3, EmitTwice
<1> HIDE DEF e
<1>7. Worked
  BY <1>2, <1>5, <1>6, OneWorked
<1>8. /\ insIndex' \in Nat /\ LabelsTyped' /\ FixupsTyped' /\ \A k \in DOMAIN offLabels' : IsSeq(offLabels'[k])
  BY <1>7 DEF Code, TypeInv, LabelsTyped, FixupsTyped, Worked
<1>9. UNCHANGED <<src, cur, segments, symtab, rels, end>> /\ Stay
  BY DEF Code, tables, result
<1> QED
  BY <1>1, <1>7, <1>8, <1>9, ScanTyped

LEMMA PutNumbers ==
  ASSUME NEW items, HasNumbers(items), NEW d, NEW h, NEW n \in Int
  PROVE  HasNumbers(Put(items, d, [head |-> h, num |-> n]))
  BY DEF HasNumbers, Put

LEMMA DataTyped ==
  ASSUME TypeInv, Data
  PROVE  TypeInv'
<1> DEFINE t == sections[cur]
           u == [t EXCEPT !.items = Put(t.items, Pos, [head |-> Line.head, num |-> Line.n])]
           e == Emit(u, Line.len)
           f == [sec |-> cur, at |-> Pos, len |-> Line.len, form |-> Line.form, expr |-> Line.expr]
<1>1. stage = "scan" /\ next <= Len(src.lines) /\ Line.op = "data" /\ cur # 0
  BY DEF Data, Scanning, Accepted
<1>2. cur \in DOMAIN sections /\ IsSection(t) /\ t.name # <<>>
  BY <1>1, CurIs
<1>3. Line.len \in Nat /\ Line.n \in Int /\ IsExpr(Line.expr)
  BY <1>1, ScannedLine DEF IsLine
<1>5. sections' = [sections EXCEPT ![cur] = e]
  BY DEF Data
<1>6. Changed(t, e) /\ SamePlace(t, e)
  <2>1. HasNumbers(Put(t.items, Pos, [head |-> Line.head, num |-> Line.n]))
    <3>1. HasNumbers(t.items)
      BY <1>2 DEF IsSection
    <3> QED
      BY <3>1, <1>3, PutNumbers
  <2> HIDE DEF t
  <2>2. Changed(t, u) /\ SamePlace(t, u)
    BY <2>1, <1>2, SetFields
  <2> HIDE DEF u
  <2> QED
    BY <2>2, <1>2, <1>3, EmitTwice
<1> HIDE DEF e
<1>7. Worked
  BY <1>2, <1>5, <1>6, OneWorked
<1>8. insIndex' \in Nat /\ LabelsTyped' /\ \A k \in DOMAIN offLabels' : IsSeq(offLabels'[k])
  BY DEF Data, TypeInv, LabelsTyped
<1>9. UNCHANGED <<src, cur, segments, symtab, rels, end>> /\ Stay
  BY DEF Data, tables, result
<1>10. FixupsTyped'
  <2>1. FixupsTyped /\ IsSeq(fixups) /\ DOMAIN sections' = DOMAIN sections
    BY <1>7 DEF TypeInv, FixupsTyped, Worked
  <2>2. CASE fixups' = fixups
    BY <2>1, <2>2 DEF FixupsTyped
  <2>3. CASE fixups' = Append(fixups, f)
    <3>1. f.sec \in DOMAIN sections /\ IsExpr(f.expr)
      BY <1>2, <1>3
    <3> HIDE DEF f
    <3>2. /\ IsSeq(fixups') /\ DOMAIN fixups' = DOMAIN fixups \cup {Len(fixups) + 1}
          /\ \A k \in DOMAIN fixups : fixups'[k] = fixups[k]
          /\ fixups'[Len(fixups) + 1] = f
      BY <2>1, <2>3, AppendIs
    <3> QED
      BY <3>1, <3>2, <2>1 DEF FixupsTyped
  <2> QED
    BY <2>2, <2>3 DEF Data
<1> QED
  BY <1>1, <1>7, <1>8, <1>9, <1>10, ScanTyped

LEMMA PosType ==
  ASSUME TypeInv, cur # 0
  PROVE  Pos \in Nat /\ LabelPos \in Nat
<1>1. cur \in DOMAIN sections /\ insIndex \in Nat
  BY DEF TypeInv
<1>2. Pos \in Nat
  BY <1>1 DEF TypeInv, SectionsTyped, IsSection, Pos
<1>3. Offset(insIndex) \in Nat
  BY <1>1, OffsetType
<1> QED
  BY <1>2, <1>3 DEF LabelPos

LEMMA LabelAdded ==
  ASSUME TypeInv, cur # 0, NEW name, labels' = Append(labels, [name |-> name, sec |-> cur, at |-> LabelPos])
  PROVE  LabelsTyped'
<1> DEFINE e == [name |-> name, sec |-> cur, at |-> LabelPos]
<1>1. DOMAIN e = {"name", "sec", "at"} /\ e.at \in Int
  BY PosType
<1> HIDE DEF e
<1>2. /\ DOMAIN labels' = DOMAIN labels \cup {Len(labels) + 1}
      /\ \A k \in DOMAIN labels : labels'[k] = labels[k]
      /\ labels'[Len(labels) + 1] = e
      /\ IsSeq(labels')
  BY AppendIs DEF e, TypeInv, LabelsTyped
<1> QED
  BY <1>1, <1>2 DEF TypeInv, LabelsTyped

LEMMA LabelTyped ==
  ASSUME TypeInv, Label
  PROVE  TypeInv'
<1>1. stage = "scan" /\ next <= Len(src.lines) /\ Line.op = "label" /\ cur # 0
  BY DEF Label, Scanning, Accepted
<1>2. Worked
  BY UnchangedWorked DEF Label
<1>3. LabelsTyped'
  BY <1>1, LabelAdded DEF Label
<1>4. insIndex' \in Nat /\ FixupsTyped' /\ \A k \in DOMAIN offLabels' : IsSeq(offLabels'[k])
  BY DEF Label, TypeInv, FixupsTyped
<1>5. UNCHANGED <<src, cur, segments, symtab, rels, end>> /\ Stay
  BY DEF Label, tables, result
<1> QED
  BY <1>1, <1>2, <1>3, <1>4, <1>5, ScanTyped

LEMMA OffsetLabelTyped ==
  ASSUME TypeInv, OffsetLabel
  PROVE  TypeInv'
<1> DEFINE key == <<Line.kernel, Line.attr>>
           old == IF key \in DOMAIN offLabels THEN offLabels[key] ELSE <<>>
<1>1. stage = "scan" /\ next <= Len(src.lines) /\ Line.op = "offset" /\ cur # 0
  BY DEF OffsetLabel, Scanning, Accepted
<1>2. Worked
  BY UnchangedWorked DEF OffsetLabel
<1>3. LabelsTyped'
  BY <1>1, LabelAdded DEF OffsetLabel
<1>4. insIndex' \in Nat /\ FixupsTyped'
  BY DEF OffsetLabel, TypeInv, FixupsTyped
<1>5. UNCHANGED <<src, cur, segments, symtab, rels, end>> /\ Stay
  BY DEF OffsetLabel, tables, result
<1>6. \A k \in DOMAIN offLabels' : IsSeq(offLabels'[k])
  <2>1. offLabels' = Put(offLabels, key, Append(old, LabelPos))
    BY DEF OffsetLabel
  <2>2. IsSeq(old)
    BY NoneIsSeq DEF TypeInv
  <2> HIDE DEF old, key
  <2>3. IsSeq(Append(old, LabelPos))
    BY <2>2, AppendIs
  <2> QED
    BY <2>1, <2>3 DEF Put, TypeInv
<1> QED
  BY <1>1, <1>2, <1>3, <1>4, <1>5, <1>6, ScanTyped

LEMMA SizeTyped ==
  ASSUME TypeInv, Size
  PROVE  TypeInv'
<1>1. stage = "scan" /\ next <= Len(src.lines) /\ Line.op = "size"
  BY DEF Size, Scanning
<1>2. Worked
  BY UnchangedWorked DEF Size
<1>3. insIndex' \in Nat /\ LabelsTyped' /\ FixupsTyped' /\ \A k \in DOMAIN offLabels' : IsSeq(offLabels'[k])
  BY DEF Size, TypeInv, LabelsTyped, FixupsTyped
<1>4. UNCHANGED <<src, cur, segments, symtab, rels, end>> /\ Stay
  BY DEF Size, tables, result
<1> QED
  BY <1>1, <1>2, <1>3, <1>4, ScanTyped

LEMMA SegmentTyped ==
  ASSUME TypeInv, Segment
  PROVE  TypeInv'
<1> DEFINE g == [type |-> Line.type, first |-> Line.first, last |-> Line.last, at |-> 0, filesz |-> 0, memsz |-> 0]
<1>1. stage = "scan"
  BY DEF Segment, Scanning
<1>2. /\ src' = src /\ cur' = 0 /\ insIndex' = insIndex /\ sections' = sections /\ labels' = labels
      /\ fixups' = fixups /\ offLabels' = offLabels /\ symtab' = symtab /\ rels' = rels /\ end' = end
      /\ stage' = stage /\ next' = next + 1 /\ segments' = Append(segments, g)
  BY DEF Segment, Stay, tables, result
<1>3. DOMAIN g = {"type", "first", "last", "at", "filesz", "memsz"}
  OBVIOUS
<1> HIDE DEF g
<1>4. SegmentsTyped'
  BY <1>2, AppendIs, <1>3 DEF TypeInv, SegmentsTyped
<1>5. NullIsEmpty'
  <2>1. 0 \notin DOMAIN sections
    BY IsSeqDomain DEF TypeInv, SectionsTyped
  <2> QED
    BY <2>1, <1>2 DEF TypeInv, SectionsTyped, NullIsEmpty
<1>6. SectionsTyped'
  BY <1>2, <1>5 DEF TypeInv, SectionsTyped
<1>7. LabelsTyped' /\ FixupsTyped' /\ RelsTyped'
  BY <1>2 DEF TypeInv, LabelsTyped, FixupsTyped, RelsTyped
<1>8. Len(sections') < next'
  <2>1. Len(sections) \in Nat
    BY IsSeqDomain DEF TypeInv, SectionsTyped
  <2> QED
    BY <2>1, <1>1, <1>2 DEF TypeInv
<1>9. /\ src' \in Sources \cup Again /\ stage' \in Stages /\ next' \in Nat \ {0} /\ insIndex' \in Nat
      /\ cur' \in {0} \cup DOMAIN sections'
      /\ \A k \in DOMAIN offLabels' : IsSeq(offLabels'[k])
      /\ DOMAIN symtab' \subseteq Int
      /\ DOMAIN end' = {"file", "mem"} /\ end'.file \in Nat /\ end'.mem \in Nat
  BY <1>2 DEF TypeInv
<1>10. NothingPlaced'
  BY <1>1, <1>2 DEF TypeInv, NothingPlaced, Unplaced
<1> QED
  BY <1>4, <1>6, <1>7, <1>8, <1>9, <1>10 DEF TypeInv

LEMMA ScanEndTyped ==
  ASSUME TypeInv, ScanEnd
  PROVE  TypeInv'
<1>1. /\ stage = "scan" /\ GoOn /\ UNCHANGED <<src, cur, sections, scanned, rels, end>> /\ symtab' = symtab
  BY DEF ScanEnd, tables, result
<1>2. DOMAIN symtab' \subseteq Int
  BY <1>1 DEF TypeInv
<1> QED
  BY <1>1, <1>2, IdlePassTyped

-----------------------------------------------------------------------------
(* The tables, the fixups and the kernels.                                 *)

LEMMA GatherTyped ==
  ASSUME TypeInv, Gather
  PROVE  TypeInv'
<1>1. /\ stage = "gather" /\ GoOn /\ UNCHANGED <<src, cur, sections, scanned, rels, end>> /\ symtab' = symtab
  BY DEF Gather, result
<1>2. DOMAIN symtab' \subseteq Int
  BY <1>1 DEF TypeInv
<1> QED
  BY <1>1, <1>2, IdlePassTyped

LEMMA BuildTablesTyped ==
  ASSUME TypeInv, BuildTables
  PROVE  TypeInv'
<1>1. /\ stage = "tables" /\ GoOn /\ UNCHANGED <<src, cur, sections, scanned, rels, end>>
      /\ DOMAIN symtab' = DOMAIN SymtabNames
  BY DEF BuildTables, result
<1>2. DOMAIN symtab' \subseteq Int
  BY <1>1 DEF SymtabNames
<1> QED
  BY <1>1, <1>2, IdlePassTyped

\* What an expression comes to is a number.
LEMMA ValueType ==
  ASSUME TypeInv, NEW e, IsExpr(e)
  PROVE  Addend(e) \in Int /\ Value(e) \in Int
<1>1. ASSUME NEW name PROVE VarValue(name) \in Int
  <2>1. CASE HasLabel(name)
    <3>1. LabelAt(name).at \in Int
      BY <2>1 DEF HasLabel, LabelAt, TypeInv, LabelsTyped
    <3> QED
      BY <2>1, <3>1 DEF VarValue
  <2>2. CASE ~HasLabel(name)
    BY <2>2 DEF VarValue
  <2> QED
    BY <2>1, <2>2
<1>2. Second(e) \in Int
  BY <1>1 DEF Second, IsExpr
<1>3. Addend(e) = 0 \/ Addend(e) = Second(e) \/ Addend(e) = -Second(e)
  BY Zenon DEF Addend, IsExpr
<1>4. Addend(e) \in Int
  BY <1>2, <1>3
<1> QED
  BY <1>1, <1>4 DEF Value

LEMMA SymIdxType ==
  ASSUME TypeInv, NEW name
  PROVE  SymIdx(name) \in Int
<1>1. CASE IsSym(name)
  <2>1. PICK k \in DOMAIN symtab : k = CHOOSE j \in DOMAIN symtab : symtab[j].name = name
    BY <1>1 DEF IsSym
  <2>2. k \in Int /\ SymIdx(name) = k - 1
    BY <1>1, <2>1 DEF SymIdx, TypeInv
  <2> QED
    BY <2>2
<1>2. CASE ~IsSym(name)
  BY <1>2 DEF SymIdx
<1> QED
  BY <1>1, <1>2

LEMMA WrittenType ==
  ASSUME TypeInv, NEW f, IsExpr(f.expr)
  PROVE  Written(f) \in Int
<1>1. SymIdx(f.expr.a) \in Int /\ Addend(f.expr) \in Int /\ Value(f.expr) \in Int
  BY SymIdxType, ValueType
<1>2. Written(f) \in {SymIdx(f.expr.a), Addend(f.expr), Value(f.expr)}
  <2>1. CASE f.form = "index"
    BY <2>1 DEF Written
  <2>2. CASE f.form # "index" /\ Symbolic(f)
    BY <2>2 DEF Written
  <2>3. CASE f.form # "index" /\ ~Symbolic(f)
    BY <2>3 DEF Written
  <2> QED
    BY <2>1, <2>2, <2>3
<1> QED
  BY <1>1, <1>2

\* A number written in its place.
LEMMA NumberWritten ==
  ASSUME NEW t, IsSection(t), NEW d, NEW v \in Int
  PROVE  LET e == [t EXCEPT !.items[d].num = v] IN Changed(t, e) /\ SamePlace(t, e)
<1> DEFINE i == [t.items EXCEPT ![d].num = v]
           e == [t EXCEPT !.items[d].num = v]
           u == [t EXCEPT !.items = i]
<1>1. HasNumbers(i)
  <2>1. HasNumbers(t.items)
    BY DEF IsSection
  <2> QED
    BY <2>1 DEF HasNumbers
<1>2. e = u
  OBVIOUS
<1> HIDE DEF i, e
<1>3. Changed(t, u) /\ SamePlace(t, u)
  BY <1>1, SetFields
<1> HIDE DEF u
<1>4. Changed(t, e) /\ SamePlace(t, e)
  BY <1>2, <1>3
<1> QED
  BY <1>4 DEF e

LEMMA FixupIn ==
  ASSUME TypeInv, EvalFixup
  PROVE  fixups[next].sec \in DOMAIN sections /\ IsExpr(fixups[next].expr)
<1>1. IsSeq(fixups) /\ next \in Nat \ {0} /\ next <= Len(fixups)
  BY DEF TypeInv, FixupsTyped, EvalFixup
<1>2. next \in DOMAIN fixups
  BY <1>1, IsSeqDomain
<1> QED
  BY <1>2, Zenon DEF TypeInv, FixupsTyped

LEMMA FixupDoes ==
  ASSUME EvalFixup, NEW f, f = fixups[next]
  PROVE  \/ sections' = sections
         \/ sections' = [sections EXCEPT ![f.sec] = [sections[f.sec] EXCEPT !.items[f.at].num = Written(f)]]
  BY Zenon DEF EvalFixup

LEMMA FixupWorked ==
  ASSUME TypeInv, EvalFixup
  PROVE  Worked
<1>1. PICK f : f = fixups[next] /\ f.sec \in DOMAIN sections /\ IsExpr(f.expr)
  BY FixupIn, Zenon
<1>2. PICK e : /\ e = [sections[f.sec] EXCEPT !.items[f.at].num = Written(f)]
               /\ sections' = sections \/ sections' = [sections EXCEPT ![f.sec] = e]
  BY <1>1, FixupDoes
<1>3. PICK s, v : s = sections[f.sec] /\ v = Written(f)
  OBVIOUS
<1>4. IsSection(s) /\ v \in Int /\ e = [s EXCEPT !.items[f.at].num = v]
  <2>1. IsSection(s)
    BY <1>1, <1>3 DEF TypeInv, SectionsTyped
  <2>2. v \in Int
    BY <1>1, <1>3, WrittenType
  <2> QED
    BY <2>1, <2>2, <1>2, <1>3
<1>5. Changed(s, e) /\ SamePlace(s, e)
  BY <1>4, NumberWritten
<1>6. CASE sections' = sections
  BY <1>6, UnchangedWorked
<1>7. CASE sections' = [sections EXCEPT ![f.sec] = e]
  BY <1>3, <1>5, <1>7, <1>1, OneWorked
<1> QED
  BY <1>2, <1>6, <1>7

LEMMA EvalFixupTyped ==
  ASSUME TypeInv, EvalFixup
  PROVE  TypeInv'
<1>1. stage = "fixups"
  BY Zenon DEF EvalFixup
<1>2. fixups[next].sec \in DOMAIN sections
  BY FixupIn
<1> DEFINE f == fixups[next]
           r == Rel(f.sec, f.at, f.expr.a, RelType(f))
<1>9. f.sec \in DOMAIN sections
  BY <1>2
<1>3. rels' = rels \/ rels' = Append(rels, r)
  BY DEF EvalFixup
<1>4. /\ Stay /\ UNCHANGED <<src, cur, insIndex, fixups, offLabels>>
      /\ labels' = labels /\ segments' = segments /\ symtab' = symtab /\ end' = end
  BY DEF EvalFixup, scanned, tables, result
<1>5. r.sec = f.sec
  BY DEF Rel
<1> HIDE DEF f, r
<1>6. Worked
  BY FixupWorked
<1>7. RelsTyped'
  <2>1. IsSeq(rels) /\ (\A k \in DOMAIN rels : rels[k].sec \in DOMAIN sections) /\ DOMAIN sections' = DOMAIN sections
    BY <1>6 DEF TypeInv, RelsTyped, Worked
  <2>2. CASE rels' = rels
    BY <2>1, <2>2 DEF RelsTyped
  <2>3. CASE rels' = Append(rels, r)
    BY <2>1, <2>3, AppendIs, <1>9, <1>5 DEF RelsTyped
  <2> QED
    BY <2>2, <2>3, <1>3
<1>8. LabelsTyped' /\ SegmentsTyped' /\ DOMAIN symtab' \subseteq Int /\ EndTyped'
  BY <1>4 DEF TypeInv, LabelsTyped, SegmentsTyped, EndTyped
<1> QED
  BY <1>1, <1>4, <1>6, <1>7, <1>8, PassTyped

LEMMA FixupsEndTyped ==
  ASSUME TypeInv, FixupsEnd \/ SkipSection \/ KernelsEnd \/ SkipNull \/ LayoutEnd
  PROVE  TypeInv'
<1>1. /\ stage \in {"fixups", "kernels", "layout"} /\ (GoOn \/ Stay)
      /\ UNCHANGED <<src, cur, sections, scanned, rels, end>> /\ symtab' = symtab
  BY DEF FixupsEnd, SkipSection, KernelsEnd, SkipNull, LayoutEnd, tables, result
<1>2. DOMAIN symtab' \subseteq Int
  BY <1>1 DEF TypeInv
<1> QED
  BY <1>1, <1>2, IdlePassTyped

\* A new list of attributes instead of what was put.
LEMMA SetAttrsType ==
  ASSUME TypeInv, NEW t \in DOMAIN sections, sections[t].name # <<>>, NEW attrs, IsAttrs(attrs)
  PROVE  Changed(sections[t], SetAttrs(t, attrs)) /\ SamePlace(sections[t], SetAttrs(t, attrs))
<1> DEFINE s == sections[t]
           e == SetAttrs(t, attrs)
<1>1. IsSection(s)
  BY DEF TypeInv, SectionsTyped
<1>2. AttrsSize(attrs) \in Nat
  BY AttrsSizeType
<1>3. /\ DOMAIN e = SectionFields /\ e.items = <<>> /\ e.size = AttrsSize(attrs) /\ e.pos = 0
      /\ \A x \in SectionFields \ {"attrs", "items", "size", "pos"} : e[x] = s[x]
  BY <1>1 DEF IsSection, SetAttrs, SectionFields
<1> HIDE DEF e, s
<1>4. /\ e.name = s.name /\ e.type = s.type /\ e.line = s.line /\ e.align = s.align
      /\ e.at = s.at /\ e.mem = s.mem /\ e.pad = s.pad
  BY <1>3 DEF SectionFields
<1>5. HasNumbers(e.items)
  BY <1>3 DEF HasNumbers
<1>6. IsSection(e)
  BY <1>1, <1>2, <1>3, <1>4, <1>5 DEF IsSection
<1>7. Changed(s, e) /\ SamePlace(s, e)
  BY <1>4, <1>6 DEF Changed, SamePlace, s
<1> QED
  BY <1>7 DEF e, s

\* The section of a name.
LEMMA SectionIs ==
  ASSUME NEW name, HasSection(name)
  PROVE  SectionOf(name) \in DOMAIN sections /\ sections[SectionOf(name)].name = name
  BY DEF HasSection, SectionOf

LEMMA DecodedAttrs ==
  ASSUME TypeInv, NEW t \in DOMAIN sections
  PROVE  IsAttrs(AttrsOf(t))
<1>1. HasNumbers(sections[t].items) /\ sections[t].size \in Nat
  BY DEF TypeInv, SectionsTyped, IsSection
<1> QED
  BY <1>1, DecodeType DEF AttrsOf

LEMMA CodeLinesType ==
  ASSUME TypeInv, NEW s \in DOMAIN sections
  PROVE  IsSeq(CodeLines(s))
<1> DEFINE T == {i \in LinesOf(s) : src.lines[i].op = "code"}
           first == sections[s].line
           last == IF s = Len(sections) THEN Len(src.lines) ELSE sections[s + 1].line - 1
<1>1. Len(sections) \in Nat /\ DOMAIN sections = 1..Len(sections) /\ \A t \in DOMAIN sections : sections[t].line \in Nat
  BY IsSeqDomain DEF TypeInv, SectionsTyped, IsSection
<1>2. Len(src.lines) \in Nat
  BY SourceAssumption DEF TypeInv
<1>3. first \in Nat
  BY <1>1
<1>4. last \in Int
  <2>1. CASE s = Len(sections)
    BY <2>1, <1>2
  <2>2. CASE s # Len(sections)
    <3>1. s + 1 \in DOMAIN sections
      BY <2>2, <1>1
    <3> QED
      BY <3>1, <2>2, <1>1
  <2> QED
    BY <2>1, <2>2
<1>5. LinesOf(s) = first..last
  BY DEF LinesOf
<1> HIDE DEF first, last
<1>6. IsFiniteSet(LinesOf(s)) /\ LinesOf(s) \in SUBSET Nat
  BY <1>3, <1>4, <1>5, FS_Interval
<1>7. T \in SUBSET Nat /\ IsFiniteSet(T)
  BY <1>6, FS_Subset
<1> DEFINE S == {src.lines[i] : i \in T}
<1>8. CodeLines(s) = ElementsAt(src.lines, T)
  BY DEF CodeLines
<1> HIDE DEF T
<1>9. CodeLines(s) \in Seq(S)
  BY <1>7, <1>8, ElementsAtType
<1> HIDE DEF S
<1> QED
  BY <1>9, SeqIsSeq

\* The attributes a kernel asks for are lists.
LEMMA WantedType ==
  ASSUME TypeInv, NEW s, NEW lines, IsSeq(lines)
  PROVE  \A a \in DOMAIN Wanted(s, lines) : IsFiniteSet(DOMAIN Wanted(s, lines)[a])
<1> DEFINE ops == [k \in DOMAIN lines |-> lines[k].ins]
           at == [k \in DOMAIN lines |-> Offset(k - 1)]
           extra == ExtraInfo(ops, at)
           key(a) == <<sections[s].name[2], a>>
           labelled == {a \in DOMAIN Format : key(a) \in DOMAIN offLabels}
<1>1. DOMAIN ops = DOMAIN lines /\ IsFiniteSet(DOMAIN lines) /\ DOMAIN lines \subseteq Nat
  BY IsSeqDomain
<1> HIDE DEF ops, at
<1>2. \A a \in DOMAIN extra : IsFiniteSet(DOMAIN extra[a])
  BY <1>1, ExtraInfoType
<1>3. \A a \in labelled : IsFiniteSet(DOMAIN offLabels[key(a)])
  BY IsSeqDomain DEF TypeInv
<1>4. Wanted(s, lines) = [a \in DOMAIN extra \cup labelled |-> IF a \in DOMAIN extra THEN extra[a] ELSE offLabels[key(a)]]
  BY DEF Wanted, ops, at
<1> HIDE DEF extra, labelled, key
<1> QED
  BY <1>2, <1>3, <1>4

\* The relocations of a kernel are its own.
LEMMA RefRelsType ==
  ASSUME NEW s, NEW lines, IsSeq(lines)
  PROVE  IsSeq(RefRels(s, lines)) /\ \A k \in DOMAIN RefRels(s, lines) : RefRels(s, lines)[k].sec = s
<1> DEFINE T == {k \in DOMAIN lines : lines[k].ref # "none" /\ ~Local(s, lines[k])}
           at == InOrder(T)
           r(k) == RefRel(s, lines[at[k]], Offset(at[k] - 1))
<1>1. T \in SUBSET Nat /\ IsFiniteSet(T)
  BY IsSeqDomain, FS_Subset
<1>2. RefRels(s, lines) = [k \in DOMAIN at |-> r(k)]
  BY DEF RefRels
<1>3. \A l, o : RefRel(s, l, o).sec = s
  BY DEF RefRel, Rel, Rela
<1>4. \A k : r(k).sec = s
  BY <1>3
<1> HIDE DEF T, r
<1>5. Cardinality(T) \in Nat /\ DOMAIN at = 1..Cardinality(T)
  BY <1>1, InOrderIn
<1> DEFINE S == {r(k) : k \in 1..Cardinality(T)}
<1>6. RefRels(s, lines) \in Seq(S)
  BY <1>2, <1>5
<1> HIDE DEF S
<1>7. IsSeq(RefRels(s, lines))
  BY <1>6, SeqIsSeq
<1> QED
  BY <1>2, <1>4, <1>7

LEMMA ConcatIs ==
  ASSUME NEW r, IsSeq(r), NEW q, IsSeq(q), NEW S,
         \A k \in DOMAIN r : r[k].sec \in S, \A k \in DOMAIN q : q[k].sec \in S
  PROVE  IsSeq(r \o q) /\ \A k \in DOMAIN (r \o q) : (r \o q)[k].sec \in S
<1> DEFINE A == {r[k] : k \in DOMAIN r}
           B == {q[k] : k \in DOMAIN q}
           c == r \o q
<1>1. r \in Seq(A) /\ q \in Seq(B)
  BY DEF IsSeq
<1>2. \A x \in A \cup B : x.sec \in S
  OBVIOUS
<1> HIDE DEF A, B
<1>3. r \in Seq(A \cup B) /\ q \in Seq(A \cup B)
  BY <1>1, SeqMonotonic
<1>4. c \in Seq(A \cup B)
  BY <1>3, ConcatProperties
<1> HIDE DEF c
<1>5. \A k \in DOMAIN c : c[k] \in A \cup B
  BY <1>4, LenProperties
<1>6. IsSeq(c)
  BY <1>4, SeqIsSeq
<1>7. \A k \in DOMAIN c : c[k].sec \in S
  BY <1>2, <1>5
<1> QED
  BY <1>6, <1>7 DEF c

\* Two sections replaced.
LEMMA TwoWorked ==
  ASSUME TypeInv, NEW s \in DOMAIN sections, NEW e, Changed(sections[s], e),
         NEW t \in DOMAIN sections, NEW f, Changed(sections[t], f),
         stage # "layout" => e.pad = sections[s].pad /\ f.pad = sections[t].pad,
         sections' = [sections EXCEPT ![s] = e, ![t] = f]
  PROVE  Worked
<1>1. IsSeq(sections) /\ \A u \in DOMAIN sections : IsSection(sections[u])
  BY DEF TypeInv, SectionsTyped
<1>2. sections' = [u \in DOMAIN sections |-> sections'[u]]
  OBVIOUS
<1>3. IsSeq(sections') /\ DOMAIN sections' = DOMAIN sections
  BY <1>1, <1>2, SameDomain
<1>4. ASSUME NEW u \in DOMAIN sections PROVE Changed(sections[u], sections'[u])
  BY <1>1, ChangedSame
<1>5. ASSUME stage # "layout", NEW u \in DOMAIN sections PROVE sections'[u].pad = sections[u].pad
  BY <1>5
<1> QED
  BY <1>3, <1>4, <1>5 DEF Worked

LEMMA CodeSizeType == \A n \in Nat : CodeSize(n) \in Nat
<1> SUFFICES ASSUME NEW n \in Nat PROVE CodeSize(n) \in Nat
  OBVIOUS
<1>1. Six!CodeSize(n) \in Nat /\ Seven!CodeSize(n) \in Nat
  BY DEF Six!CodeSize, Seven!CodeSize
<1> QED
  BY <1>1 DEF CodeSize

LEMMA KernelWorked ==
  ASSUME TypeInv, ParseKernel
  PROVE  Worked
<1> DEFINE s == next
           t == SectionOf(InfoOf(s))
           lines == CodeLines(s)
           code == [k \in DOMAIN lines |->
                     [ins |-> lines[k].ins, operand |-> Operand(s, lines[k]), code |-> CC!Encode(lines[k].ctrl),
                      desc |-> lines[k].desc, bit |-> lines[k].desc # NoDesc]]
           u == [sections[s] EXCEPT !.code = code, !.pos = 0]
           e == Emit(u, CodeSize(Len(lines)))
           attrs == Update(src.grouped, AttrsOf(t), Wanted(s, lines))
           f == SetAttrs(t, attrs)
<1>1. /\ stage = "kernels" /\ next <= Len(sections) /\ IsText(sections[s].name) /\ HasSection(InfoOf(s))
  BY DEF ParseKernel, KernelGood
<1>2. s \in DOMAIN sections
  <2>1. IsSeq(sections) /\ next \in Nat \ {0}
    BY DEF TypeInv, SectionsTyped
  <2> QED
    BY <2>1, <1>1, IsSeqDomain
<1>3. sections' = [sections EXCEPT ![s] = e, ![t] = f] /\ rels' = rels \o RefRels(s, lines)
  BY DEF ParseKernel, Assemble
<1>4. t \in DOMAIN sections /\ sections[t].name # <<>>
  <2>1. t \in DOMAIN sections /\ sections[t].name = InfoOf(s)
    BY <1>1, SectionIs
  <2>2. InfoOf(s) # <<>>
    BY DEF InfoOf
  <2> QED
    BY <2>1, <2>2
<1> HIDE DEF t
<1>5. IsSeq(lines) /\ Len(lines) \in Nat
  BY <1>2, CodeLinesType, IsSeqDomain
<1>6. Changed(sections[t], f) /\ f.pad = sections[t].pad
  <2>1. IsAttrs(AttrsOf(t))
    BY <1>4, DecodedAttrs
  <2>2. \A a \in DOMAIN Wanted(s, lines) : IsFiniteSet(DOMAIN Wanted(s, lines)[a])
    BY <1>5, WantedType
  <2>3. IsAttrs(attrs)
    BY <2>1, <2>2, UpdateType
  <2> HIDE DEF attrs
  <2> QED
    BY <2>3, <1>4, SetAttrsType DEF SamePlace
<1>7. Changed(sections[s], e) /\ e.pad = sections[s].pad
  <2> DEFINE w == sections[s]
  <2>1. IsSection(w) /\ w.name # <<>>
    BY <1>1, <1>2 DEF TypeInv, SectionsTyped, IsText
  <2>2. CodeSize(Len(lines)) \in Nat
    BY <1>5, CodeSizeType
  <2> HIDE DEF w, code
  <2>3. u = [w EXCEPT !.code = code, !.pos = 0]
    BY DEF w
  <2>4. /\ DOMAIN u = SectionFields /\ u.pos = 0
        /\ \A x \in SectionFields \ {"code", "pos"} : u[x] = w[x]
    BY <2>1, <2>3 DEF IsSection, SectionFields
  <2> HIDE DEF u
  <2>5. /\ u.name = w.name /\ u.type = w.type /\ u.line = w.line /\ u.size = w.size /\ u.items = w.items
        /\ u.align = w.align /\ u.at = w.at /\ u.mem = w.mem /\ u.pad = w.pad
    BY <2>4 DEF SectionFields
  <2>6. IsSection(u)
    BY <2>1, <2>4, <2>5 DEF IsSection
  <2>7. Changed(w, u) /\ SamePlace(w, u)
    BY <2>1, <2>5, <2>6 DEF Changed, SamePlace
  <2>8. Changed(w, e) /\ e.pad = w.pad
    BY <2>1, <2>2, <2>7, EmitTwice DEF SamePlace
  <2> QED
    BY <2>8 DEF w
<1> HIDE DEF e, f
<1> QED
  BY <1>2, <1>3, <1>4, <1>6, <1>7, TwoWorked

LEMMA ParseKernelTyped ==
  ASSUME TypeInv, ParseKernel
  PROVE  TypeInv'
<1> DEFINE s == next
           lines == CodeLines(s)
<1>1. stage = "kernels" /\ next <= Len(sections) /\ rels' = rels \o RefRels(s, lines)
  BY DEF ParseKernel, Assemble
<1>2. s \in DOMAIN sections
  <2>1. IsSeq(sections) /\ next \in Nat \ {0}
    BY DEF TypeInv, SectionsTyped
  <2> QED
    BY <2>1, <1>1, IsSeqDomain
<1>3. Worked
  BY KernelWorked
<1>4. RelsTyped'
  <2>1. IsSeq(rels) /\ (\A k \in DOMAIN rels : rels[k].sec \in DOMAIN sections) /\ DOMAIN sections' = DOMAIN sections
    BY <1>3 DEF TypeInv, RelsTyped, Worked
  <2>2. IsSeq(RefRels(s, lines)) /\ \A k \in DOMAIN RefRels(s, lines) : RefRels(s, lines)[k].sec \in DOMAIN sections
    BY <1>2, RefRelsType, CodeLinesType
  <2> HIDE DEF lines, s
  <2>3. IsSeq(rels') /\ \A k \in DOMAIN rels' : rels'[k].sec \in DOMAIN sections
    BY <2>1, <2>2, <1>1, ConcatIs
  <2> QED
    BY <2>1, <2>3 DEF RelsTyped
<1>5. /\ Stay /\ UNCHANGED <<src, cur, insIndex, fixups, offLabels>>
       /\ labels' = labels /\ segments' = segments /\ symtab' = symtab /\ end' = end
  BY DEF ParseKernel, scanned, tables, result
<1>6. LabelsTyped' /\ SegmentsTyped' /\ DOMAIN symtab' \subseteq Int /\ EndTyped'
  BY <1>5 DEF TypeInv, LabelsTyped, SegmentsTyped, EndTyped
<1> QED
  BY <1>1, <1>3, <1>4, <1>5, <1>6, PassTyped

LEMMA CountsWorked ==
  ASSUME TypeInv, CountRegs
  PROVE  Worked
<1> DEFINE t == SectionOf(<<".nv.info">>)
           attrs == SetRegCount(AttrsOf(t), RegNums)
           f == SetAttrs(t, attrs)
<1>1. stage = "regcounts" /\ HasSection(<<".nv.info">>) /\ sections' = [sections EXCEPT ![t] = f]
  BY DEF CountRegs
<1>2. t \in DOMAIN sections /\ sections[t].name # <<>>
  BY <1>1, SectionIs
<1> HIDE DEF t
<1>3. IsAttrs(attrs)
  BY <1>2, DecodedAttrs, SetRegCountType
<1> HIDE DEF attrs
<1>4. Changed(sections[t], f) /\ SamePlace(sections[t], f)
  BY <1>2, <1>3, SetAttrsType
<1> HIDE DEF f
<1> QED
  BY <1>1, <1>2, <1>4, OneWorked

LEMMA CountRegsTyped ==
  ASSUME TypeInv, CountRegs
  PROVE  TypeInv'
<1>1. /\ stage = "regcounts" /\ GoOn /\ UNCHANGED <<src, cur, insIndex, fixups, offLabels>>
      /\ labels' = labels /\ segments' = segments /\ symtab' = symtab /\ end' = end /\ rels' = rels
  BY DEF CountRegs, scanned, tables, result
<1>2. Worked
  BY CountsWorked
<1>3. LabelsTyped' /\ SegmentsTyped' /\ DOMAIN symtab' \subseteq Int /\ EndTyped'
  BY <1>1 DEF TypeInv, LabelsTyped, SegmentsTyped, EndTyped
<1>4. RelsTyped'
  BY <1>1, <1>2 DEF TypeInv, RelsTyped, Worked
<1> QED
  BY <1>1, <1>2, <1>3, <1>4, PassTyped

\* The null section gets no relocations.
LEMMA NoRelsOfNull ==
  ASSUME TypeInv, NEW s \in DOMAIN sections, sections[s].name = <<>>
  PROVE  EntriesSize(RelsOf(s)) = 0
<1> DEFINE T == {k \in DOMAIN rels : RelSection(rels[k]) = sections[s].name}
<1>1. ASSUME NEW k \in DOMAIN rels PROVE RelSection(rels[k]) # <<>>
  <2> DEFINE name == sections[rels[k].sec].name
             head == IF rels[k].rela THEN ".rela" ELSE ".rel"
             S == STRING \cup {head}
  <2>1. name \in Seq(S)
    <3>1. name \in Seq(STRING)
      BY DEF TypeInv, RelsTyped, SectionsTyped, IsSection
    <3> QED
      BY <3>1, SeqMonotonic
  <2>2. <<head>> \in Seq(S) /\ Len(<<head>>) = 1
    <3>1. head \in S
      OBVIOUS
    <3> HIDE DEF head, S
    <3> QED
      BY <3>1
  <2>3. RelSection(rels[k]) = <<head>> \o name
    BY DEF RelSection
  <2> HIDE DEF head, name, S
  <2>4. Len(<<head>> \o name) = 1 + Len(name) /\ Len(name) \in Nat
    BY <2>1, <2>2, ConcatProperties, LenProperties
  <2>5. Len(RelSection(rels[k])) # 0
    BY <2>3, <2>4
  <2> QED
    BY <2>5
<1>2. T = {}
  BY <1>1
<1>3. RelsOf(s) = ElementsAt(rels, {})
  BY <1>2 DEF RelsOf
<1>4. Cardinality({}) = 0 /\ IsFiniteSet({}) /\ {} \in SUBSET Nat
  BY FS_EmptySet
<1>5. DOMAIN InOrder({}) = 1..0
  BY <1>4, InOrderIn
<1>6. ElementsAt(rels, {}) = [k \in 1..0 |-> rels[InOrder({})[k]]]
  BY <1>5 DEF ElementsAt
<1>7. RelsOf(s) = <<>>
  BY <1>3, <1>6
<1> QED
  BY <1>7 DEF EntriesSize

LEMMA EntriesSizeType ==
  ASSUME TypeInv, NEW s \in DOMAIN sections
  PROVE  EntriesSize(RelsOf(s)) \in Nat
<1> DEFINE T == {k \in DOMAIN rels : RelSection(rels[k]) = sections[s].name}
<1>1. T \in SUBSET Nat /\ IsFiniteSet(T)
  BY IsSeqDomain, FS_Subset DEF TypeInv, RelsTyped
<1>2. RelsOf(s) = ElementsAt(rels, T)
  BY DEF RelsOf
<1> HIDE DEF T
<1>3. Len(RelsOf(s)) \in Nat
  BY <1>1, <1>2, ElementsAtType
<1> QED
  BY <1>3 DEF EntriesSize

LEMMA BuildRelocationsWorked ==
  ASSUME TypeInv, BuildRelocations
  PROVE  Worked /\ InPlace
<1> DEFINE n(s) == EntriesSize(RelsOf(s))
           u(s) == [sections[s] EXCEPT !.entries = Reverse(RelsOf(s))]
           e(s) == Emit(u(s), n(s))
<1>1. sections' = [s \in DOMAIN sections |-> e(s)]
  BY DEF BuildRelocations
<1>2. IsSeq(sections)
  BY DEF TypeInv, SectionsTyped
<1>3. IsSeq(sections') /\ DOMAIN sections' = DOMAIN sections
  <2> HIDE DEF e
  <2>1. sections' = [s \in DOMAIN sections |-> sections'[s]]
    BY <1>1
  <2> QED
    BY <1>2, <2>1, SameDomain
<1>4. ASSUME NEW s \in DOMAIN sections PROVE Changed(sections[s], e(s)) /\ SamePlace(sections[s], e(s))
  <2> DEFINE w == sections[s]
             v == u(s)
  <2>1. IsSection(w)
    BY DEF TypeInv, SectionsTyped
  <2>2. n(s) \in Nat
    BY EntriesSizeType
  <2>3. w.name = <<>> => n(s) = 0 /\ w.pos = 0
    BY NoRelsOfNull DEF TypeInv, SectionsTyped, NullIsEmpty
  <2>4. v = [w EXCEPT !.entries = Reverse(RelsOf(s))]
    OBVIOUS
  <2>5. e(s) = Emit(v, n(s))
    OBVIOUS
  <2> HIDE DEF w, v, n, e
  <2>6. DOMAIN v = SectionFields /\ \A x \in SectionFields \ {"entries"} : v[x] = w[x]
    BY <2>1, <2>4 DEF IsSection, SectionFields
  <2>7. /\ v.name = w.name /\ v.type = w.type /\ v.line = w.line /\ v.size = w.size /\ v.items = w.items
        /\ v.align = w.align /\ v.at = w.at /\ v.mem = w.mem /\ v.pad = w.pad /\ v.pos = w.pos
    BY <2>6 DEF SectionFields
  <2>8. IsSection(v)
    BY <2>1, <2>6, <2>7 DEF IsSection
  <2>9. Changed(w, v) /\ SamePlace(w, v)
    BY <2>7, <2>8 DEF Changed, SamePlace
  <2>10. Changed(v, e(s)) /\ SamePlace(v, e(s))
    BY <2>2, <2>3, <2>5, <2>7, <2>8, EmitType
  <2>11. Changed(w, e(s)) /\ SamePlace(w, e(s))
    BY <2>9, <2>10, ChangedTwice
  <2> QED
    BY <2>11 DEF w
<1> HIDE DEF e
<1> QED
  BY <1>1, <1>3, <1>4 DEF Worked, InPlace, SamePlace

LEMMA BuildRelocationsTyped ==
  ASSUME TypeInv, BuildRelocations
  PROVE  TypeInv'
<1>1. stage = "relocations"
  BY DEF BuildRelocations
<1>2. Worked
  BY BuildRelocationsWorked
<1>3. /\ GoOn /\ UNCHANGED <<src, cur, insIndex, fixups, offLabels>>
      /\ labels' = labels /\ segments' = segments /\ symtab' = symtab /\ end' = end /\ rels' = rels
  BY DEF BuildRelocations, scanned, tables, result
<1>4. LabelsTyped' /\ SegmentsTyped' /\ DOMAIN symtab' \subseteq Int /\ EndTyped'
  BY <1>3 DEF TypeInv, LabelsTyped, SegmentsTyped, EndTyped
<1>5. RelsTyped'
  BY <1>2, <1>3 DEF TypeInv, RelsTyped, Worked
<1> QED
  BY <1>1, <1>2, <1>3, <1>4, <1>5, PassTyped

LEMMA UpdateSymtabTyped ==
  ASSUME TypeInv, UpdateSymtab
  PROVE  TypeInv'
<1>1. /\ stage = "symtab" /\ GoOn /\ UNCHANGED <<src, cur, sections, scanned, rels, end>>
      /\ DOMAIN symtab' = DOMAIN symtab
  BY DEF UpdateSymtab, result
<1>2. DOMAIN symtab' \subseteq Int
  BY <1>1 DEF TypeInv
<1> QED
  BY <1>1, <1>2, IdlePassTyped

LEMMA SaveTyped ==
  ASSUME TypeInv, Save
  PROVE  TypeInv'
<1>1. /\ stage = "save" /\ GoOn /\ UNCHANGED <<src, cur, sections, scanned, rels, end>> /\ symtab' = symtab
  BY DEF Save, tables
<1>2. DOMAIN symtab' \subseteq Int
  BY <1>1 DEF TypeInv
<1> QED
  BY <1>1, <1>2, IdlePassTyped

LEMMA LocateSegmentsTyped ==
  ASSUME TypeInv, LocateSegments
  PROVE  TypeInv'
<1>1. /\ stage = "segments" /\ GoOn /\ UNCHANGED <<src, cur, insIndex, fixups, offLabels>>
      /\ sections' = sections /\ labels' = labels /\ symtab' = symtab /\ end' = end /\ rels' = rels
      /\ segments' = [k \in DOMAIN segments |-> Located(segments[k])]
  BY DEF LocateSegments, tables, result
<1>2. Worked
  BY <1>1, UnchangedWorked
<1>3. LabelsTyped' /\ RelsTyped' /\ DOMAIN symtab' \subseteq Int /\ EndTyped'
  BY <1>1 DEF TypeInv, LabelsTyped, RelsTyped, EndTyped
<1>4. SegmentsTyped'
  <2>1. IsSeq(segments) /\ \A k \in DOMAIN segments : DOMAIN segments[k] = {"type", "first", "last", "at", "filesz", "memsz"}
    BY DEF TypeInv, SegmentsTyped
  <2>2. segments' = [k \in DOMAIN segments |-> segments'[k]]
    BY <1>1
  <2>3. IsSeq(segments') /\ DOMAIN segments' = DOMAIN segments
    BY <2>1, <2>2, SameDomain
  <2>4. ASSUME NEW g PROVE DOMAIN Located(g) = DOMAIN g
    <3>1. CASE g.type = "PHDR"
      BY <3>1 DEF Located
    <3>2. CASE g.type # "PHDR" /\ Ranged(g)
      BY <3>2 DEF Located
    <3>3. CASE g.type # "PHDR" /\ ~Ranged(g)
      BY <3>3 DEF Located
    <3> QED
      BY <3>1, <3>2, <3>3
  <2> QED
    BY <1>1, <2>1, <2>3, <2>4 DEF SegmentsTyped
<1> QED
  BY <1>1, <1>2, <1>3, <1>4, PassTyped

-----------------------------------------------------------------------------
(* The layout, one section at a time.                                      *)

\* Only the first section can be the null section, so the one laid out before
\* a section is its neighbour.
LEMMA PreviousIs ==
  ASSUME TypeInv, NEW s \in Nat, s >= 1, s <= Len(sections) + 1
  PROVE  Previous(s) = IF s > 1 /\ sections[s - 1].name # <<>> THEN s - 1 ELSE 0
<1> DEFINE B == {t \in 1..(s - 1) : sections[t].name # <<>>}
           P(t) == B = {} \/ (t # 0 /\ \A u \in B : u <= t)
<1>1. Previous(s) = CHOOSE t \in B \cup {0} : P(t)
  BY DEF Previous
<1>2. Len(sections) \in Nat /\ DOMAIN sections = 1..Len(sections)
  BY IsSeqDomain DEF TypeInv, SectionsTyped
<1>3. CASE s > 1 /\ sections[s - 1].name # <<>>
  <2>1. s - 1 \in B /\ \A u \in B : u <= s - 1
    BY <1>3
  <2>2. ASSUME NEW t \in B \cup {0}, P(t) PROVE t = s - 1
    BY <2>1, <2>2
  <2>3. P(s - 1)
    BY <2>1, <1>3
  <2> HIDE DEF B, P
  <2> QED
    BY <1>1, <1>3, <2>1, <2>2, <2>3
<1>4. CASE ~(s > 1 /\ sections[s - 1].name # <<>>)
  <2>1. B = {}
    <3>1. CASE s = 1
      BY <3>1
    <3>2. CASE s > 1 /\ sections[s - 1].name = <<>>
      BY <3>2, <1>2 DEF TypeInv, SectionsTyped, NullIsEmpty
    <3> QED
      BY <1>4, <3>1, <3>2
  <2>2. \A t \in B \cup {0} : P(t) /\ t = 0
    BY <2>1
  <2> HIDE DEF B, P
  <2> QED
    BY <1>1, <1>4, <2>2
<1> QED
  BY <1>3, <1>4

\* A step of the layout, and the one section it follows.
LEMMA LayoutAt ==
  ASSUME TypeInv, stage = "layout", next <= Len(sections), Previous(next) # 0
  PROVE  /\ Previous(next) = next - 1 /\ next - 1 \in DOMAIN sections /\ next \in DOMAIN sections
         /\ sections[next - 1].name # <<>> /\ sections[next].name # <<>>
         /\ AlignFor(next) \in Alignments /\ Pads(next - 1, AlignFor(next)) \in Alignments
         /\ FilePad(next - 1, AlignFor(next)) \in Nat /\ MemPad(next - 1, AlignFor(next)) \in Nat
<1> DEFINE p == next - 1
           al == AlignFor(next)
<1>1. Len(sections) \in Nat /\ DOMAIN sections = 1..Len(sections) /\ next \in Nat \ {0}
  BY IsSeqDomain DEF TypeInv, SectionsTyped
<1>2. next >= 1 /\ next <= Len(sections) + 1 /\ next \in Nat
  BY <1>1
<1>3. Previous(next) = IF next > 1 /\ sections[next - 1].name # <<>> THEN next - 1 ELSE 0
  BY <1>2, PreviousIs
<1>4. next > 1 /\ sections[p].name # <<>> /\ Previous(next) = p
  BY <1>3
<1>5. p \in DOMAIN sections /\ next \in DOMAIN sections
  BY <1>1, <1>4
<1>6. sections[next].name # <<>>
  BY <1>4, <1>5 DEF TypeInv, SectionsTyped, NullIsEmpty
<1>7. sections[next].align \in Alignments /\ sections[p].align \in Alignments
  BY <1>5 DEF TypeInv, SectionsTyped, IsSection
<1>8. al \in Alignments
  <2>1. 128 \in Alignments
    BY DEF Alignments
  <2> QED
    BY <2>1, <1>7 DEF AlignFor
<1> HIDE DEF al, p
<1>9. Pads(p, al) \in Alignments
  BY <1>7, <1>8, LargerType DEF Pads
<1>10. end.file \in Nat /\ end.mem \in Nat
  BY DEF TypeInv
<1>11. /\ Aligned(end.file, Pads(p, al)) \in Nat /\ Aligned(end.file, Pads(p, al)) >= end.file
       /\ Aligned(end.mem, Pads(p, al)) \in Nat /\ Aligned(end.mem, Pads(p, al)) >= end.mem
  BY <1>9, <1>10, AlignedUp
<1>12. FilePad(p, al) \in Nat /\ MemPad(p, al) \in Nat
  BY <1>10, <1>11 DEF FilePad, MemPad
<1> QED
  BY <1>4, <1>5, <1>6, <1>8, <1>9, <1>12 DEF p, al

\* The section before it padded: it is as it was but for its size, if it is
\* code, or else its padding.
LEMMA PaddedIs ==
  ASSUME TypeInv, NEW p \in DOMAIN sections, sections[p].name # <<>>, NEW al, FilePad(p, al) \in Nat, MemPad(p, al) \in Nat
  PROVE  LET t == sections[p]
             e == Padded(p, al)
         IN  /\ Changed(t, e) /\ e.at = t.at /\ e.mem = t.mem /\ e.align = t.align
             /\ IsText(t.name) => e.size = t.size + FilePad(p, al) /\ e.pad = t.pad
             /\ ~IsText(t.name) => e.size = t.size /\ e.pad = IF NoBits(p) THEN MemPad(p, al) ELSE FilePad(p, al)
<1> DEFINE t == sections[p]
           e == Padded(p, al)
<1>1. IsSection(t)
  BY DEF TypeInv, SectionsTyped
<1>2. CASE IsText(t.name)
  <2>1. e = [t EXCEPT !.size = t.size + FilePad(p, al)]
    BY <1>2 DEF Padded
  <2> HIDE DEF t, e
  <2>2. DOMAIN e = SectionFields /\ e.size = t.size + FilePad(p, al) /\ \A x \in SectionFields \ {"size"} : e[x] = t[x]
    BY <2>1, <1>1 DEF IsSection, SectionFields
  <2>3. /\ e.name = t.name /\ e.type = t.type /\ e.line = t.line /\ e.pos = t.pos /\ e.items = t.items
        /\ e.align = t.align /\ e.at = t.at /\ e.mem = t.mem /\ e.pad = t.pad
    BY <2>2 DEF SectionFields
  <2>4. e.size \in Nat
    BY <1>1, <2>2 DEF IsSection
  <2>5. Changed(t, e)
    <3>1. t.name # <<>>
      BY DEF t
    <3> QED
      BY <3>1, <1>1, <2>2, <2>3, <2>4 DEF IsSection, Changed
  <2>6. Changed(sections[p], Padded(p, al))
    BY <2>5 DEF t, e
  <2> QED
    BY <2>2, <2>3, <2>5, <1>2 DEF t, e
<1>3. CASE ~IsText(t.name)
  <2> DEFINE v == IF NoBits(p) THEN MemPad(p, al) ELSE FilePad(p, al)
  <2>1. e = [t EXCEPT !.pad = v] /\ v \in Nat
    BY <1>3 DEF Padded
  <2> HIDE DEF t, e, v
  <2>2. DOMAIN e = SectionFields /\ e.pad = v /\ \A x \in SectionFields \ {"pad"} : e[x] = t[x]
    BY <2>1, <1>1 DEF IsSection, SectionFields
  <2>3. /\ e.name = t.name /\ e.type = t.type /\ e.line = t.line /\ e.pos = t.pos /\ e.items = t.items
        /\ e.align = t.align /\ e.at = t.at /\ e.mem = t.mem /\ e.size = t.size
    BY <2>2 DEF SectionFields
  <2>4. Changed(t, e)
    BY <1>1, <2>1, <2>2, <2>3 DEF IsSection, Changed
  <2> QED
    BY <2>2, <2>3, <2>4, <1>3 DEF t, e, v
<1> QED
  BY <1>2, <1>3

LEMMA PlacedIs ==
  ASSUME NEW t, IsSection(t), NEW a \in Nat, NEW m \in Nat
  PROVE  PlacedAt(t, a, m, [t EXCEPT !.at = a, !.mem = m])
<1> DEFINE e == [t EXCEPT !.at = a, !.mem = m]
<1>1. /\ DOMAIN e = SectionFields /\ e.at = a /\ e.mem = m /\ \A x \in SectionFields \ {"at", "mem"} : e[x] = t[x]
  BY DEF IsSection, SectionFields
<1> HIDE DEF e
<1>2. /\ e.name = t.name /\ e.type = t.type /\ e.line = t.line /\ e.pos = t.pos /\ e.items = t.items
      /\ e.align = t.align /\ e.pad = t.pad /\ e.size = t.size
  BY <1>1 DEF SectionFields
<1>3. Changed(t, e)
  BY <1>1, <1>2 DEF IsSection, Changed
<1> QED
  BY <1>1, <1>2, <1>3 DEF PlacedAt, e

\* What laying out one section behind another changes.
LEMMA LayoutSectionIs ==
  ASSUME TypeInv, LayoutSection
  PROVE  LET p == next - 1
             s == next
             al == AlignFor(next)
         IN  /\ Worked /\ sections'[p] = Padded(p, al)
             /\ \A t \in DOMAIN sections : t # p /\ t # s => sections'[t] = sections[t]
             /\ sections'[s].at = end.file + FilePad(p, al) /\ sections'[s].mem = end.mem + MemPad(p, al)
             /\ sections'[s].size = sections[s].size /\ sections'[s].pad = sections[s].pad
             /\ sections'[s].align = sections[s].align
             /\ end' = [file |-> end.file + FilePad(p, al) + (IF NoBits(s) THEN 0 ELSE sections[s].size),
                        mem |-> end.mem + MemPad(p, al) + sections[s].size]
<1> DEFINE p == next - 1
           s == next
           al == AlignFor(next)
           a == end.file + FilePad(p, al)
           m == end.mem + MemPad(p, al)
           u == Padded(p, al)
           e == [sections[s] EXCEPT !.at = a, !.mem = m]
<1>1. stage = "layout" /\ next <= Len(sections) /\ Previous(next) # 0
  BY DEF LayoutSection
<1>2. /\ Previous(s) = p /\ p \in DOMAIN sections /\ s \in DOMAIN sections /\ sections[p].name # <<>>
      /\ FilePad(p, al) \in Nat /\ MemPad(p, al) \in Nat
  BY <1>1, LayoutAt
<1>3. p # s /\ a \in Nat /\ m \in Nat
  BY <1>2 DEF TypeInv
<1>4. /\ sections' = [[sections EXCEPT ![p] = u] EXCEPT ![s].at = a, ![s].mem = m]
      /\ end' = [file |-> a + (IF NoBits(s) THEN 0 ELSE sections[s].size), mem |-> m + sections[s].size]
  BY <1>2 DEF LayoutSection, Place
<1>5. Changed(sections[p], u)
  BY <1>2, PaddedIs
<1>6. /\ Changed(sections[s], e) /\ e.at = a /\ e.mem = m
      /\ e.size = sections[s].size /\ e.pad = sections[s].pad /\ e.align = sections[s].align
  <2>1. IsSection(sections[s])
    BY <1>2 DEF TypeInv, SectionsTyped
  <2> HIDE DEF a, m, s
  <2>2. PlacedAt(sections[s], a, m, e)
    BY <2>1, <1>3, PlacedIs, Zenon
  <2> HIDE DEF e
  <2> QED
    BY <2>2, Zenon DEF PlacedAt
<1> HIDE DEF a, m, u
<1>7. sections' = [sections EXCEPT ![p] = u, ![s] = e]
  BY <1>2, <1>3, <1>4
<1> HIDE DEF e
<1>8. Worked
  BY <1>1, <1>2, <1>5, <1>6, <1>7, TwoWorked
<1>9. /\ sections'[p] = u /\ sections'[s] = e
      /\ \A t \in DOMAIN sections : t # p /\ t # s => sections'[t] = sections[t]
  BY <1>2, <1>3, <1>7
<1> QED
  BY <1>4, <1>6, <1>8, <1>9 DEF a, m, u

LEMMA LayoutFirstIs ==
  ASSUME TypeInv, LayoutFirstSection
  PROVE  LET s == next
         IN  /\ Worked /\ s \in DOMAIN sections
             /\ \A t \in DOMAIN sections : t # s => sections'[t] = sections[t]
             /\ sections'[s].at = end.file /\ sections'[s].mem = end.mem
             /\ sections'[s].size = sections[s].size /\ sections'[s].pad = sections[s].pad
             /\ sections'[s].align = sections[s].align
             /\ end' = [file |-> end.file + (IF NoBits(s) THEN 0 ELSE sections[s].size),
                        mem |-> end.mem + sections[s].size]
<1> DEFINE s == next
           e == [sections[s] EXCEPT !.at = end.file, !.mem = end.mem]
<1>1. s \in DOMAIN sections
  <2>1. IsSeq(sections) /\ next \in Nat \ {0} /\ next <= Len(sections)
    BY DEF TypeInv, SectionsTyped, LayoutFirstSection
  <2> QED
    BY <2>1, IsSeqDomain
<1>2. /\ sections' = [sections EXCEPT ![s].at = end.file, ![s].mem = end.mem]
      /\ end' = [file |-> end.file + (IF NoBits(s) THEN 0 ELSE sections[s].size), mem |-> end.mem + sections[s].size]
  BY DEF LayoutFirstSection, Place
<1>3. sections' = [sections EXCEPT ![s] = e]
  BY <1>1, <1>2
<1>4. /\ Changed(sections[s], e) /\ e.at = end.file /\ e.mem = end.mem
      /\ e.size = sections[s].size /\ e.pad = sections[s].pad /\ e.align = sections[s].align
  <2>1. IsSection(sections[s]) /\ end.file \in Nat /\ end.mem \in Nat
    BY <1>1 DEF TypeInv, SectionsTyped
  <2> HIDE DEF s
  <2>2. PlacedAt(sections[s], end.file, end.mem, e)
    BY <2>1, PlacedIs, Zenon
  <2> HIDE DEF e
  <2> QED
    BY <2>2, Zenon DEF PlacedAt
<1> HIDE DEF e
<1>5. Worked
  <2>1. stage = "layout"
    BY DEF LayoutFirstSection
  <2> QED
    BY <2>1, <1>1, <1>3, <1>4, TwoWorked
<1>6. sections'[s] = e /\ \A t \in DOMAIN sections : t # s => sections'[t] = sections[t]
  BY <1>1, <1>3
<1> QED
  BY <1>1, <1>2, <1>4, <1>5, <1>6

LEMMA LayoutFirstTyped ==
  ASSUME TypeInv, LayoutFirstSection
  PROVE  TypeInv'
<1>1. /\ stage = "layout" /\ Stay /\ UNCHANGED <<src, cur, insIndex, fixups, offLabels>>
      /\ labels' = labels /\ segments' = segments /\ symtab' = symtab /\ rels' = rels
  BY DEF LayoutFirstSection, scanned, tables
<1>2. Worked
  BY LayoutFirstIs
<1>3. EndTyped'
  BY LayoutFirstIs DEF TypeInv, SectionsTyped, IsSection, EndTyped
<1>4. LabelsTyped' /\ SegmentsTyped' /\ DOMAIN symtab' \subseteq Int
  BY <1>1 DEF TypeInv, LabelsTyped, SegmentsTyped
<1>5. RelsTyped'
  BY <1>1, <1>2 DEF TypeInv, RelsTyped, Worked
<1> QED
  BY <1>1, <1>2, <1>3, <1>4, <1>5, PassTyped

LEMMA LayoutSectionTyped ==
  ASSUME TypeInv, LayoutSection
  PROVE  TypeInv'
<1> DEFINE p == next - 1
           al == AlignFor(next)
<1>1. /\ stage = "layout" /\ Stay /\ UNCHANGED <<src, cur, insIndex, fixups, offLabels>>
      /\ segments' = segments /\ symtab' = symtab /\ rels' = rels
      /\ next <= Len(sections) /\ Previous(next) # 0
  BY DEF LayoutSection, tables
<1>2. Worked
  BY LayoutSectionIs
<1>3. /\ p \in DOMAIN sections /\ next \in DOMAIN sections /\ Previous(next) = p
      /\ FilePad(p, al) \in Nat /\ MemPad(p, al) \in Nat
  BY <1>1, LayoutAt
<1>4. sections[next].size \in Nat /\ sections[p].size \in Nat
  BY <1>3 DEF TypeInv, SectionsTyped, IsSection
<1>5. EndTyped'
  <2>1. end' = [file |-> end.file + FilePad(p, al) + (IF NoBits(next) THEN 0 ELSE sections[next].size),
                mem |-> end.mem + MemPad(p, al) + sections[next].size]
    BY LayoutSectionIs
  <2> HIDE DEF p, al
  <2> QED
    BY <2>1, <1>3, <1>4 DEF EndTyped, TypeInv
<1>6. LabelsTyped'
  <2>1. labels' = PadLabel(p, al)
    BY <1>3 DEF LayoutSection
  <2> HIDE DEF p, al
  <2> DEFINE n == sections[p].size + FilePad(p, al)
  <2>2. n \in Int
    BY <1>3, <1>4
  <2>3. labels' = labels \/ labels' = [labels EXCEPT ![sizeLabel[p]].at = n]
    BY <2>1 DEF PadLabel
  <2> HIDE DEF n
  <2>4. IsSeq(labels) /\ \A l \in DOMAIN labels : DOMAIN labels[l] = {"name", "sec", "at"} /\ labels[l].at \in Int
    BY DEF TypeInv, LabelsTyped
  <2>5. CASE labels' = labels
    BY <2>4, <2>5 DEF LabelsTyped
  <2>6. CASE labels' = [labels EXCEPT ![sizeLabel[p]].at = n]
    <3>1. labels' = [l \in DOMAIN labels |-> labels'[l]]
      BY <2>6
    <3>2. IsSeq(labels') /\ DOMAIN labels' = DOMAIN labels
      BY <3>1, <2>4, SameDomain
    <3>3. \A l \in DOMAIN labels : DOMAIN labels'[l] = {"name", "sec", "at"} /\ labels'[l].at \in Int
      BY <2>2, <2>4, <2>6
    <3> QED
      BY <3>2, <3>3 DEF LabelsTyped
  <2> QED
    BY <2>3, <2>5, <2>6
<1>7. SegmentsTyped' /\ DOMAIN symtab' \subseteq Int
  BY <1>1 DEF TypeInv, SegmentsTyped
<1>8. RelsTyped'
  BY <1>1, <1>2 DEF TypeInv, RelsTyped, Worked
<1> QED
  BY <1>1, <1>2, <1>5, <1>6, <1>7, <1>8, PassTyped

\* A step of any kind.
LEMMA ThrowFails ==
  ASSUME Throw
  PROVE  Fail
  BY DEF Throw, ScanFails, TablesFail, FixupFails, KernelFails, RegsFail, RelocationsFail, LayoutFails, SegmentsFail, SymbolsFail

LEMMA NextTyped ==
  ASSUME TypeInv, [Next]_vars
  PROVE  TypeInv'
<1>1. CASE Parse
  BY <1>1, ParseTyped
<1>2. CASE Scan
  BY <1>2, SectionTyped, AlignTyped, DataTyped, ZeroTyped, LabelTyped, OffsetLabelTyped, CodeTyped, SizeTyped,
     SegmentTyped, ScanEndTyped, Zenon DEF Scan
<1>3. CASE Evaluate
  BY <1>3, GatherTyped, BuildTablesTyped, EvalFixupTyped, FixupsEndTyped, Zenon DEF Evaluate
<1>4. CASE Kernels
  BY <1>4, ParseKernelTyped, FixupsEndTyped, CountRegsTyped, Zenon DEF Kernels
<1>5. CASE BuildRelocations
  BY <1>5, BuildRelocationsTyped
<1>6. CASE Layout
  BY <1>6, LayoutFirstTyped, LayoutSectionTyped, FixupsEndTyped, LocateSegmentsTyped, Zenon DEF Layout
<1>7. CASE UpdateSymtab \/ Save
  BY <1>7, UpdateSymtabTyped, SaveTyped
<1>8. CASE Throw
  BY <1>8, ThrowFails, FailTyped
<1>9. CASE UNCHANGED vars
  BY <1>9, StutterTyped
<1> QED
  BY <1>1, <1>2, <1>3, <1>4, <1>5, <1>6, <1>7, <1>8, <1>9, Zenon DEF Next, Work

\* Whatever is parsed, every pass finds what the ones before it left well
\* formed: sections with names of their own and sizes, the null section empty,
\* fixups and relocations of sections there are.
THEOREM PassesKeepTypes == Spec => []TypeInv
<1>1. Init => TypeInv
  BY InitTyped
<1>2. TypeInv /\ [Next]_vars => TypeInv'
  BY NextTyped
<1> QED
  BY <1>1, <1>2, PTL DEF Spec

-----------------------------------------------------------------------------
(* Where the sections laid out so far are.                                 *)

\* Sections keep their names and kinds, and so their neighbours.
LEMMA SectionsAre ==
  ASSUME TypeInv
  PROVE  /\ Len(sections) \in Nat /\ DOMAIN sections = 1..Len(sections)
         /\ \A s \in DOMAIN sections : IsSection(sections[s])
  BY IsSeqDomain DEF TypeInv, SectionsTyped

LEMMA SameNeighbours ==
  ASSUME TypeInv, Worked
  PROVE  /\ DOMAIN sections' = DOMAIN sections /\ Len(sections') = Len(sections)
         /\ \A s \in Nat : s >= 1 /\ s <= Len(sections) + 1 => Previous(s)' = Previous(s)
         /\ \A s \in DOMAIN sections : sections'[s].name = sections[s].name /\ NoBits(s)' = NoBits(s)
         /\ CodeFirst' <=> CodeFirst
<1>1. DOMAIN sections' = DOMAIN sections /\ Len(sections') = Len(sections)
  BY WorkedLen DEF Worked
<1>2. \A s \in DOMAIN sections : sections'[s].name = sections[s].name /\ sections'[s].type = sections[s].type
  BY DEF Worked, Changed
<1>3. \A s \in DOMAIN sections : NoBits(s)' = NoBits(s)
  BY <1>2 DEF NoBits
<1>4. ASSUME NEW s \in Nat, s >= 1, s <= Len(sections) + 1
      PROVE  Previous(s)' = Previous(s)
  <2>1. 1..(s - 1) \subseteq DOMAIN sections
    BY <1>4, SectionsAre
  <2>2. {t \in 1..(s - 1) : sections'[t].name # <<>>} = {t \in 1..(s - 1) : sections[t].name # <<>>}
    BY <2>1, <1>2
  <2> QED
    BY <2>2 DEF Previous
<1>5. CodeFirst' <=> CodeFirst
  <2>1. ASSUME CodeFirst PROVE CodeFirst'
    <3> SUFFICES ASSUME NEW s \in DOMAIN sections, NEW t \in DOMAIN sections, NoBits(s)', s < t
                 PROVE  ~IsText(sections'[t].name)
      BY <1>1 DEF CodeFirst
    <3> QED
      BY <2>1, <1>2, <1>3 DEF CodeFirst
  <2>2. ASSUME CodeFirst' PROVE CodeFirst
    <3> SUFFICES ASSUME NEW s \in DOMAIN sections, NEW t \in DOMAIN sections, NoBits(s), s < t
                 PROVE  ~IsText(sections[t].name)
      BY DEF CodeFirst
    <3>1. NoBits(s)'
      BY <1>3
    <3>2. ~IsText(sections'[t].name)
      BY <3>1, <2>2, <1>1 DEF CodeFirst
    <3> QED
      BY <3>2, <1>2
  <2> QED
    BY <2>1, <2>2
<1> QED
  BY <1>1, <1>2, <1>3, <1>4, <1>5

LEMMA SameLayout ==
  ASSUME sections' = sections, end' = end, NEW n
  PROVE  /\ LaidOut(n) => LaidOut(n)'
         /\ InMemory(n) => InMemory(n)'
<1>1. \A s : Previous(s)' = Previous(s)
  BY DEF Previous
<1>2. \A s : (NoBits(s)' <=> NoBits(s)) /\ SavedSize(s)' = SavedSize(s)
  BY DEF NoBits, SavedSize
<1>3. \A p : FileAfter(p)' = FileAfter(p) /\ MemAfter(p)' = MemAfter(p)
  BY <1>2 DEF FileAfter, MemAfter
<1>4. \A s : FileAfter(Previous(s))' = FileAfter(Previous(s)) /\ MemAfter(Previous(s))' = MemAfter(Previous(s))
  BY <1>1, <1>2 DEF FileAfter, MemAfter
<1>5. \A s : OnAlignment(s) => OnAlignment(s)'
  BY <1>1, <1>2 DEF OnAlignment, NoBits
<1>6. CodeFirst' => CodeFirst
  BY <1>2 DEF CodeFirst
<1>7. LaidOut(n) => LaidOut(n)'
  BY <1>4, <1>5 DEF LaidOut
<1>8. InMemory(n) => InMemory(n)'
  BY <1>2, <1>4, <1>6 DEF InMemory
<1> QED
  BY <1>7, <1>8

\* The first section to be laid out.
LEMMA NothingLaidOut ==
  ASSUME TypeInv, stage = "relocations", BuildRelocations
  PROVE  LaidOut(1)' /\ InMemory(1)'
<1>1. Worked /\ end' = end
  BY BuildRelocationsWorked DEF BuildRelocations, result
<1>2. /\ DOMAIN sections' = DOMAIN sections /\ \A t \in DOMAIN sections : sections'[t].pad = 0
      /\ end'.file = 64 /\ end'.mem = 64
  <2>1. stage \in Unplaced /\ stage # "layout"
    BY DEF Unplaced
  <2> QED
    BY <2>1, <1>1 DEF TypeInv, NothingPlaced, Worked, Start
<1>3. Previous(1)' = 0
  BY SectionsAre, PreviousIs, <1>1, SameNeighbours
<1>4. \A s \in DOMAIN sections' : ~(s < 1)
  BY <1>2, SectionsAre
<1>5. FileAfter(Previous(1))' = 64 /\ MemAfter(Previous(1))' = 64
  BY <1>3 DEF FileAfter, MemAfter
<1> QED
  BY <1>2, <1>4, <1>5 DEF LaidOut, InMemory

\* The null section takes no room.
LEMMA NullIsSkipped ==
  ASSUME TypeInv, NEW n, n = next, LaidOut(n), InMemory(n), SkipNull
  PROVE  LaidOut(n + 1)' /\ InMemory(n + 1)'
<1>1. sections' = sections /\ end' = end /\ sections[n].name = <<>> /\ n <= Len(sections)
  BY DEF SkipNull, result
<1>2. n = 1 /\ n \in DOMAIN sections
  <2>1. n \in DOMAIN sections
    BY <1>1, SectionsAre DEF TypeInv
  <2> QED
    BY <2>1, <1>1 DEF TypeInv, SectionsTyped, NullIsEmpty
<1>3. Previous(1) = 0 /\ Previous(2) = 0
  BY <1>1, <1>2, SectionsAre, PreviousIs
<1>4. LaidOut(2)
  <2>1. \A t \in DOMAIN sections : sections[t].pad = 0
    BY <1>2, SectionsAre DEF LaidOut
  <2>2. \A s \in DOMAIN sections : s < 2 => sections[s].name = <<>>
    BY <1>1, <1>2, SectionsAre
  <2>3. end.file = FileAfter(0) /\ end.mem = MemAfter(0)
    BY <1>2, <1>3 DEF LaidOut
  <2> QED
    BY <2>1, <2>2, <2>3, <1>3 DEF LaidOut
<1>5. InMemory(2)
  BY <1>2, <1>3, <1>1, SectionsAre DEF LaidOut, FileAfter, MemAfter, InMemory
<1>6. LaidOut(2)' /\ InMemory(2)'
  BY <1>1, <1>4, <1>5, SameLayout
<1> QED
  BY <1>2, <1>6

LEMMA FirstIsLaidOut ==
  ASSUME TypeInv, NEW n, n = next, LaidOut(n), InMemory(n), LayoutFirstSection
  PROVE  LaidOut(n + 1)' /\ InMemory(n + 1)'
<1> DEFINE bytes == IF NoBits(n) THEN 0 ELSE sections[n].size
<1>1. /\ Worked /\ n \in DOMAIN sections
      /\ \A t \in DOMAIN sections : t # n => sections'[t] = sections[t]
      /\ sections'[n].at = end.file /\ sections'[n].mem = end.mem
      /\ sections'[n].size = sections[n].size /\ sections'[n].pad = sections[n].pad
      /\ end'.file = end.file + bytes /\ end'.mem = end.mem + sections[n].size
  BY LayoutFirstIs
<1>2. Previous(n) = 0 /\ sections[n].name # <<>> /\ n \in Nat /\ n >= 1 /\ n <= Len(sections) /\ Len(sections) \in Nat
  BY <1>1, SectionsAre DEF LayoutFirstSection
<1>3. end.file = 64 /\ end.mem = 64
  BY <1>2 DEF LaidOut, FileAfter, MemAfter
<1>4. sections[n].size \in Nat
  BY <1>1, SectionsAre DEF IsSection
<1>5. ASSUME NEW s \in DOMAIN sections, s < n PROVE sections[s].name = <<>>
  <2>1. ~(n > 1 /\ sections[n - 1].name # <<>>)
    <3>1. n <= Len(sections) + 1
      BY <1>2
    <3>2. Previous(n) = IF n > 1 /\ sections[n - 1].name # <<>> THEN n - 1 ELSE 0
      BY <1>2, <3>1, PreviousIs
    <3>3. n > 1 => n - 1 # 0
      BY <1>2
    <3> QED
      BY <1>2, <3>2, <3>3
  <2>2. s \in Nat /\ s >= 1
    BY SectionsAre
  <2>3. n > 1 /\ sections[n - 1].name = <<>> /\ n - 1 \in DOMAIN sections
    BY <1>2, <1>5, <2>1, <2>2, SectionsAre
  <2>4. n - 1 = 1
    BY <2>3 DEF TypeInv, SectionsTyped, NullIsEmpty
  <2>5. s = n - 1
    BY <1>2, <1>5, <2>2, <2>4
  <2> QED
    BY <2>3, <2>5
<1>6. /\ DOMAIN sections' = DOMAIN sections
      /\ \A s \in DOMAIN sections : sections'[s].name = sections[s].name /\ NoBits(s)' = NoBits(s)
      /\ (CodeFirst' <=> CodeFirst)
      /\ Previous(n)' = 0 /\ Previous(n + 1)' = n
  <2>1. Previous(n + 1) = n
    BY <1>2, PreviousIs
  <2>2. n + 1 \in Nat /\ n + 1 >= 1 /\ n + 1 <= Len(sections) + 1 /\ n <= Len(sections) + 1
    BY <1>2
  <2> QED
    BY <2>1, <2>2, <1>1, <1>2, SameNeighbours
<1>7. \A t \in DOMAIN sections : t >= n - 1 \/ sections[t].name = <<>> => sections[t].pad = 0
  BY DEF LaidOut
<1>8. sections[n].pad = 0
  <2>1. n >= n - 1
    BY <1>2
  <2> QED
    BY <1>1, <1>7, <2>1
<1>9. SavedSize(n)' = bytes
  BY <1>1, <1>4, <1>6, <1>8 DEF SavedSize
<1>10. FileAfter(n)' = 64 + bytes /\ MemAfter(n)' = 64 + sections[n].size
  BY <1>1, <1>2, <1>3, <1>9 DEF FileAfter, MemAfter
<1>11. end'.file = FileAfter(Previous(n + 1))' /\ end'.mem = MemAfter(Previous(n + 1))'
  BY <1>6, <1>1, <1>3, <1>10 DEF FileAfter, MemAfter, SavedSize, NoBits
<1>12. FileAfter(Previous(n))' = 64 /\ MemAfter(Previous(n))' = 64
  BY <1>6 DEF FileAfter, MemAfter
<1>13. \A t \in DOMAIN sections' : t >= (n + 1) - 1 \/ sections'[t].name = <<>> => sections'[t].pad = 0
  <2> SUFFICES ASSUME NEW t \in DOMAIN sections, t >= (n + 1) - 1 \/ sections'[t].name = <<>> PROVE sections'[t].pad = 0
    BY <1>6
  <2>1. sections'[t].pad = sections[t].pad
    BY <1>1
  <2>2. t \in Nat
    BY SectionsAre
  <2>3. t >= n - 1 \/ sections[t].name = <<>>
    BY <1>2, <1>6, <2>2
  <2> QED
    BY <1>7, <2>1, <2>3
<1>14. ASSUME NEW s \in DOMAIN sections', s < n + 1, sections'[s].name # <<>> PROVE s = n
  <2>1. ~(s < n)
    BY <1>5, <1>6, <1>14
  <2>2. s \in Nat
    BY <1>6, SectionsAre
  <2> QED
    BY <1>2, <1>14, <2>1, <2>2
<1>15. OnAlignment(n)'
  BY <1>6 DEF OnAlignment
<1>16. LaidOut(n + 1)'
  BY <1>1, <1>3, <1>11, <1>12, <1>13, <1>14, <1>15 DEF LaidOut
<1>17. ASSUME \A t \in DOMAIN sections' : t < n + 1 => ~NoBits(t)' PROVE end'.file = end'.mem
  <2>1. ~NoBits(n)
    BY <1>1, <1>2, <1>6, <1>17
  <2> QED
    BY <2>1, <1>1, <1>3
<1>18. InMemory(n + 1)'
  BY <1>1, <1>3, <1>12, <1>14, <1>17 DEF InMemory
<1> QED
  BY <1>16, <1>18

\* The section before is filled up to where the next one begins.
LEMMA NextIsLaidOut ==
  ASSUME TypeInv, NEW n, n = next, LaidOut(n), InMemory(n), LayoutSection
  PROVE  LaidOut(n + 1)' /\ InMemory(n + 1)'
<1> DEFINE p == n - 1
           al == AlignFor(n)
           fp == FilePad(p, al)
           mp == MemPad(p, al)
           bytes == IF NoBits(n) THEN 0 ELSE sections[n].size
<1>1. /\ Worked /\ sections'[p] = Padded(p, al)
      /\ \A t \in DOMAIN sections : t # p /\ t # n => sections'[t] = sections[t]
      /\ sections'[n].at = end.file + fp /\ sections'[n].mem = end.mem + mp
      /\ sections'[n].size = sections[n].size /\ sections'[n].pad = sections[n].pad
      /\ sections'[n].align = sections[n].align
      /\ end'.file = end.file + fp + bytes /\ end'.mem = end.mem + mp + sections[n].size
  BY LayoutSectionIs
<1>2. /\ Previous(n) = p /\ p \in DOMAIN sections /\ n \in DOMAIN sections
      /\ sections[p].name # <<>> /\ sections[n].name # <<>>
      /\ Pads(p, al) \in Alignments /\ fp \in Nat /\ mp \in Nat
  BY LayoutAt DEF LayoutSection
<1>3. n \in Nat /\ n > 1 /\ n <= Len(sections) /\ Len(sections) \in Nat /\ p \in Nat /\ p >= 1 /\ p # 0 /\ p < n
  BY <1>2, SectionsAre
<1>4. /\ IsSection(sections[n]) /\ IsSection(sections[p]) /\ end.file \in Nat /\ end.mem \in Nat
      /\ sections[n].size \in Nat /\ sections[p].size \in Nat /\ sections[p].at \in Nat /\ sections[p].mem \in Nat
      /\ sections[n].align \in Alignments
  BY <1>2, SectionsAre DEF IsSection, TypeInv
<1>5. /\ sections'[p].at = sections[p].at /\ sections'[p].mem = sections[p].mem /\ sections'[p].align = sections[p].align
      /\ IsText(sections[p].name) => sections'[p].size = sections[p].size + fp /\ sections'[p].pad = sections[p].pad
      /\ ~IsText(sections[p].name) => /\ sections'[p].size = sections[p].size
                                      /\ sections'[p].pad = IF NoBits(p) THEN mp ELSE fp
  BY <1>1, <1>2, PaddedIs
<1>6. /\ DOMAIN sections' = DOMAIN sections
      /\ \A s \in DOMAIN sections : sections'[s].name = sections[s].name /\ NoBits(s)' = NoBits(s)
      /\ (CodeFirst' <=> CodeFirst)
      /\ \A s \in DOMAIN sections : Previous(s)' = Previous(s)
      /\ Previous(n + 1)' = n
  <2>1. Previous(n + 1) = n
    BY <1>3, <1>2, PreviousIs
  <2>2. n + 1 \in Nat /\ n + 1 >= 1 /\ n + 1 <= Len(sections) + 1
    BY <1>3
  <2>3. \A s \in DOMAIN sections : s \in Nat /\ s >= 1 /\ s <= Len(sections) + 1
    BY SectionsAre
  <2> QED
    BY <2>1, <2>2, <2>3, <1>1, SameNeighbours
<1>7. \A t \in DOMAIN sections : t >= n - 1 \/ sections[t].name = <<>> => sections[t].pad = 0
  BY DEF LaidOut
<1>8. sections[n].pad = 0 /\ sections[p].pad = 0
  <2>1. n >= n - 1 /\ p >= n - 1
    BY <1>3
  <2> QED
    BY <1>2, <1>7, <2>1
<1>9. end.file = sections[p].at + SavedSize(p) /\ end.mem = sections[p].mem + sections[p].size
  BY <1>2, <1>3 DEF LaidOut, FileAfter, MemAfter
<1> HIDE DEF p, al, bytes, fp, mp
<1>10. NoBits(p) => fp = 0
  BY DEF FilePad, fp
<1>11. SavedSize(p) = IF NoBits(p) THEN 0 ELSE sections[p].size
  BY <1>4, <1>8 DEF SavedSize
<1>12. SavedSize(p)' = IF NoBits(p) THEN 0 ELSE sections'[p].size + IF IsText(sections[p].name) THEN 0 ELSE sections'[p].pad
  <2>1. (NoBits(p)' <=> NoBits(p)) /\ sections'[p].name = sections[p].name
    BY <1>2, <1>6
  <2> QED
    BY <2>1 DEF SavedSize, NoBits
<1>13. SavedSize(p)' = SavedSize(p) + fp
  <2>1. CASE NoBits(p)
    BY <2>1, <1>10, <1>11, <1>12
  <2>2. CASE ~NoBits(p) /\ IsText(sections[p].name)
    BY <2>2, <1>4, <1>5, <1>2, <1>11, <1>12
  <2>3. CASE ~NoBits(p) /\ ~IsText(sections[p].name)
    BY <2>3, <1>4, <1>5, <1>2, <1>11, <1>12
  <2> QED
    BY <2>1, <2>2, <2>3
<1>14. FileAfter(p)' = end.file + fp
  <2>1. SavedSize(p) \in Nat
    BY <1>4, <1>11
  <2>2. FileAfter(p)' = sections'[p].at + SavedSize(p)'
    BY <1>3 DEF FileAfter, p
  <2>3. FileAfter(p)' = sections[p].at + (SavedSize(p) + fp)
    BY <2>2, <1>5, <1>13
  <2> QED
    BY <2>1, <2>3, <1>2, <1>4, <1>9
<1>15. FileAfter(Previous(n))' = FileAfter(p)' /\ MemAfter(Previous(n))' = MemAfter(p)'
  <2>1. Previous(n)' = p
    BY <1>2, <1>6
  <2> QED
    BY <2>1 DEF FileAfter, MemAfter, SavedSize, NoBits
<1>16. sections'[n].at = FileAfter(Previous(n))'
  BY <1>1, <1>14, <1>15
\* The next section's own alignment.
<1>17. ASSUME ~NoBits(n), ~NoBits(p) PROVE Aligned(sections'[n].at, sections[n].align) = sections'[n].at
  <2>1. sections'[n].at = Aligned(end.file, Pads(p, al))
    <3>1. fp = Aligned(end.file, Pads(p, al)) - end.file
      BY <1>17 DEF FilePad, fp
    <3>2. Aligned(end.file, Pads(p, al)) \in Nat
      BY <1>2, <1>4, AlignedUp
    <3> QED
      BY <3>1, <3>2, <1>1, <1>4
  <2>2. CASE IsText(sections[p].name)
    <3>1. al = 128
      BY <2>2, <1>2, <1>3, <1>17 DEF AlignFor, al
    <3>2. 128 \in Alignments /\ sections[p].align \in Alignments
      BY <1>4 DEF IsSection, Alignments
    <3>3. Pads(p, al) = 128
      BY <2>2, <3>1, <3>2, LargerType DEF Pads
    <3> QED
      BY <2>1, <3>3, <1>4, AlignedUp
  <2>3. CASE ~IsText(sections[p].name)
    BY <2>3, <1>2, <2>1, <1>4, AlignedUp DEF AlignFor, al, Pads
  <2> QED
    BY <2>2, <2>3
<1>18. OnAlignment(n)'
  <2>1. Previous(n)' = p /\ (NoBits(n)' <=> NoBits(n)) /\ (NoBits(p)' <=> NoBits(p))
    BY <1>2, <1>6
  <2> SUFFICES ASSUME ~NoBits(n)', ~NoBits(Previous(n))' PROVE Aligned(sections'[n].at, sections'[n].align) = sections'[n].at
    BY DEF OnAlignment
  <2>2. ~NoBits(n) /\ ~NoBits(p)
    BY <2>1 DEF NoBits
  <2> QED
    BY <2>2, <1>1, <1>17
\* The sections before are where they were.
<1>19. ASSUME NEW s \in DOMAIN sections, s < n, sections[s].name # <<>>
       PROVE  /\ Previous(s)' = Previous(s) /\ FileAfter(Previous(s))' = FileAfter(Previous(s))
              /\ MemAfter(Previous(s))' = MemAfter(Previous(s))
              /\ sections'[s].at = sections[s].at /\ sections'[s].mem = sections[s].mem
              /\ sections'[s].align = sections[s].align
              /\ (OnAlignment(s) => OnAlignment(s)')
  <2>1. s \in Nat /\ s >= 1 /\ s <= Len(sections) + 1
    BY SectionsAre
  <2>2. Previous(s)' = Previous(s)
    BY <1>6
  <2>3. sections'[s].at = sections[s].at /\ sections'[s].mem = sections[s].mem /\ sections'[s].align = sections[s].align
    <3>1. CASE s = p
      BY <3>1, <1>5
    <3>2. CASE s # p
      BY <3>2, <1>1, <1>3, <1>19, <2>1
    <3> QED
      BY <3>1, <3>2
  <2>4. Previous(s) = 0 \/ (Previous(s) = s - 1 /\ s - 1 \in DOMAIN sections)
    BY <2>1, PreviousIs, SectionsAre
  <2>5. PICK q : q = Previous(s)
    OBVIOUS
  <2>6. q # 0 => sections'[q] = sections[q] /\ q \in DOMAIN sections
    <3>1. s - 1 # n /\ s - 1 # p
      BY <1>3, <1>19, <2>1 DEF p
    <3> QED
      BY <1>1, <2>4, <2>5, <3>1
  <2>7. q # 0 => (NoBits(q)' <=> NoBits(q)) /\ SavedSize(q)' = SavedSize(q)
    BY <2>6 DEF NoBits, SavedSize
  <2>8. FileAfter(Previous(s))' = FileAfter(q) /\ MemAfter(Previous(s))' = MemAfter(q)
    BY <2>6, <2>7, <2>2, <2>5 DEF FileAfter, MemAfter, SavedSize, NoBits
  <2>9. OnAlignment(s) => OnAlignment(s)'
    <3>1. NoBits(s)' <=> NoBits(s)
      BY <1>6
    <3> QED
      BY <2>2, <2>3, <2>5, <2>6, <3>1 DEF OnAlignment, NoBits
  <2> QED
    BY <2>2, <2>3, <2>5, <2>8, <2>9
<1>20. ASSUME NEW s \in DOMAIN sections', s < n + 1, sections'[s].name # <<>>
       PROVE  s = n \/ (s < n /\ s \in DOMAIN sections /\ sections[s].name # <<>>)
  <2>1. s \in DOMAIN sections /\ s \in Nat
    BY <1>6, SectionsAre
  <2> QED
    BY <2>1, <1>3, <1>6, <1>20
<1>21. \A t \in DOMAIN sections' : t >= (n + 1) - 1 \/ sections'[t].name = <<>> => sections'[t].pad = 0
  <2> SUFFICES ASSUME NEW t \in DOMAIN sections, t >= (n + 1) - 1 \/ sections'[t].name = <<>> PROVE sections'[t].pad = 0
    BY <1>6
  <2>1. t \in Nat
    BY SectionsAre
  <2>2. t # p
    <3>1. sections'[p].name # <<>>
      BY <1>2, <1>6
    <3> QED
      BY <3>1, <1>3, <2>1
  <2>3. sections'[t].pad = sections[t].pad
    BY <1>1, <2>2
  <2>4. t >= n - 1 \/ sections[t].name = <<>>
    BY <1>3, <1>6, <2>1
  <2> QED
    BY <1>7, <2>3, <2>4
<1>22. end'.file = FileAfter(Previous(n + 1))' /\ end'.mem = MemAfter(Previous(n + 1))'
  <2>1. FileAfter(Previous(n + 1))' = FileAfter(n)' /\ MemAfter(Previous(n + 1))' = MemAfter(n)'
    BY <1>6 DEF FileAfter, MemAfter, SavedSize, NoBits
  <2>2. SavedSize(n)' = bytes
    BY <1>1, <1>2, <1>6, <1>8, <1>4 DEF SavedSize, NoBits, bytes
  <2>3. FileAfter(n)' = sections'[n].at + bytes /\ MemAfter(n)' = sections'[n].mem + sections'[n].size
    BY <2>2, <1>3 DEF FileAfter, MemAfter
  <2> QED
    BY <2>1, <2>3, <1>1
<1>23. LaidOut(n + 1)'
  <2>1. ASSUME NEW s \in DOMAIN sections', s < n + 1, sections'[s].name # <<>>
        PROVE  sections'[s].at = FileAfter(Previous(s))' /\ OnAlignment(s)'
    <3>1. CASE s = n
      BY <3>1, <1>16, <1>18
    <3>2. CASE s < n /\ s \in DOMAIN sections /\ sections[s].name # <<>>
      BY <3>2, <1>19 DEF LaidOut
    <3> QED
      BY <2>1, <3>1, <3>2, <1>20
  <2> QED
    BY <2>1, <1>21, <1>22 DEF LaidOut
\* In memory.
<1>24. CodeFirst => (NoBits(p) \/ ~IsText(sections[p].name) \/ end.file = end.mem)
  <2> SUFFICES ASSUME CodeFirst, ~NoBits(p), IsText(sections[p].name) PROVE end.file = end.mem
    OBVIOUS
  <2>1. ASSUME NEW t \in DOMAIN sections, t < n PROVE ~NoBits(t)
    <3>1. t \in Nat
      BY SectionsAre
    <3>2. t = p \/ t < p
      BY <3>1, <2>1, <1>3 DEF p
    <3> QED
      BY <3>2, <1>2 DEF CodeFirst
  <2> QED
    BY <2>1 DEF InMemory
<1>25. end.file = end.mem /\ ~NoBits(p) => fp = mp
  BY DEF FilePad, MemPad, fp, mp
<1>26. MemAfter(p)' = sections[p].mem + sections'[p].size
  BY <1>3, <1>5 DEF MemAfter, p
<1>27. CodeFirst => MemAfter(p)' <= end.mem + mp
  <2>1. CASE ~IsText(sections[p].name)
    BY <2>1, <1>2, <1>4, <1>5, <1>9, <1>26
  <2>2. CASE IsText(sections[p].name)
    <3>1. CodeFirst => fp <= mp
      BY <2>2, <1>2, <1>10, <1>24, <1>25
    <3> QED
      BY <2>2, <3>1, <1>2, <1>4, <1>5, <1>9, <1>26
  <2> QED
    BY <2>1, <2>2
<1>28. InMemory(n + 1)'
  <2> SUFFICES ASSUME CodeFirst
               PROVE  /\ (\A t \in DOMAIN sections' : t < n + 1 => ~NoBits(t)') => end'.file = end'.mem
                      /\ \A s \in DOMAIN sections' : s < n + 1 /\ sections'[s].name # <<>> =>
                           MemAfter(Previous(s))' <= sections'[s].mem
    BY <1>6 DEF InMemory
  <2>1. ASSUME \A t \in DOMAIN sections' : t < n + 1 => ~NoBits(t)' PROVE end'.file = end'.mem
    <3>1. \A t \in DOMAIN sections : t < n \/ t = n => ~NoBits(t)
      <4>1. \A t \in DOMAIN sections : t < n \/ t = n => t < n + 1
        BY <1>3, SectionsAre
      <4> QED
        BY <2>1, <4>1, <1>6
    <3>2. end.file = end.mem
      BY <3>1 DEF InMemory
    <3>3. ~NoBits(p) /\ ~NoBits(n)
      BY <3>1, <1>2, <1>3
    <3>4. fp = mp
      BY <3>2, <3>3, <1>25
    <3> QED
      BY <3>2, <3>3, <3>4, <1>1 DEF bytes
  <2>2. ASSUME NEW s \in DOMAIN sections', s < n + 1, sections'[s].name # <<>>
        PROVE  MemAfter(Previous(s))' <= sections'[s].mem
    <3>1. CASE s = n
      BY <3>1, <1>1, <1>15, <1>27
    <3>2. CASE s < n /\ s \in DOMAIN sections /\ sections[s].name # <<>>
      <4>1. MemAfter(Previous(s)) <= sections[s].mem
        BY <3>2 DEF InMemory
      <4> QED
        BY <3>2, <4>1, <1>19
    <3> QED
      BY <2>2, <3>1, <3>2, <1>20
  <2> QED
    BY <2>1, <2>2
<1> QED
  BY <1>23, <1>28

-----------------------------------------------------------------------------
(* The file that is saved.                                                 *)

\* Where the bytes of each section go.
LEMMA SavedIn ==
  ASSUME TypeInv, LaidOut(Len(sections) + 1), NEW pos,
         pos = CHOOSE f : f = [s \in 1..(Len(sections) + 1) |-> IF s = 1 THEN 64 ELSE f[s - 1] + SavedSize(s - 1)]
  PROVE  \A s \in 1..(Len(sections) + 1) : pos[s] = FileAfter(Previous(s))
<1> DEFINE n == Len(sections) + 1
           place == [s \in 1..n |-> FileAfter(Previous(s))]
<1>1. Len(sections) \in Nat /\ DOMAIN sections = 1..Len(sections) /\ n \in Nat
  BY SectionsAre
<1>2. FileAfter(Previous(1)) = 64
  <2>1. Previous(1) = 0
    BY <1>1, PreviousIs
  <2> QED
    BY <2>1 DEF FileAfter
<1>3. ASSUME NEW s \in 1..n, s # 1
      PROVE  FileAfter(Previous(s)) = FileAfter(Previous(s - 1)) + SavedSize(s - 1)
  <2>1. s - 1 \in DOMAIN sections /\ s - 1 \in 1..n /\ s - 1 # 0 /\ s - 1 < n /\ s > 1 /\ s \in Nat /\ s <= n
    BY <1>1, <1>3
  <2>2. Previous(s) = IF sections[s - 1].name # <<>> THEN s - 1 ELSE 0
    BY <2>1, PreviousIs
  <2>3. CASE sections[s - 1].name # <<>>
    BY <2>1, <2>2, <2>3 DEF FileAfter, LaidOut
  <2>4. CASE sections[s - 1].name = <<>>
    <3>1. s - 1 = 1 /\ sections[s - 1].size = 0 /\ sections[s - 1].pad = 0
      BY <2>1, <2>4 DEF TypeInv, SectionsTyped, NullIsEmpty, LaidOut
    <3>2. SavedSize(s - 1) = 0
      BY <3>1 DEF SavedSize
    <3>3. FileAfter(Previous(s)) = 64 /\ FileAfter(Previous(s - 1)) = 64
      BY <2>2, <2>4, <3>1, <1>2 DEF FileAfter
    <3> QED
      BY <3>2, <3>3
  <2> QED
    BY <2>3, <2>4
<1>4. place = [s \in 1..n |-> IF s = 1 THEN 64 ELSE place[s - 1] + SavedSize(s - 1)]
  <2>1. \A s \in 1..n : s # 1 => s - 1 \in 1..n
    BY <1>1
  <2>2. ASSUME NEW s \in 1..n PROVE place[s] = IF s = 1 THEN 64 ELSE place[s - 1] + SavedSize(s - 1)
    BY <2>1, <1>2, <1>3
  <2> QED
    BY <2>2
<1> HIDE DEF place
<1> DEFINE Sums(f) == f = [s \in 1..n |-> IF s = 1 THEN 64 ELSE f[s - 1] + SavedSize(s - 1)]
<1>5. pos = [s \in 1..n |-> IF s = 1 THEN 64 ELSE pos[s - 1] + SavedSize(s - 1)]
  <2>1. Sums(place)
    BY <1>4
  <2>2. pos = CHOOSE f : Sums(f)
    OBVIOUS
  <2> HIDE DEF Sums
  <2>3. Sums(pos)
    BY <2>1, <2>2
  <2> QED
    BY <2>3 DEF Sums
<1> DEFINE Off == {s \in 1..n : pos[s] # place[s]}
<1>6. Off = {}
  <2> SUFFICES ASSUME Off # {} PROVE FALSE
    OBVIOUS
  <2>1. Off \in SUBSET Nat
    BY <1>1
  <2> HIDE DEF Off
  <2>2. PICK s \in Off : \A t \in Off : s <= t
    BY <2>1, LeastElement
  <2> USE DEF Off
  <2>3. s \in 1..n /\ pos[s] # place[s] /\ s \in Nat
    BY <1>1
  <2>4. CASE s = 1
    BY <2>3, <2>4, <1>4, <1>5
  <2>5. CASE s # 1
    <3>1. s - 1 \in 1..n /\ ~(s <= s - 1)
      BY <2>3, <2>5, <1>1
    <3>2. pos[s - 1] = place[s - 1]
      BY <2>2, <3>1
    <3>3. pos[s] = pos[s - 1] + SavedSize(s - 1)
      BY <2>3, <2>5, <1>5
    <3>4. place[s] = place[s - 1] + SavedSize(s - 1)
      BY <2>3, <2>5, <1>4
    <3> QED
      BY <2>3, <3>2, <3>3, <3>4
  <2> QED
    BY <2>4, <2>5
<1> QED
  BY <1>6 DEF place

LEMMA SaveMatches ==
  ASSUME TypeInv, LaidOut(Len(sections) + 1), Save
  PROVE  FileMatchesHeaders'
<1> DEFINE n == Len(sections) + 1
           pos == CHOOSE f : f = [s \in 1..n |-> IF s = 1 THEN 64 ELSE f[s - 1] + SavedSize(s - 1)]
           headers == pos[n] + Shoff - end.file
<1>1. /\ sections' = sections /\ end' = end
      /\ file' = [at |-> [s \in DOMAIN sections |-> pos[s]], shoff |-> headers, phoff |-> headers + 64 * Len(sections)]
  BY DEF Save
<1>2. Len(sections) \in Nat /\ DOMAIN sections = 1..Len(sections)
  BY SectionsAre
<1>3. \A s \in 1..n : pos[s] = FileAfter(Previous(s))
  BY SavedIn
<1> HIDE DEF pos
<1>4. headers = Shoff
  <2>1. pos[n] = end.file
    BY <1>2, <1>3 DEF LaidOut
  <2>2. end.file \in Nat /\ 8 \in Alignments
    BY DEF TypeInv, Alignments
  <2>3. Shoff \in Nat
    BY <2>2, AlignedUp DEF Shoff
  <2> QED
    BY <2>1, <2>2, <2>3
<1> HIDE DEF headers
<1>5. file'.shoff = Shoff /\ file'.phoff = Phoff
  BY <1>1, <1>4 DEF Phoff
<1>6. Shoff' = Shoff /\ Phoff' = Phoff
  BY <1>1 DEF Shoff, Phoff, Aligned
<1>7. \A s : Previous(s)' = Previous(s) /\ (NoBits(s)' <=> NoBits(s))
  BY <1>1 DEF Previous, NoBits
<1>8. ASSUME NEW s \in DOMAIN sections, sections[s].name # <<>>, ~NoBits(s)
      PROVE  /\ file'.at[s] = sections[s].at
             /\ Previous(s) # 0 /\ ~NoBits(Previous(s)) => Aligned(sections[s].at, sections[s].align) = sections[s].at
  <2>1. s \in 1..n /\ s < n
    BY <1>2
  <2>2. sections[s].at = FileAfter(Previous(s)) /\ OnAlignment(s)
    BY <2>1, <1>8 DEF LaidOut
  <2>3. file'.at[s] = pos[s]
    BY <1>1
  <2> QED
    BY <2>1, <2>2, <2>3, <1>3, <1>8 DEF OnAlignment
<1>9. ASSUME NEW s \in DOMAIN sections', sections'[s].name # <<>>, ~NoBits(s)'
      PROVE  /\ file'.at[s] = sections'[s].at
             /\ Previous(s)' # 0 /\ ~NoBits(Previous(s))' => Aligned(file'.at[s], sections'[s].align) = file'.at[s]
  BY <1>1, <1>7, <1>9, <1>8 DEF NoBits
<1> QED
  BY <1>5, <1>6, <1>9 DEF FileMatchesHeaders

-----------------------------------------------------------------------------
(* The steps of the passes from the layout on.                             *)

\* A segment is located where the sections it goes from and to are.
LEMMA LocatedIs ==
  ASSUME NEW g, DOMAIN g = {"type", "first", "last", "at", "filesz", "memsz"}
  PROVE  /\ Located(g).type = g.type /\ Located(g).first = g.first /\ Located(g).last = g.last
         /\ Ranged(g) => /\ Located(g).at = StartOf(g.first).file
                         /\ Located(g).filesz = EndOf(g.last).file - StartOf(g.first).file
                         /\ Located(g).memsz = EndOf(g.last).mem - StartOf(g.first).mem
<1>1. CASE g.type = "PHDR"
  BY <1>1 DEF Located, Ranged
<1>2. CASE g.type # "PHDR" /\ Ranged(g)
  BY <1>2 DEF Located
<1>3. CASE g.type # "PHDR" /\ ~Ranged(g)
  BY <1>3 DEF Located
<1> QED
  BY <1>1, <1>2, <1>3

LEMMA SegmentsLocated ==
  ASSUME TypeInv, LocateSegments
  PROVE  \A k \in DOMAIN segments' : HasRange(segments[k])'
<1>1. /\ \A k \in DOMAIN segments : SegmentGood(segments[k])
      /\ segments' = [k \in DOMAIN segments |-> Located(segments[k])]
      /\ sections' = sections /\ end' = end /\ src' = src
  BY DEF LocateSegments, result
<1>2. \A name : (HasEdge(name)' <=> HasEdge(name)) /\ SectionOf(name)' = SectionOf(name)
  BY <1>1 DEF HasEdge, HasSection, SectionOf
<1>3. Phoff' = Phoff /\ Phlen' = Phlen /\ \A s : NoBits(s)' <=> NoBits(s)
  BY <1>1 DEF Phoff, Phlen, Shoff, Aligned, NoBits
<1>4. \A name : StartOf(name)' = StartOf(name) /\ EndOf(name)' = EndOf(name)
  BY <1>1, <1>2, <1>3 DEF StartOf, EndOf
<1> SUFFICES ASSUME NEW k \in DOMAIN segments
             PROVE  HasRange(segments[k])'
  BY <1>1
<1>5. PICK g : g = segments[k]
  OBVIOUS
<1>6. PICK h : h = Located(g)
  OBVIOUS
<1>7. /\ h.type = g.type /\ h.first = g.first /\ h.last = g.last
      /\ Ranged(g) => /\ h.at = StartOf(g.first).file
                      /\ h.filesz = EndOf(g.last).file - StartOf(g.first).file
                      /\ h.memsz = EndOf(g.last).mem - StartOf(g.first).mem
  BY <1>5, <1>6, LocatedIs DEF TypeInv, SegmentsTyped
<1>8. SegmentGood(g) /\ segments'[k] = h
  BY <1>1, <1>5, <1>6
<1>9. HasRange(h)'
  BY <1>2, <1>4, <1>7, <1>8 DEF HasRange, Ranged, SegmentGood
<1> QED
  BY <1>8, <1>9 DEF HasRange, Ranged

LEMMA SameRanges ==
  ASSUME sections' = sections, end' = end, src' = src, segments' = segments,
         \A k \in DOMAIN segments : HasRange(segments[k])
  PROVE  \A k \in DOMAIN segments' : HasRange(segments[k])'
<1>2. \A name : (HasEdge(name)' <=> HasEdge(name)) /\ SectionOf(name)' = SectionOf(name)
  BY DEF HasEdge, HasSection, SectionOf
<1>3. Phoff' = Phoff /\ Phlen' = Phlen /\ \A s : NoBits(s)' <=> NoBits(s)
  BY DEF Phoff, Phlen, Shoff, Aligned, NoBits
<1>4. \A name : StartOf(name)' = StartOf(name) /\ EndOf(name)' = EndOf(name)
  BY <1>2, <1>3 DEF StartOf, EndOf
<1> QED
  BY <1>2, <1>4 DEF HasRange, Ranged

\* The steps of a layout, and those that only go on.
LEMMA LayoutGoes ==
  ASSUME TypeInv, LayoutInv, LayoutFirstSection \/ LayoutSection \/ SkipNull
  PROVE  LayoutInv'
<1>1. PICK n : n = next
  OBVIOUS
<1>2. stage = "layout" /\ next <= Len(sections) /\ stage' = stage /\ next' = next + 1
  BY DEF LayoutFirstSection, LayoutSection, SkipNull, Stay
<1>3. LaidOut(n) /\ InMemory(n)
  BY <1>1, <1>2 DEF LayoutInv
<1>4. LaidOut(n + 1)' /\ InMemory(n + 1)'
  BY <1>1, <1>3, NullIsSkipped, FirstIsLaidOut, NextIsLaidOut
<1>5. next' = n + 1
  BY <1>1, <1>2
<1>6. LaidOut(next)' /\ InMemory(next)'
  BY <1>4, <1>5 DEF LaidOut, InMemory
<1>7. Len(sections') = Len(sections)
  <2>1. CASE LayoutFirstSection
    BY <2>1, <1>1, LayoutFirstIs, WorkedLen
  <2>2. CASE LayoutSection
    BY <2>2, LayoutSectionIs, WorkedLen
  <2>3. CASE SkipNull
    BY <2>3 DEF SkipNull
  <2> QED
    BY <2>1, <2>2, <2>3
<1>8. next' <= Len(sections') + 1
  BY <1>2, <1>7, SectionsAre DEF TypeInv
<1> QED
  BY <1>2, <1>6, <1>8 DEF LayoutInv, FileMatchesHeaders

LEMMA LayoutEnds ==
  ASSUME TypeInv, LayoutInv, LayoutEnd
  PROVE  LayoutInv'
<1>1. /\ stage = "layout" /\ next > Len(sections) /\ GoOn
      /\ sections' = sections /\ end' = end
  BY DEF LayoutEnd, result
<1>2. stage' = "segments"
  BY <1>1, GoesOn
<1>3. PICK n : n = Len(sections) + 1
  OBVIOUS
<1>4. next = n
  BY <1>1, <1>3, SectionsAre DEF LayoutInv, TypeInv
<1>5. LaidOut(n)' /\ InMemory(n)'
  BY <1>1, <1>4, SameLayout DEF LayoutInv
<1>6. LaidOut(Len(sections) + 1)' /\ InMemory(Len(sections) + 1)'
  BY <1>1, <1>3, <1>5
<1> QED
  BY <1>2, <1>6 DEF LayoutInv, FileMatchesHeaders

\* A later pass leaves the sections where they are.
LEMMA PassLeavesLayout ==
  ASSUME TypeInv, LayoutInv, stage \in {"segments", "symtab", "save"}, GoOn,
         sections' = sections, end' = end,
         stage # "segments" => src' = src /\ segments' = segments,
         stage = "segments" => \A k \in DOMAIN segments' : HasRange(segments[k])',
         stage = "save" => FileMatchesHeaders'
  PROVE  LayoutInv'
<1>1. stage' \in {"symtab", "save", "done"} /\ (stage # "save" => stage' # "done")
  BY GoesOn
<1>2. PICK n : n = Len(sections) + 1
  OBVIOUS
<1>3. LaidOut(n)' /\ InMemory(n)'
  BY <1>2, SameLayout DEF LayoutInv
<1>4. LaidOut(Len(sections) + 1)' /\ InMemory(Len(sections) + 1)'
  BY <1>2, <1>3
<1>5. \A k \in DOMAIN segments' : HasRange(segments[k])'
  BY SameRanges DEF LayoutInv
<1>6. FileMatchesHeaders'
  BY <1>1 DEF FileMatchesHeaders
<1> QED
  BY <1>1, <1>4, <1>5, <1>6 DEF LayoutInv

\* A step of any other pass begins no layout, or the layout of what is not
\* laid out.
LEMMA NoLayoutYet ==
  ASSUME stage' \notin {"layout", "segments", "symtab", "save", "done"}
  PROVE  LayoutInv'
  BY DEF LayoutInv, FileMatchesHeaders

LEMMA LayoutBegins ==
  ASSUME TypeInv, BuildRelocations
  PROVE  LayoutInv'
<1>1. stage = "relocations" /\ GoOn
  BY DEF BuildRelocations
<1>2. stage' = "layout" /\ next' = 1
  BY <1>1, GoesOn
<1>3. LaidOut(1)' /\ InMemory(1)'
  BY <1>1, NothingLaidOut
<1>4. LaidOut(next)' /\ InMemory(next)'
  BY <1>2, <1>3 DEF LaidOut, InMemory
<1>5. next' <= Len(sections') + 1
  <2>1. Worked
    BY BuildRelocationsWorked
  <2> QED
    BY <2>1, <1>2, WorkedLen
<1> QED
  BY <1>2, <1>4, <1>5 DEF LayoutInv, FileMatchesHeaders

LEMMA EarlyPasses ==
  ASSUME Scan \/ Evaluate \/ Kernels
  PROVE  stage' \notin {"layout", "segments", "symtab", "save", "done"}
<1>1. /\ stage \in {"scan", "gather", "tables", "fixups", "kernels", "regcounts"}
      /\ Stay \/ GoOn
  <2>1. CASE Scan
    BY <2>1 DEF Scan, Section, Align, Data, Zero, Label, OffsetLabel, Code, Size, Segment, ScanEnd, Scanning
  <2>2. CASE Evaluate
    BY <2>2 DEF Evaluate, Gather, BuildTables, EvalFixup, FixupsEnd
  <2>3. CASE Kernels
    BY <2>3 DEF Kernels, ParseKernel, SkipSection, KernelsEnd, CountRegs
  <2> QED
    BY <2>1, <2>2, <2>3
<1> QED
  BY <1>1, GoesOn DEF Stay

LEMMA StutterKeepsLayout ==
  ASSUME TypeInv, LayoutInv, UNCHANGED vars
  PROVE  LayoutInv'
<1>1. /\ src' = src /\ stage' = stage /\ next' = next /\ sections' = sections /\ end' = end
      /\ segments' = segments /\ file' = file
  BY DEF vars, scanned, result
<1>2. PICK n : n = next
  OBVIOUS
<1>3. PICK m : m = Len(sections) + 1
  OBVIOUS
<1>4. stage = "layout" => LaidOut(n)' /\ InMemory(n)' /\ next' <= Len(sections') + 1
  BY <1>1, <1>2, SameLayout DEF LayoutInv
<1>5. stage \in {"segments", "symtab", "save", "done"} => LaidOut(m)' /\ InMemory(m)'
  BY <1>1, <1>3, SameLayout DEF LayoutInv
<1>6. stage \in {"symtab", "save", "done"} => \A k \in DOMAIN segments' : HasRange(segments[k])'
  BY <1>1, SameRanges DEF LayoutInv
<1>7. FileMatchesHeaders'
  <2>1. FileMatchesHeaders' <=> FileMatchesHeaders
    BY <1>1 DEF FileMatchesHeaders, Previous, NoBits, Aligned, Shoff, Phoff
  <2> QED
    BY <2>1 DEF LayoutInv
<1>8. stage = "layout" => LaidOut(next)' /\ InMemory(next)'
  BY <1>1, <1>2, <1>4 DEF LaidOut, InMemory
<1>9. stage \in {"segments", "symtab", "save", "done"} => LaidOut(Len(sections) + 1)' /\ InMemory(Len(sections) + 1)'
  BY <1>1, <1>3, <1>5 DEF LaidOut, InMemory
<1> QED
  BY <1>1, <1>4, <1>6, <1>7, <1>8, <1>9 DEF LayoutInv

LEMMA LayoutKept ==
  ASSUME TypeInv, LayoutInv, [Next]_vars
  PROVE  LayoutInv'
<1>1. CASE Parse
  <2>1. stage' = "scan"
    BY <1>1 DEF Parse, Restart
  <2> QED
    BY <2>1, NoLayoutYet
<1>2. CASE Scan \/ Evaluate \/ Kernels
  BY <1>2, EarlyPasses, NoLayoutYet
<1>3. CASE BuildRelocations
  BY <1>3, LayoutBegins
<1>4. CASE Layout
  <2>1. CASE LocateSegments
    BY <2>1, SegmentsLocated, PassLeavesLayout DEF LocateSegments, result
  <2> QED
    BY <1>4, <2>1, LayoutGoes, LayoutEnds DEF Layout
<1>5. CASE UpdateSymtab
  BY <1>5, PassLeavesLayout DEF UpdateSymtab, result, scanned
<1>6. CASE Save
  BY <1>6, SaveMatches, PassLeavesLayout DEF Save, scanned, LayoutInv
<1>7. CASE Throw
  <2>1. stage' = "failed"
    BY <1>7, ThrowFails DEF Fail
  <2> QED
    BY <2>1, NoLayoutYet
<1>8. CASE UNCHANGED vars
  BY <1>8, StutterKeepsLayout
<1> QED
  BY <1>1, <1>2, <1>3, <1>4, <1>5, <1>6, <1>7, <1>8, Zenon DEF Next, Work

LEMMA LayoutHolds == Spec => [](TypeInv /\ LayoutInv)
<1>1. Init => TypeInv /\ LayoutInv
  <2>1. Init => LayoutInv
    BY DEF Init, LayoutInv, FileMatchesHeaders
  <2> QED
    BY <2>1, InitTyped
<1>2. (TypeInv /\ LayoutInv) /\ [Next]_vars => (TypeInv /\ LayoutInv)'
  BY NextTyped, LayoutKept
<1> QED
  BY <1>1, <1>2, PTL DEF Spec

\* However many sections there are and whatever they hold, the bytes that
\* saveAsCubin writes put each section and the headers where the headers that
\* the layout computed say, and on the section's alignment.
THEOREM FilesMatchHeaders == Spec => []FileMatchesHeaders
<1>1. LayoutInv => FileMatchesHeaders
  BY DEF LayoutInv
<1> QED
  BY <1>1, LayoutHolds, PTL

-----------------------------------------------------------------------------
(* What a segment holds.                                                   *)

LEMMA NeighboursInOrder ==
  ASSUME TypeInv, LaidOut(Len(sections) + 1), InMemory(Len(sections) + 1), CodeFirst,
         NEW t \in DOMAIN sections, t > 1, sections[t - 1].name # <<>>
  PROVE  Lies(t - 1, t)
<1>1. /\ Len(sections) \in Nat /\ DOMAIN sections = 1..Len(sections) /\ \A s \in DOMAIN sections : IsSection(sections[s])
  BY SectionsAre
<1>2. t \in Nat /\ t - 1 \in DOMAIN sections /\ t >= 1 /\ t < Len(sections) + 1 /\ t <= Len(sections) + 1 /\ t - 1 # 0
  BY <1>1
<1>3. Previous(t) = t - 1
  BY <1>2, PreviousIs
<1>4. sections[t].name # <<>>
  BY <1>2 DEF TypeInv, SectionsTyped, NullIsEmpty
<1>5. sections[t].at = FileAfter(t - 1)
  BY <1>2, <1>3, <1>4 DEF LaidOut
<1>6. MemAfter(t - 1) <= sections[t].mem
  BY <1>2, <1>3, <1>4 DEF InMemory
<1>7. /\ sections[t].at = sections[t - 1].at + SavedSize(t - 1)
      /\ sections[t - 1].mem + sections[t - 1].size <= sections[t].mem
  BY <1>2, <1>5, <1>6 DEF FileAfter, MemAfter
<1>8. \A s \in DOMAIN sections : /\ sections[s].at \in Nat /\ sections[s].mem \in Nat
                                 /\ sections[s].size \in Nat /\ sections[s].pad \in Nat
  BY <1>1 DEF IsSection
<1>9. SavedSize(t - 1) \in Nat /\ Bytes(t - 1) \in Nat /\ Bytes(t) \in Nat /\ Bytes(t - 1) <= SavedSize(t - 1)
  <2>1. ASSUME NEW s \in DOMAIN sections
        PROVE  SavedSize(s) \in Nat /\ Bytes(s) \in Nat /\ Bytes(s) <= SavedSize(s)
    BY <1>8 DEF SavedSize, Bytes
  <2> QED
    BY <1>2, <2>1
<1>10. /\ sections[t - 1].at \in Nat /\ sections[t - 1].mem \in Nat /\ sections[t - 1].size \in Nat
       /\ sections[t].at \in Nat /\ sections[t].mem \in Nat /\ sections[t].size \in Nat
  BY <1>2, <1>8
<1>11. sections[t - 1].at <= sections[t].at /\ sections[t - 1].at + Bytes(t - 1) <= sections[t].at + Bytes(t)
  <2>1. PICK a, b, m, n, z \in Nat : /\ a = sections[t - 1].at /\ b = sections[t].at /\ z = SavedSize(t - 1)
                                   /\ m = Bytes(t - 1) /\ n = Bytes(t)
    BY <1>9, <1>10
  <2>2. b = a + z /\ m <= z
    BY <2>1, <1>7, <1>9
  <2>3. a <= b /\ a + m <= b + n
    BY <2>2
  <2> QED
    BY <2>1, <2>3
<1>12. sections[t - 1].mem + sections[t - 1].size <= sections[t].mem + sections[t].size
  BY <1>7, <1>10
<1> QED
  BY <1>11, <1>12 DEF Lies

LEMMA SectionsInOrder ==
  ASSUME TypeInv, LaidOut(Len(sections) + 1), InMemory(Len(sections) + 1), CodeFirst,
         NEW s \in DOMAIN sections, NEW t \in DOMAIN sections, s <= t, sections[s].name # <<>>
  PROVE  Lies(s, t)
<1>1. /\ Len(sections) \in Nat /\ DOMAIN sections = 1..Len(sections)
      /\ \A u \in DOMAIN sections : /\ sections[u].at \in Nat /\ sections[u].mem \in Nat
                                    /\ sections[u].size \in Nat /\ Bytes(u) \in Nat
  BY SectionsAre DEF IsSection, Bytes
<1> DEFINE Off == {u \in DOMAIN sections : s <= u /\ ~Lies(s, u)}
<1>2. Off = {}
  <2> SUFFICES ASSUME Off # {} PROVE FALSE
    OBVIOUS
  <2>1. Off \in SUBSET Nat
    BY <1>1
  <2> HIDE DEF Off
  <2>2. PICK u \in Off : \A v \in Off : u <= v
    BY <2>1, LeastElement
  <2>3. u \in DOMAIN sections /\ s <= u /\ ~Lies(s, u)
    BY DEF Off
  <2>4. Lies(s, s)
    BY <1>1 DEF Lies
  <2>5. u > s /\ u > 1 /\ u - 1 \in DOMAIN sections /\ s <= u - 1 /\ ~(u <= u - 1) /\ u - 1 >= 1 /\ u - 1 \in Nat
    <3>1. u # s
      BY <2>3, <2>4
    <3> QED
      BY <3>1, <2>3, <1>1
  <2>6. Lies(s, u - 1)
    BY <2>2, <2>5 DEF Off
  <2>7. sections[u - 1].name # <<>>
    <3>1. CASE u - 1 = s
      BY <3>1
    <3>2. CASE u - 1 # 1
      BY <3>2, <2>5 DEF TypeInv, SectionsTyped, NullIsEmpty
    <3>3. u - 1 = s \/ u - 1 # 1
      BY <2>5, <1>1
    <3> QED
      BY <3>1, <3>2, <3>3
  <2>8. Lies(u - 1, u)
    BY <2>3, <2>5, <2>7, NeighboursInOrder
  <2>9. Lies(s, u)
    <3>1. /\ sections[s].at \in Nat /\ sections[s].mem \in Nat /\ sections[s].size \in Nat /\ Bytes(s) \in Nat
          /\ sections[u].at \in Nat /\ sections[u].mem \in Nat /\ sections[u].size \in Nat /\ Bytes(u) \in Nat
          /\ sections[u - 1].at \in Nat /\ sections[u - 1].mem \in Nat /\ sections[u - 1].size \in Nat
          /\ Bytes(u - 1) \in Nat
      BY <1>1, <2>3, <2>5
    <3>2. /\ sections[s].at + Bytes(s) \in Nat /\ sections[s].mem + sections[s].size \in Nat
          /\ sections[u].at + Bytes(u) \in Nat /\ sections[u].mem + sections[u].size \in Nat
          /\ sections[u - 1].at + Bytes(u - 1) \in Nat /\ sections[u - 1].mem + sections[u - 1].size \in Nat
      <4>1. \A x, y \in Nat : x + y \in Nat
        OBVIOUS
      <4> QED
        BY <3>1, <4>1, Zenon
    <3>3. \A x, y, z \in Nat : x <= y /\ y <= z => x <= z
      OBVIOUS
    <3>4. sections[s].at <= sections[u].at
      BY <2>6, <2>8, <3>1, <3>3, Zenon DEF Lies
    <3>5. sections[s].at + Bytes(s) <= sections[u].at + Bytes(u)
      BY <2>6, <2>8, <3>2, <3>3, Zenon DEF Lies
    <3>6. sections[s].mem + sections[s].size <= sections[u].mem + sections[u].size
      BY <2>6, <2>8, <3>2, <3>3, Zenon DEF Lies
    <3> QED
      BY <3>4, <3>5, <3>6 DEF Lies
  <2> QED
    BY <2>3, <2>9
<1> QED
  BY <1>2

LEMMA RangesCover ==
  ASSUME TypeInv, LayoutInv, CodeFirst, Between
  PROVE  SegmentsCover
<1> SUFFICES ASSUME stage = "done", NEW k \in DOMAIN segments, Ranged(segments[k]), segments[k].first # PHDR,
                    NEW s \in SectionOf(segments[k].first)..SectionOf(segments[k].last)
             PROVE  /\ segments[k].at <= sections[s].at
                    /\ NoBits(s) \/ sections[s].at + sections[s].size <= segments[k].at + segments[k].filesz
                    /\ sections[s].mem + sections[s].size
                         <= sections[SectionOf(segments[k].first)].mem + segments[k].memsz
  BY DEF SegmentsCover
<1> DEFINE g == segments[k]
           a == SectionOf(g.first)
           b == SectionOf(g.last)
<1>1. HasRange(g) /\ LaidOut(Len(sections) + 1) /\ InMemory(Len(sections) + 1)
  BY DEF LayoutInv
<1>2. g.last # PHDR
  BY DEF Between
<1>3. /\ g.first # <<>> /\ HasSection(g.first) /\ HasSection(g.last)
      /\ g.at = StartOf(g.first).file
      /\ g.filesz = EndOf(g.last).file - StartOf(g.first).file
      /\ g.memsz = EndOf(g.last).mem - StartOf(g.first).mem
  BY <1>1, <1>2 DEF HasRange, HasEdge
<1>4. a \in DOMAIN sections /\ sections[a].name = g.first /\ b \in DOMAIN sections
  BY <1>3 DEF HasSection, SectionOf
<1> HIDE DEF a, b
<1>5. StartOf(g.first) = [file |-> sections[a].at, mem |-> sections[a].mem]
  BY DEF StartOf, a
<1>6. EndOf(g.last) = [file |-> sections[b].at + Bytes(b), mem |-> sections[b].mem + sections[b].size]
  BY <1>2 DEF EndOf, Bytes, b
<1>7. /\ g.at = sections[a].at
      /\ g.filesz = (sections[b].at + Bytes(b)) - sections[a].at
      /\ g.memsz = (sections[b].mem + sections[b].size) - sections[a].mem
  <2>1. StartOf(g.first).file = sections[a].at /\ StartOf(g.first).mem = sections[a].mem
    BY <1>5
  <2>2. EndOf(g.last).file = sections[b].at + Bytes(b)
    BY <1>6
  <2>3. EndOf(g.last).mem = sections[b].mem + sections[b].size
    BY <1>6
  <2>4. g.at = sections[a].at
    BY <1>3, <2>1
  <2>5. g.filesz = (sections[b].at + Bytes(b)) - sections[a].at
    BY <1>3, <2>1, <2>2
  <2>6. g.memsz = (sections[b].mem + sections[b].size) - sections[a].mem
    BY <1>3, <2>1, <2>3
  <2> QED
    BY <2>4, <2>5, <2>6
<1>8. s \in DOMAIN sections /\ a <= s /\ s <= b /\ s \in a..b
  <2>1. s \in a..b
    BY DEF a, b
  <2> QED
    BY <2>1, <1>4, SectionsAre
<1>9. sections[a].name # <<>> /\ sections[s].name # <<>>
  <2>1. a = s \/ s # 1
    BY <1>4, <1>8, SectionsAre
  <2> QED
    BY <2>1, <1>3, <1>4, <1>8 DEF TypeInv, SectionsTyped, NullIsEmpty
<1>10. Lies(a, s) /\ Lies(s, b)
  BY <1>1, <1>4, <1>8, <1>9, SectionsInOrder
<1>11. /\ \A u \in DOMAIN sections : /\ sections[u].at \in Nat /\ sections[u].mem \in Nat
                                     /\ sections[u].size \in Nat /\ Bytes(u) \in Nat
  BY SectionsAre DEF IsSection, Bytes
<1>12. /\ g.at <= sections[s].at
       /\ sections[s].at + Bytes(s) <= g.at + g.filesz
       /\ sections[s].mem + sections[s].size <= sections[a].mem + g.memsz
  <2>1. sections[a].at \in Nat /\ sections[b].at \in Nat /\ sections[a].mem \in Nat /\ sections[b].mem \in Nat
    BY <1>4, <1>11
  <2>2. sections[b].size \in Nat /\ Bytes(b) \in Nat /\ sections[s].size \in Nat /\ Bytes(s) \in Nat
    BY <1>4, <1>8, <1>11
  <2>3. g.at + g.filesz = sections[b].at + Bytes(b)
    BY <1>7, <2>1, <2>2
  <2>4. sections[a].mem + g.memsz = sections[b].mem + sections[b].size
    BY <1>7, <2>1, <2>2
  <2> QED
    BY <1>7, <1>10, <2>3, <2>4 DEF Lies
<1> QED
  BY <1>12 DEF Bytes, a

\* However many sections and segments there are, a segment that goes from a
\* section to a section covers the sections between them, in the file and in
\* memory, provided that no code follows a NOBITS section.
THEOREM SegmentsHoldSections == Spec => [](CodeFirst /\ Between => SegmentsCover)
<1>1. TypeInv /\ LayoutInv => (CodeFirst /\ Between => SegmentsCover)
  BY RangesCover
<1> QED
  BY <1>1, LayoutHolds, PTL

-----------------------------------------------------------------------------
(* Where the labels are put, and where the jumps go.                       *)

\* The lines of the source, and their sections.
LEMMA LinesTyped ==
  ASSUME TypeInv
  PROVE  /\ Len(src.lines) \in Nat /\ DOMAIN src.lines = 1..Len(src.lines)
         /\ \A i \in 1..Len(src.lines) : IsLine(src.lines[i])
  BY SourceAssumption DEF TypeInv

LEMMA OneOpener ==
  ASSUME NEW i \in Nat, NEW a, NEW b, Within(a, i), Within(b, i)
  PROVE  a = b
<1>1. a \in 1..i /\ b \in 1..i
  BY DEF Within
<1>2. ~(a < b)
  <2> SUFFICES ASSUME a < b PROVE FALSE
    OBVIOUS
  <2>1. b \in (a + 1)..i
    BY <1>1
  <2> QED
    BY <2>1 DEF Within
<1>3. ~(b < a)
  <2> SUFFICES ASSUME b < a PROVE FALSE
    OBVIOUS
  <2>1. a \in (b + 1)..i
    BY <1>1
  <2> QED
    BY <2>1 DEF Within
<1> QED
  BY <1>1, <1>2, <1>3

LEMMA WithinNext ==
  ASSUME NEW n \in Nat, NEW a, Within(a, n), src.lines[n + 1].op \notin {"section", "segment"}
  PROVE  Within(a, n + 1)
<1>1. a \in 1..n /\ \A j \in (a + 1)..n : src.lines[j].op \notin {"section", "segment"}
  BY DEF Within
<1>2. a \in 1..(n + 1) /\ \A j \in (a + 1)..(n + 1) : j = n + 1 \/ j \in (a + 1)..n
  BY <1>1
<1> QED
  BY <1>1, <1>2 DEF Within

\* How many instructions are before a line.
LEMMA BeforeIs ==
  ASSUME NEW s, sections[s].line \in Nat, NEW i \in Nat
  PROVE  /\ Before(s, i) \in Nat
         /\ Before(s, sections[s].line) = 0
         /\ sections[s].line <= i => Before(s, i + 1) = IF src.lines[i].op = "code" THEN Before(s, i) + 1 ELSE Before(s, i)
<1> DEFINE a == sections[s].line
           C(m) == {j \in a..(m - 1) : src.lines[j].op = "code"}
<1> HIDE DEF a
<1>1. a \in Nat
  BY DEF a
<1>2. \A m : Before(s, m) = Cardinality(C(m))
  BY DEF Before, a
<1>3. ASSUME NEW m \in Nat PROVE IsFiniteSet(C(m)) /\ Cardinality(C(m)) \in Nat
  <2>1. IsFiniteSet(a..(m - 1))
    BY <1>1, FS_Interval
  <2> QED
    BY <2>1, FS_Subset, FS_CardinalityType
<1>4. Before(s, a) = 0
  <2>1. C(a) = {}
    BY <1>1
  <2> QED
    BY <2>1, <1>2, FS_EmptySet
<1>5. ASSUME a <= i PROVE Before(s, i + 1) = IF src.lines[i].op = "code" THEN Before(s, i) + 1 ELSE Before(s, i)
  <2>1. \A j : j \in a..(i + 1 - 1) <=> (j \in a..(i - 1) \/ j = i)
    BY <1>1, <1>5
  <2>2. CASE src.lines[i].op = "code"
    <3>1. C(i + 1) = C(i) \cup {i} /\ i \notin C(i)
      BY <2>1, <2>2, <1>1
    <3>2. Cardinality(C(i + 1)) = Cardinality(C(i)) + 1
      <4> HIDE DEF C
      <4> QED
        BY <3>1, <1>3, FS_AddElement
    <3> QED
      BY <3>2, <1>2, <2>2
  <2>3. CASE src.lines[i].op # "code"
    <3>1. C(i + 1) = C(i)
      BY <2>1, <2>3
    <3> QED
      BY <3>1, <1>2, <2>3
  <2> QED
    BY <2>2, <2>3
<1> QED
  BY <1>2, <1>3, <1>4, <1>5 DEF a

LEMMA NoneBetween ==
  ASSUME NEW s, sections[s].line \in Nat, NEW i \in Nat, NEW j \in Nat, sections[s].line <= i, i <= j,
         \A k \in i..(j - 1) : src.lines[k].op # "code"
  PROVE  Before(s, j) = Before(s, i)
<1> DEFINE a == sections[s].line
           C(m) == {k \in a..(m - 1) : src.lines[k].op = "code"}
<1> HIDE DEF a
<1>1. a \in Nat /\ a <= i
  BY DEF a
<1>2. \A k : k \in a..(j - 1) <=> (k \in a..(i - 1) \/ k \in i..(j - 1))
  BY <1>1
<1>3. C(j) = C(i)
  BY <1>2
<1> QED
  BY <1>3 DEF Before, a

\* What is before the source of a jump is followed by code of its section.
LEMMA SourceAhead ==
  ASSUME TypeInv, NEW i \in 1..Len(src.lines), BeforeSource(i)
  PROVE  \E j \in (i + 1)..Len(src.lines) :
           /\ src.lines[j].op = "code"
           /\ \A k \in (i + 1)..(j - 1) : src.lines[k].op \in {"label", "offset"}
<1> DEFINE A == {j \in DOMAIN src.lines : j > i /\ src.lines[j].op \notin {"label", "offset"}}
           P(j) == A = {} \/ (j # 0 /\ \A k \in A : j <= k)
           j == CHOOSE x \in A \cup {0} : P(x)
<1>1. DOMAIN src.lines = 1..Len(src.lines) /\ Len(src.lines) \in Nat
  BY LinesTyped
<1>2. NextLine(i) = j
  BY DEF NextLine
<1>3. IsCode(j)
  <2>1. IsCode(NextLine(i))
    BY DEF BeforeSource, IsBranchSource
  <2> HIDE DEF j
  <2> QED
    BY <1>2, <2>1
<1>4. j # 0 /\ src.lines[j].op = "code"
  BY <1>3 DEF IsCode
<1>5. A \subseteq Nat \ {0}
  BY <1>1
<1>6. \E x \in A \cup {0} : P(x)
  <2>1. CASE A = {}
    BY <2>1
  <2>2. CASE A # {}
    <3> HIDE DEF A
    <3>1. PICK x \in A : \A k \in A : x <= k
      BY <1>5, <2>2, LeastElement
    <3> QED
      BY <3>1, <1>5
  <2> QED
    BY <2>1, <2>2
<1>7. j \in A \cup {0} /\ P(j)
  <2> HIDE DEF A, P
  <2> QED
    BY <1>6
<1> HIDE DEF j
<1>8. j \in A /\ \A k \in A : j <= k
  BY <1>4, <1>7
<1>9. ASSUME NEW k \in (i + 1)..(j - 1) PROVE src.lines[k].op \in {"label", "offset"}
  <2>1. k \in DOMAIN src.lines /\ k > i /\ ~(j <= k)
    BY <1>1, <1>8
  <2> QED
    BY <2>1, <1>8
<1>10. j \in (i + 1)..Len(src.lines)
  BY <1>1, <1>8
<1> QED
  BY <1>4, <1>9, <1>10

\* A jump to a label goes to the instruction behind it, wherever of the two it
\* is put.
LEMMA JumpsGo ==
  ASSUME NEW n \in Nat
  PROVE  Jump(Offset(n)) = JumpTo(n) /\ Jump(CodeEnd(n)) = JumpTo(n)
<1>1. CASE ~src.grouped
  BY <1>1 DEF Jump, JumpTo, CodeEnd, Offset, Unit, Seven!Offset, Seven!Unit
<1>2. CASE src.grouped
  <2> DEFINE m == n \div 3
             r == n % 3
  <2>1. m \in Nat /\ r \in 0..2 /\ n = 3 * m + r
    OBVIOUS
  <2>2. \A x \in Int : Index(x) = IF (x \div 8) % 4 = 0 THEN -1 ELSE (3 * ((x \div 8) \div 4) + ((x \div 8) % 4)) - 1
    BY <1>2 DEF Index, Six!Index
  <2>3. \A x \in Int : Offset(x) = 8 * (x \div 3 + 1) + 8 * x
    BY <1>2 DEF Offset, Six!Offset
  <2>4. Offset(n - 1) = 8 * ((n - 1) \div 3 + 1) + 8 * (n - 1) /\ Offset(n) = 8 * (n \div 3 + 1) + 8 * n
    <3>1. n \in Int /\ n - 1 \in Int
      OBVIOUS
    <3> QED
      BY <3>1, <2>3, Zenon
  <2>5. Unit = 8
    BY <1>2 DEF Unit, Six!Unit
  <2> HIDE DEF m, r
  <2>6. CASE r = 0
    <3>1. n \div 3 = m /\ n % 3 = 0 /\ n = 3 * m
      BY <2>1, <2>6
    <3>2. Offset(n) = 32 * m + 8
      BY <2>4, <3>1, <2>1
    <3>3. JumpTo(n) = 32 * m
      BY <1>2, <3>1, <3>2, <2>1 DEF JumpTo
    <3>4. CodeEnd(n) = 32 * m
      <4>1. CASE n = 0
        BY <4>1, <3>1, <2>1 DEF CodeEnd
      <4>2. CASE n # 0
        BY <4>2, <3>1, <2>1, <2>4, <2>5 DEF CodeEnd
      <4> QED
        BY <4>1, <4>2
    <3>5. (32 * m + 8) \div 8 = 4 * m + 1 /\ (32 * m) \div 8 = 4 * m
      BY <2>1
    <3>6. (4 * m + 1) % 4 = 1 /\ (4 * m + 1) \div 4 = m /\ (4 * m) % 4 = 0
      BY <2>1
    <3>7. Index(32 * m + 8) = 3 * m /\ Index(32 * m) = -1
      BY <2>1, <2>2, <3>5, <3>6
    <3>8. 3 * m >= 0 /\ (3 * m) % 3 = 0 /\ (32 * m + 8) - 8 = 32 * m
      BY <2>1
    <3> QED
      BY <1>2, <3>2, <3>3, <3>4, <3>7, <3>8 DEF Jump
  <2>7. CASE r # 0
    <3>1. n \div 3 = m /\ n % 3 = r /\ n = 3 * m + r /\ (n - 1) \div 3 = m
      BY <2>1, <2>7
    <3>2. Offset(n) = 32 * m + 8 * r + 8 /\ Offset(n - 1) = 32 * m + 8 * r
      BY <2>4, <3>1, <2>1
    <3>3. JumpTo(n) = 32 * m + 8 * r + 8 /\ CodeEnd(n) = 32 * m + 8 * r + 8
      BY <1>2, <3>1, <3>2, <2>1, <2>5, <2>7 DEF JumpTo, CodeEnd
    <3>4. (32 * m + 8 * r + 8) \div 8 = 4 * m + r + 1
      BY <2>1
    <3>5. (4 * m + r + 1) % 4 = r + 1 /\ (4 * m + r + 1) \div 4 = m
      BY <2>1, <2>7
    <3>6. Index(32 * m + 8 * r + 8) = 3 * m + r
      BY <2>1, <2>2, <3>4, <3>5
    <3>7. (3 * m + r) % 3 # 0
      BY <2>1, <2>7
    <3> QED
      BY <1>2, <3>2, <3>3, <3>6, <3>7 DEF Jump
  <2> QED
    BY <2>6, <2>7
<1> QED
  BY <1>1, <1>2

LEMMA LinesSame ==
  ASSUME src' = src
  PROVE  /\ CodeOnly' <=> CodeOnly
         /\ \A n : Offset(n)' = Offset(n) /\ CodeEnd(n)' = CodeEnd(n) /\ JumpTo(n)' = JumpTo(n)
         /\ Unit' = Unit
         /\ \A i : BeforeSource(i)' <=> BeforeSource(i)
         /\ \A a, i : Within(a, i)' <=> Within(a, i)
<1>1. \A a, i : Within(a, i)' <=> Within(a, i)
  BY DEF Within
<1>2. CodeOnly' <=> CodeOnly
  BY DEF CodeOnly, Within
<1>3. \A n : Offset(n)' = Offset(n)
  BY DEF Offset
<1>4. Unit' = Unit
  BY DEF Unit
<1>5. \A n : CodeEnd(n)' = CodeEnd(n) /\ JumpTo(n)' = JumpTo(n)
  BY <1>3, <1>4 DEF CodeEnd, JumpTo
<1>6. \A i : NextLine(i)' = NextLine(i)
  BY DEF NextLine
<1>7. \A i : IsCode(i)' <=> IsCode(i)
  BY DEF IsCode
<1>8. \A i : IsBranchSource(i)' <=> IsBranchSource(i)
  BY <1>7 DEF IsBranchSource
<1>9. \A i : BeforeSource(i)' <=> BeforeSource(i)
  <2> SUFFICES ASSUME NEW i PROVE BeforeSource(i)' <=> BeforeSource(i)
    OBVIOUS
  <2>1. PICK j : j = NextLine(i)
    OBVIOUS
  <2>2. NextLine(i)' = j
    BY <2>1, <1>6
  <2>3. PICK k : k = NextLine(j)
    OBVIOUS
  <2>4. NextLine(j)' = k
    BY <2>3, <1>6
  <2> QED
    BY <2>1, <2>2, <2>3, <2>4, <1>7, <1>8 DEF BeforeSource
<1> QED
  BY <1>1, <1>2, <1>3, <1>4, <1>5, <1>9

LEMMA BeforeSame ==
  ASSUME SameLines, NEW s \in DOMAIN sections, NEW i
  PROVE  Before(s, i)' = Before(s, i)
  BY DEF SameLines, Before

LEMMA LabelSame ==
  ASSUME SameLines, NEW l, SameLabel(l), labels[l].sec \in DOMAIN sections, NEW i
  PROVE  /\ Defines(i, l)' <=> Defines(i, l)
         /\ ForSource(i, l)' <=> ForSource(i, l)
         /\ InCode(l)' <=> InCode(l)
         /\ labels'[l].at = labels[l].at => /\ AtSource(i, l)' <=> AtSource(i, l)
                                            /\ AtEnd(i, l)' <=> AtEnd(i, l)
<1>1. PICK s : s = labels[l].sec
  OBVIOUS
<1>2. s \in DOMAIN sections /\ labels'[l].sec = s /\ labels'[l].name = labels[l].name
  BY <1>1 DEF SameLabel
<1>3. sections'[s].line = sections[s].line /\ sections'[s].name = sections[s].name /\ src' = src
  BY <1>2 DEF SameLines
<1>4. \A a : Within(a, i)' <=> Within(a, i)
  BY <1>3, LinesSame
<1>5. Defines(i, l)' <=> Defines(i, l)
  <2>1. PICK a : a = sections[s].line
    OBVIOUS
  <2> QED
    BY <2>1, <1>1, <1>2, <1>3, <1>4 DEF Defines
<1>6. InCode(l)' <=> InCode(l)
  BY <1>1, <1>2, <1>3 DEF InCode, IsText
<1>7. PICK n : n = Before(s, i)
  OBVIOUS
<1>8. Before(s, i)' = n
  BY <1>2, <1>7, BeforeSame
<1>9. Before(labels[l].sec, i) = n /\ Before(labels[l].sec, i)' = n
  <2>1. Before(labels[l].sec, i)' = Before(s, i)'
    BY <1>2 DEF Before
  <2> QED
    BY <2>1, <1>1, <1>7, <1>8
<1>10. ForSource(i, l)' <=> ForSource(i, l)
  <2>1. BeforeSource(i)' <=> BeforeSource(i)
    BY <1>3, LinesSame
  <2> QED
    BY <2>1, <1>9 DEF ForSource
<1>11. ASSUME labels'[l].at = labels[l].at
       PROVE  (AtSource(i, l)' <=> AtSource(i, l)) /\ (AtEnd(i, l)' <=> AtEnd(i, l))
  <2>1. Offset(n)' = Offset(n) /\ CodeEnd(n)' = CodeEnd(n) /\ (CodeOnly' <=> CodeOnly)
    BY <1>3, LinesSame
  <2>2. Offset(Before(labels[l].sec, i)) = Offset(n) /\ CodeEnd(Before(labels[l].sec, i)) = CodeEnd(n)
    BY <1>9
  <2>3. Offset(Before(labels[l].sec, i))' = Offset(n)' /\ CodeEnd(Before(labels[l].sec, i))' = CodeEnd(n)'
    BY <1>9 DEF Offset, CodeEnd
  <2>4. AtSource(i, l) <=> (ForSource(i, l) => labels[l].at = Offset(n))
    BY <2>2 DEF AtSource
  <2>5. AtSource(i, l)' <=> (ForSource(i, l)' => labels'[l].at = Offset(n)')
    BY <2>3 DEF AtSource
  <2>6. AtEnd(i, l) <=> (CodeOnly /\ ~ForSource(i, l) => labels[l].at = CodeEnd(n))
    BY <2>2 DEF AtEnd
  <2>7. AtEnd(i, l)' <=> (CodeOnly' /\ ~ForSource(i, l)' => labels'[l].at = CodeEnd(n)')
    BY <2>3 DEF AtEnd
  <2> QED
    BY <2>1, <2>4, <2>5, <2>6, <2>7, <1>10, <1>11
<1> QED
  BY <1>5, <1>6, <1>10, <1>11

\* One more line, or none, that is not a label.
LEMMA SectionsKept ==
  ASSUME SameLines, DOMAIN sections' = DOMAIN sections, NEW n \in Nat, NEW m \in {n, n + 1}, SectionsFrom(n)
  PROVE  SectionsFrom(m)'
<1>1. \A x : x \in 1..n => x \in 1..m
  OBVIOUS
<1> QED
  BY <1>1 DEF SameLines, SectionsFrom

LEMMA LabelsKept ==
  ASSUME SameLines, NEW n \in Nat, NEW m \in {n, n + 1}, LabelsFrom(n), m # n => src.lines[m].op # "label",
         DOMAIN labels' = DOMAIN labels, \A l \in DOMAIN labels : SameLabel(l),
         \A l \in DOMAIN labels : labels'[l].at = labels[l].at \/
           (InCode(l) => \A i \in 1..n : Defines(i, l) => ~ForSource(i, l))
  PROVE  /\ LabelsFrom(m)'
         /\ EndsFrom(n) /\ (\A l \in DOMAIN labels : labels'[l].at = labels[l].at) => EndsFrom(m)'
<1>1. src' = src
  BY DEF SameLines
<1>2. \A x : x \in 1..n => x \in 1..m
  OBVIOUS
<1>3. \A x : x \in 1..m => x \in 1..n \/ (x = m /\ m # n)
  OBVIOUS
<1>4. ASSUME NEW i \in 1..m, src'.lines[i].op = "label" PROVE i \in 1..n /\ HasLabel(src.lines[i].name)'
  BY <1>1, <1>3, <1>4 DEF LabelsFrom, HasLabel, SameLabel
<1>5. ASSUME NEW i \in 1..m, NEW j \in 1..m, src'.lines[i].op = "label", src'.lines[j].op = "label",
             src'.lines[i].name = src'.lines[j].name
      PROVE  i = j
  BY <1>1, <1>4, <1>5 DEF LabelsFrom
<1>6. ASSUME NEW l \in DOMAIN labels PROVE labels'[l].sec \in DOMAIN sections' /\ labels[l].sec \in DOMAIN sections
  BY DEF LabelsFrom, SameLabel, SameLines
<1>7. \A l, k \in DOMAIN labels' : labels'[l].name = labels'[k].name /\ labels'[l].name # NoName => l = k
  BY DEF LabelsFrom, SameLabel
<1>8. ASSUME NEW l \in DOMAIN labels, InCode(l)' PROVE \E i \in 1..m : Defines(i, l)' /\ AtSource(i, l)'
  <2>1. InCode(l)
    BY <1>6, <1>8, LabelSame
  <2>2. PICK i \in 1..n : Defines(i, l) /\ AtSource(i, l)
    BY <2>1 DEF LabelsFrom
  <2>3. Defines(i, l)' /\ i \in 1..m
    BY <2>2, <1>2, <1>6, LabelSame
  <2>4. CASE labels'[l].at = labels[l].at
    BY <2>2, <2>3, <2>4, <1>6, LabelSame
  <2>5. CASE labels'[l].at # labels[l].at
    <3>1. ~ForSource(i, l)
      BY <2>1, <2>2, <2>5
    <3>2. ~ForSource(i, l)'
      BY <3>1, <1>6, LabelSame
    <3>3. AtSource(i, l)'
      BY <3>2 DEF AtSource
    <3> QED
      BY <2>3, <3>3
  <2> QED
    BY <2>4, <2>5
<1>9. ASSUME EndsFrom(n), \A l \in DOMAIN labels : labels'[l].at = labels[l].at
      PROVE  EndsFrom(m)'
  <2> SUFFICES ASSUME NEW l \in DOMAIN labels, InCode(l)' PROVE \E i \in 1..m : Defines(i, l)' /\ AtEnd(i, l)'
    BY DEF EndsFrom
  <2>1. InCode(l)
    BY <1>6, LabelSame
  <2>2. PICK i \in 1..n : Defines(i, l) /\ AtEnd(i, l)
    BY <2>1, <1>9 DEF EndsFrom
  <2>3. Defines(i, l)' /\ AtEnd(i, l)' /\ i \in 1..m
    BY <2>2, <1>2, <1>6, <1>9, LabelSame
  <2> QED
    BY <2>3
<1>10. LabelsFrom(m)'
  BY <1>4, <1>5, <1>6, <1>7, <1>8 DEF LabelsFrom
<1> QED
  BY <1>9, <1>10

LEMMA CursorKept ==
  ASSUME SameLines, DOMAIN sections' = DOMAIN sections, NEW n \in Nat, SectionsFrom(n), CursorIs(n),
         cur \in {0} \cup DOMAIN sections, insIndex \in Nat, cur' = cur,
         src.lines[n + 1].op \notin {"section", "segment"},
         insIndex' = IF src.lines[n + 1].op = "code" THEN insIndex + 1 ELSE insIndex,
         cur # 0 /\ IsText(sections[cur].name) /\ CodeOnly => sections'[cur].pos = CodeEnd(insIndex)' 
  PROVE  CursorIs(n + 1)'
<1> SUFFICES ASSUME cur # 0
             PROVE  /\ Within(sections[cur].line, n + 1)'
                    /\ IsText(sections[cur].name)' => insIndex' = Before(cur, n + 2)'
                    /\ IsText(sections[cur].name)' /\ CodeOnly' => sections'[cur].pos = CodeEnd(insIndex)'
  <2>1. (n + 1) + 1 = n + 2
    OBVIOUS
  <2> QED
    BY <2>1 DEF CursorIs
<1>1. PICK c \in DOMAIN sections : c = cur
  OBVIOUS
<1>2. PICK a : a = sections[c].line
  OBVIOUS
<1>3. /\ src' = src /\ sections'[c].line = a /\ sections'[c].name = sections[c].name
  BY <1>2 DEF SameLines
<1>4. Within(a, n) /\ a \in 1..n
  BY <1>1, <1>2 DEF CursorIs, SectionsFrom
<1>5. Within(a, n + 1)'
  BY <1>3, <1>4, WithinNext, LinesSame
<1>6. Within(sections[cur].line, n + 1)'
  BY <1>1, <1>3, <1>5 DEF Within
<1>7. ASSUME IsText(sections[cur].name)' PROVE insIndex' = Before(cur, n + 2)'
  <2>1. IsText(sections[c].name)
    BY <1>1, <1>3, <1>7 DEF IsText
  <2>2. insIndex = Before(c, n + 1)
    BY <1>1, <2>1 DEF CursorIs
  <2>3. a \in Nat /\ a <= n + 1 /\ n + 1 \in Nat /\ (n + 1) + 1 = n + 2
    BY <1>4
  <2>4. Before(c, (n + 1) + 1) = IF src.lines[n + 1].op = "code" THEN Before(c, n + 1) + 1 ELSE Before(c, n + 1)
    BY <1>2, <2>3, BeforeIs
  <2>5. Before(c, n + 2)' = Before(c, n + 2)
    BY BeforeSame
  <2>6. Before(cur, n + 2)' = Before(c, n + 2)'
    BY <1>1 DEF Before
  <2> QED
    BY <2>2, <2>3, <2>4, <2>5, <2>6
<1>8. ASSUME IsText(sections[cur].name)', CodeOnly' PROVE sections'[cur].pos = CodeEnd(insIndex)'
  <2>1. IsText(sections[cur].name)
    BY <1>1, <1>3, <1>8 DEF IsText
  <2>2. CodeOnly
    BY <1>3, <1>8, LinesSame
  <2> QED
    BY <2>1, <2>2
<1> QED
  BY <1>6, <1>7, <1>8

LEMMA RoomKept ==
  ASSUME TypeInv, SameLines, DOMAIN sections' = DOMAIN sections, NEW n \in Nat, RoomFor(n), SectionsFrom(n),
         \A s \in DOMAIN sections : sections'[s].size \in Nat /\ sections'[s].size >= sections[s].size,
         src.lines[n + 1].op = "code" =>
           \A s \in DOMAIN sections : Within(sections[s].line, n + 1) => sections'[s].size >= Offset(Before(s, n + 1)) + Unit
  PROVE  RoomFor(n + 1)'
<1> SUFFICES ASSUME NEW s \in DOMAIN sections, NEW i \in 1..(n + 1), src'.lines[i].op = "code", Within(sections[s].line, i)'
             PROVE  sections'[s].size >= Offset(Before(s, i))' + Unit'
  BY DEF RoomFor
<1>1. src' = src /\ sections'[s].line = sections[s].line
  BY DEF SameLines
<1>2. Within(sections[s].line, i)
  <2>1. PICK a : a = sections[s].line
    OBVIOUS
  <2>2. Within(a, i)'
    BY <2>1, <1>1 DEF Within
  <2> QED
    BY <2>1, <2>2, <1>1, LinesSame
<1>3. PICK b : b = Before(s, i)
  OBVIOUS
<1>4. b \in Nat
  BY <1>3, BeforeIs DEF TypeInv, SectionsTyped, IsSection
<1>5. Offset(Before(s, i))' = Offset(b) /\ Unit' = Unit
  BY <1>3, BeforeSame, <1>1, LinesSame DEF Offset
<1>6. sections'[s].size >= Offset(b) + Unit
  <2>1. CASE i = n + 1
    BY <2>1, <1>1, <1>2, <1>3
  <2>2. CASE i # n + 1
    <3>1. i \in 1..n
      BY <2>2
    <3>2. sections[s].size >= Offset(b) + Unit
      BY <3>1, <1>1, <1>2, <1>3 DEF RoomFor
    <3>3. Offset(b) \in Nat /\ Unit \in Nat
      BY <1>4, OffsetType, UnitType
    <3>4. sections[s].size \in Nat /\ sections'[s].size \in Nat /\ sections'[s].size >= sections[s].size
      BY DEF TypeInv, SectionsTyped, IsSection
    <3> QED
      BY <3>2, <3>3, <3>4
  <2> QED
    BY <2>1, <2>2
<1> QED
  BY <1>5, <1>6

\* What a line of the scan leaves.
LEMMA LineRead ==
  ASSUME NEW n \in Nat, stage = "scan", next = n + 1, next <= Len(src.lines), Len(src.lines) \in Nat, Stay, src' = src,
         SectionsFrom(n + 1)', LabelsFrom(n + 1)', EndsFrom(n + 1)', CursorIs(n + 1)', RoomFor(n + 1)'
  PROVE  LandInv'
<1>1. stage' = "scan" /\ next' = n + 2 /\ (n + 2) - 1 = n + 1 /\ n + 2 <= Len(src'.lines) + 1
  BY DEF Stay
<1>2. /\ SectionsFrom(next - 1)' <=> SectionsFrom(n + 1)'
      /\ LabelsFrom(next - 1)' <=> LabelsFrom(n + 1)'
      /\ EndsFrom(next - 1)' <=> EndsFrom(n + 1)'
      /\ CursorIs(next - 1)' <=> CursorIs(n + 1)'
      /\ RoomFor(next - 1)' <=> RoomFor(n + 1)'
  <2>1. (next - 1)' = n + 1
    BY <1>1
  <2> QED
    BY <2>1 DEF SectionsFrom, LabelsFrom, EndsFrom, CursorIs, RoomFor
<1> QED
  BY <1>1, <1>2 DEF LandInv, Assembled

\* What is known when the line behind n lines is scanned.
LEMMA LineToRead ==
  ASSUME TypeInv, LandInv, stage = "scan", next <= Len(src.lines)
  PROVE  \E n \in Nat :
           /\ next = n + 1 /\ n + 1 \in 1..Len(src.lines) /\ Line = src.lines[n + 1]
           /\ SectionsFrom(n) /\ LabelsFrom(n) /\ EndsFrom(n) /\ CursorIs(n) /\ RoomFor(n)
<1>1. PICK n : n = next - 1
  OBVIOUS
<1>2. n \in Nat /\ next = n + 1 /\ n + 1 \in 1..Len(src.lines)
  BY <1>1, LinesTyped DEF TypeInv
<1>3. SectionsFrom(n) /\ LabelsFrom(n) /\ EndsFrom(n) /\ CursorIs(n) /\ RoomFor(n)
  BY <1>1 DEF LandInv
<1>4. Line = src.lines[n + 1]
  BY <1>2 DEF Line
<1> QED
  BY <1>2, <1>3, <1>4

\* A line that puts neither code nor a label anywhere.
LEMMA OtherLine ==
  ASSUME TypeInv, LandInv, stage = "scan", next <= Len(src.lines), Stay,
         Line.op \notin {"section", "segment", "label", "code"},
         src' = src, cur' = cur, insIndex' = insIndex, labels' = labels, Worked,
         \A s \in DOMAIN sections : sections'[s].size >= sections[s].size,
         cur # 0 /\ IsText(sections[cur].name) /\ CodeOnly => sections'[cur].pos = sections[cur].pos
  PROVE  LandInv'
<1>1. PICK n \in Nat :
        /\ next = n + 1 /\ n + 1 \in 1..Len(src.lines) /\ Line = src.lines[n + 1]
        /\ SectionsFrom(n) /\ LabelsFrom(n) /\ EndsFrom(n) /\ CursorIs(n) /\ RoomFor(n)
  BY LineToRead
<1>2. SameLines /\ DOMAIN sections' = DOMAIN sections /\ \A s \in DOMAIN sections : sections'[s].size \in Nat
  BY DEF Worked, Changed, SameLines, IsSection
<1>3. SectionsFrom(n + 1)'
  BY <1>1, <1>2, SectionsKept
<1>4. LabelsFrom(n + 1)' /\ EndsFrom(n + 1)'
  <2>1. \A l \in DOMAIN labels : SameLabel(l) /\ labels'[l].at = labels[l].at
    BY DEF SameLabel
  <2> QED
    BY <2>1, <1>1, <1>2, LabelsKept
<1>5. CursorIs(n + 1)'
  <2>1. CodeEnd(insIndex)' = CodeEnd(insIndex)
    <3>1. PICK x : x = insIndex
      OBVIOUS
    <3>2. CodeEnd(insIndex)' = CodeEnd(x)'
      BY <3>1 DEF CodeEnd
    <3> QED
      BY <3>1, <3>2, LinesSame
  <2>2. cur # 0 /\ IsText(sections[cur].name) /\ CodeOnly => sections'[cur].pos = CodeEnd(insIndex)'
    BY <2>1, <1>1 DEF CursorIs
  <2> QED
    BY <2>2, <1>1, <1>2, CursorKept DEF TypeInv
<1>6. RoomFor(n + 1)'
  BY <1>1, <1>2, RoomKept
<1> QED
  BY <1>1, <1>3, <1>4, <1>5, <1>6, LineRead, LinesTyped

LEMMA OneGrows ==
  ASSUME TypeInv, NEW c \in DOMAIN sections, NEW e, e.size >= sections[c].size, sections' = [sections EXCEPT ![c] = e]
  PROVE  \A s \in DOMAIN sections : sections'[s].size >= sections[s].size
<1> SUFFICES ASSUME NEW s \in DOMAIN sections PROVE sections'[s].size >= sections[s].size
  OBVIOUS
<1>1. CASE s = c
  BY <1>1
<1>2. CASE s # c
  <2>1. sections'[s] = sections[s] /\ sections[s].size \in Nat
    BY <1>2 DEF TypeInv, SectionsTyped, IsSection
  <2> QED
    BY <2>1
<1> QED
  BY <1>1, <1>2

\* The line in a text section, and the section's opener.
LEMMA TextLine ==
  ASSUME TypeInv, LandInv, stage = "scan", next <= Len(src.lines), Line.op \notin {"section", "segment"},
         cur # 0, IsText(sections[cur].name), CodeOnly
  PROVE  /\ Line.op \notin {"data", "zero"}
         /\ Line.op = "align" => sections[cur].pos = 0
<1>1. PICK n \in Nat :
        /\ next = n + 1 /\ n + 1 \in 1..Len(src.lines) /\ Line = src.lines[n + 1]
        /\ SectionsFrom(n) /\ LabelsFrom(n) /\ EndsFrom(n) /\ CursorIs(n) /\ RoomFor(n)
  BY LineToRead
<1>2. PICK a : a = sections[cur].line
  OBVIOUS
<1>3. a \in 1..n /\ a \in 1..Len(src.lines) /\ IsText(src.lines[a].name) /\ Within(a, n)
  BY <1>1, <1>2 DEF TypeInv, SectionsFrom, CursorIs
<1>4. Within(a, n + 1)
  BY <1>1, <1>3, WithinNext
<1>5. /\ Line.op \notin {"data", "zero"}
      /\ Line.op = "align" => \A j \in a..((n + 1) - 1) : src.lines[j].op # "code"
  <2>1. PICK i : i = n + 1
    OBVIOUS
  <2>2. a \in 1..Len(src.lines) /\ i \in 1..Len(src.lines) /\ Within(a, i) /\ IsText(src.lines[a].name)
    BY <1>1, <1>3, <1>4, <2>1
  <2>3. /\ src.lines[i].op \notin {"data", "zero"}
        /\ src.lines[i].op = "align" => \A j \in a..(i - 1) : src.lines[j].op # "code"
    BY <2>2, Zenon DEF CodeOnly
  <2> QED
    BY <2>1, <2>3, <1>1
<1>6. ASSUME Line.op = "align" PROVE sections[cur].pos = 0
  <2>1. a \in Nat /\ a <= n + 1 /\ n + 1 \in Nat
    BY <1>3
  <2>2. Before(cur, n + 1) = Before(cur, a)
    BY <2>1, <1>2, <1>5, <1>6, NoneBetween
  <2>3. Before(cur, a) = 0
    BY <2>1, <1>2, BeforeIs
  <2>4. insIndex = 0
    BY <2>2, <2>3, <1>1 DEF CursorIs
  <2> QED
    BY <2>4, <1>1 DEF CursorIs, CodeEnd
<1> QED
  BY <1>5, <1>6

LEMMA AlignRead ==
  ASSUME TypeInv, LandInv, Align
  PROVE  LandInv'
<1> DEFINE t == sections[cur]
           e == IF t.pos # 0 THEN Emit(t, Aligned(t.pos, Line.n) - t.pos)
                ELSE IF t.align = 0 THEN [t EXCEPT !.align = Line.n] ELSE t
<1>1. stage = "scan" /\ next <= Len(src.lines) /\ Line.op = "align" /\ cur # 0
  BY DEF Align, Scanning, Accepted
<1>2. cur \in DOMAIN sections /\ IsSection(t) /\ t.name # <<>>
  BY <1>1, CurIs
<1>3. Line.n \in Alignments
  BY <1>1, ScannedLine DEF IsLine
<1>4. t.pos \in Nat /\ t.size \in Nat /\ DOMAIN t = SectionFields
  BY <1>2 DEF IsSection
<1>5. Aligned(t.pos, Line.n) - t.pos \in Nat
  BY <1>3, <1>4, AlignedUp
<1>6. sections' = [sections EXCEPT ![cur] = e]
  BY DEF Align
<1>7. Changed(t, e) /\ SamePlace(t, e) /\ e.size >= t.size
  <2> HIDE DEF t
  <2>1. CASE t.pos # 0
    <3> DEFINE k == Aligned(t.pos, Line.n) - t.pos
    <3>1. k \in Nat
      BY <1>5
    <3>2. e = Emit(t, k)
      BY <2>1
    <3> HIDE DEF k, e
    <3>3. Changed(t, e) /\ SamePlace(t, e)
      BY <3>1, <3>2, <1>2, EmitType
    <3>4. e.size >= t.size
      BY <3>1, <3>2, <1>4, EmitIs
    <3> QED
      BY <3>3, <3>4
  <2>2. CASE t.pos = 0 /\ t.align = 0
    <3>1. e = [t EXCEPT !.align = Line.n]
      BY <2>2
    <3>2. Changed(t, e) /\ SamePlace(t, e)
      BY <3>1, <1>2, <1>3, SetFields
    <3>3. e.size = t.size
      BY <3>1, <1>4 DEF SectionFields
    <3> QED
      BY <3>2, <3>3, <1>4
  <2>3. CASE t.pos = 0 /\ t.align # 0
    <3>1. e = t
      BY <2>3
    <3> QED
      BY <3>1, <1>2, <1>4, ChangedSame
  <2> QED
    BY <2>1, <2>2, <2>3
<1>8. ASSUME IsText(sections[cur].name), CodeOnly PROVE sections'[cur].pos = sections[cur].pos
  <2>1. t.pos = 0
    BY <1>1, <1>8, TextLine
  <2>2. e.pos = t.pos
    <3> HIDE DEF t
    <3> QED
      BY <2>1, <1>4 DEF SectionFields
  <2> HIDE DEF e
  <2> QED
    BY <2>2, <1>2, <1>6
<1> HIDE DEF e
<1>9. Worked
  BY <1>2, <1>6, <1>7, OneWorked
<1>10. \A s \in DOMAIN sections : sections'[s].size >= sections[s].size
  BY <1>2, <1>6, <1>7, OneGrows
<1>11. src' = src /\ cur' = cur /\ insIndex' = insIndex /\ labels' = labels /\ Stay
  BY DEF Align, scanned
<1> QED
  BY <1>1, <1>8, <1>9, <1>10, <1>11, OtherLine

LEMMA ZeroRead ==
  ASSUME TypeInv, LandInv, Zero
  PROVE  LandInv'
<1> DEFINE t == sections[cur]
           e == Emit(t, Line.n)
<1>1. stage = "scan" /\ next <= Len(src.lines) /\ Line.op = "zero" /\ cur # 0
  BY DEF Zero, Scanning, Accepted
<1>2. cur \in DOMAIN sections /\ IsSection(t) /\ t.name # <<>>
  BY <1>1, CurIs
<1>3. Line.n \in Nat
  BY <1>1, ScannedLine DEF IsLine
<1>4. sections' = [sections EXCEPT ![cur] = e]
  BY DEF Zero
<1>5. Changed(t, e) /\ SamePlace(t, e)
  BY <1>2, <1>3, EmitType
<1>6. e.size >= t.size
  <2>1. t.pos \in Nat /\ t.size \in Nat /\ DOMAIN t = SectionFields
    BY <1>2 DEF IsSection
  <2> HIDE DEF t
  <2> QED
    BY <2>1, <1>3, EmitIs
<1> HIDE DEF e
<1>7. Worked
  BY <1>2, <1>4, <1>5, OneWorked
<1>8. \A s \in DOMAIN sections : sections'[s].size >= sections[s].size
  BY <1>2, <1>4, <1>6, OneGrows
<1>9. src' = src /\ cur' = cur /\ insIndex' = insIndex /\ labels' = labels /\ Stay
  BY DEF Zero, scanned
<1>10. ~(IsText(sections[cur].name) /\ CodeOnly)
  BY <1>1, TextLine
<1> QED
  BY <1>1, <1>7, <1>8, <1>9, <1>10, OtherLine

LEMMA DataRead ==
  ASSUME TypeInv, LandInv, Data
  PROVE  LandInv'
<1> DEFINE t == sections[cur]
           u == [t EXCEPT !.items = Put(t.items, Pos, [head |-> Line.head, num |-> Line.n])]
           e == Emit(u, Line.len)
<1>1. stage = "scan" /\ next <= Len(src.lines) /\ Line.op = "data" /\ cur # 0
  BY DEF Data, Scanning, Accepted
<1>2. cur \in DOMAIN sections /\ IsSection(t) /\ t.name # <<>>
  BY <1>1, CurIs
<1>3. Line.len \in Nat /\ Line.n \in Int
  BY <1>1, ScannedLine DEF IsLine
<1>4. sections' = [sections EXCEPT ![cur] = e]
  BY DEF Data
<1>5. HasNumbers(Put(t.items, Pos, [head |-> Line.head, num |-> Line.n]))
  <2>1. HasNumbers(t.items)
    BY <1>2 DEF IsSection
  <2> QED
    BY <2>1, <1>3, PutNumbers
<1>6. Changed(t, u) /\ SamePlace(t, u) /\ u.size = t.size /\ u.pos = t.pos /\ t.pos \in Nat /\ t.size \in Nat
  <2> HIDE DEF t
  <2>1. Changed(t, u) /\ SamePlace(t, u)
    BY <1>2, <1>5, SetFields
  <2>2. u.size = t.size /\ u.pos = t.pos /\ t.pos \in Nat /\ t.size \in Nat
    BY <1>2 DEF IsSection, SectionFields
  <2> QED
    BY <2>1, <2>2
<1>7. Changed(t, e) /\ SamePlace(t, e) /\ e.size >= t.size
  <2> HIDE DEF t, u
  <2>1. Changed(t, e) /\ SamePlace(t, e)
    BY <1>2, <1>3, <1>6, EmitTwice
  <2>2. DOMAIN u = SectionFields
    BY <1>6 DEF Changed, IsSection
  <2>3. e.size >= t.size
    BY <2>2, <1>3, <1>6, EmitIs
  <2> QED
    BY <2>1, <2>3
<1> HIDE DEF e
<1>8. Worked
  BY <1>2, <1>4, <1>7, OneWorked
<1>9. \A s \in DOMAIN sections : sections'[s].size >= sections[s].size
  BY <1>2, <1>4, <1>7, OneGrows
<1>10. src' = src /\ cur' = cur /\ insIndex' = insIndex /\ labels' = labels /\ Stay
  BY DEF Data
<1>11. ~(IsText(sections[cur].name) /\ CodeOnly)
  BY <1>1, TextLine
<1> QED
  BY <1>1, <1>8, <1>9, <1>10, <1>11, OtherLine

LEMMA SizeRead ==
  ASSUME TypeInv, LandInv, Size
  PROVE  LandInv'
<1>1. /\ stage = "scan" /\ next <= Len(src.lines) /\ Line.op = "size"
      /\ src' = src /\ cur' = cur /\ insIndex' = insIndex /\ labels' = labels /\ sections' = sections /\ Stay
  BY DEF Size, Scanning
<1>2. Worked
  BY <1>1, UnchangedWorked
<1>3. \A s \in DOMAIN sections : sections'[s].size >= sections[s].size
  BY <1>1 DEF TypeInv, SectionsTyped, IsSection
<1> QED
  BY <1>1, <1>2, <1>3, OtherLine

LEMMA CodeRead ==
  ASSUME TypeInv, LandInv, Code
  PROVE  LandInv'
<1> DEFINE t == sections[cur]
           u == [t EXCEPT !.pos = Offset(insIndex)]
           e == Emit(u, Unit)
<1>1. stage = "scan" /\ next <= Len(src.lines) /\ Line.op = "code" /\ cur # 0 /\ IsText(t.name)
  BY DEF Code, Scanning, Accepted
<1>2. cur \in DOMAIN sections /\ IsSection(t) /\ t.name # <<>>
  BY <1>1, CurIs
<1>3. Offset(insIndex) \in Nat /\ Unit \in Nat /\ insIndex \in Nat
  BY OffsetType, UnitType DEF TypeInv
<1>4. sections' = [sections EXCEPT ![cur] = e]
  BY DEF Code
<1>5. /\ Changed(t, e) /\ SamePlace(t, e) /\ e.size >= t.size
      /\ e.pos = Offset(insIndex) + Unit /\ e.size >= Offset(insIndex) + Unit
  <2>1. t.size \in Nat /\ DOMAIN t = SectionFields
    BY <1>2 DEF IsSection
  <2> HIDE DEF t
  <2>2. Changed(t, u) /\ SamePlace(t, u)
    BY <1>2, <1>3, SetFields
  <2>3. u.pos = Offset(insIndex) /\ u.size = t.size /\ DOMAIN u = SectionFields
    BY <2>1 DEF SectionFields
  <2> HIDE DEF u
  <2>4. Changed(t, e) /\ SamePlace(t, e)
    BY <2>2, <1>2, <1>3, EmitTwice
  <2>5. e.pos = u.pos + Unit /\ e.size = IF u.pos + Unit > u.size THEN u.pos + Unit ELSE u.size
    BY <2>3, EmitIs
  <2> HIDE DEF e
  <2> QED
    BY <2>1, <2>3, <2>4, <2>5, <1>3
<1> HIDE DEF e
<1>6. PICK n \in Nat :
        /\ next = n + 1 /\ n + 1 \in 1..Len(src.lines) /\ Line = src.lines[n + 1]
        /\ SectionsFrom(n) /\ LabelsFrom(n) /\ EndsFrom(n) /\ CursorIs(n) /\ RoomFor(n)
  BY <1>1, LineToRead
<1>7. Worked
  BY <1>2, <1>4, <1>5, OneWorked
<1>8. \A s \in DOMAIN sections : sections'[s].size >= sections[s].size
  BY <1>2, <1>4, <1>5, OneGrows
<1>9. src' = src /\ cur' = cur /\ insIndex' = insIndex + 1 /\ labels' = labels /\ Stay
  BY DEF Code
<1>10. SameLines /\ DOMAIN sections' = DOMAIN sections /\ \A s \in DOMAIN sections : sections'[s].size \in Nat
  BY <1>7, <1>9 DEF Worked, Changed, SameLines, IsSection
<1>11. SectionsFrom(n + 1)'
  BY <1>6, <1>10, SectionsKept
<1>12. LabelsFrom(n + 1)' /\ EndsFrom(n + 1)'
  BY <1>9, <1>1, <1>6, <1>10, LabelsKept DEF SameLabel
<1>13. CursorIs(n + 1)'
  <2>1. sections'[cur].pos = CodeEnd(insIndex)'
    <3>1. PICK x : x = insIndex
      OBVIOUS
    <3>2. x \in Nat /\ insIndex' = x + 1 /\ (x + 1) - 1 = x /\ x + 1 # 0
      BY <3>1, <1>3, <1>9
    <3>3. CodeEnd(insIndex)' = CodeEnd(x + 1)'
      BY <3>2 DEF CodeEnd
    <3>4. CodeEnd(x + 1)' = CodeEnd(x + 1)
      BY <1>9, LinesSame
    <3>5. CodeEnd(x + 1) = Offset(x) + Unit
      BY <3>2 DEF CodeEnd
    <3>6. sections'[cur] = e
      BY <1>2, <1>4
    <3> QED
      BY <3>1, <3>3, <3>4, <3>5, <3>6, <1>5
  <2> QED
    BY <2>1, <1>1, <1>6, <1>9, <1>10, CursorKept DEF TypeInv
<1>14. RoomFor(n + 1)'
  <2>1. ASSUME NEW s \in DOMAIN sections, Within(sections[s].line, n + 1)
        PROVE  sections'[s].size >= Offset(Before(s, n + 1)) + Unit
    <3>1. Within(sections[cur].line, n + 1)
      BY <1>1, <1>6, WithinNext DEF CursorIs
    <3>2. sections[cur].line = sections[s].line
      BY <2>1, <3>1, OneOpener
    <3>3. sections[cur].name = sections[s].name
      BY <3>2, <1>2, <1>6 DEF SectionsFrom
    <3>4. s = cur
      BY <3>3, <1>2 DEF TypeInv, SectionsTyped
    <3>5. Before(s, n + 1) = insIndex
      BY <3>4, <1>1, <1>6 DEF CursorIs
    <3>6. sections'[s] = e
      BY <3>4, <1>2, <1>4
    <3> QED
      BY <3>5, <3>6, <1>5
  <2> QED
    BY <2>1, <1>6, <1>8, <1>10, RoomKept
<1> QED
  BY <1>1, <1>6, <1>9, <1>11, <1>12, <1>13, <1>14, LineRead, LinesTyped

LEMMA OneLabelMore ==
  ASSUME TypeInv, NEW x, labels' = Append(labels, [name |-> x, sec |-> cur, at |-> LabelPos])
  PROVE  \E q : OneMore(q, x)
<1> DEFINE e == [name |-> x, sec |-> cur, at |-> LabelPos]
           r == Append(labels, e)
           q == Len(labels) + 1
<1>1. IsSeq(labels) /\ labels' = r
  BY DEF TypeInv, LabelsTyped
<1> HIDE DEF e
<1>2. /\ DOMAIN r = DOMAIN labels \cup {q} /\ q \notin DOMAIN labels
      /\ \A l \in DOMAIN labels : r[l] = labels[l]
      /\ r[q] = e
  BY <1>1, AppendIs
<1> HIDE DEF r, q
<1>3. e.name = x /\ e.sec = cur /\ e.at = LabelPos
  BY DEF e
<1>4. OneMore(q, x)
  BY <1>1, <1>2, <1>3 DEF OneMore
<1> QED
  BY <1>4

\* A label, or one of an attribute, which has no name.
LEMMA LabelPut ==
  ASSUME TypeInv, LandInv, stage = "scan", next <= Len(src.lines), Stay, cur # 0, NEW x,
         (Line.op = "label" /\ x = Line.name /\ ~HasLabel(x)) \/ (Line.op = "offset" /\ x = NoName),
         NEW q, OneMore(q, x),
         src' = src, cur' = cur, insIndex' = insIndex, sections' = sections
  PROVE  LandInv'
<1>1. PICK n \in Nat :
        /\ next = n + 1 /\ n + 1 \in 1..Len(src.lines) /\ Line = src.lines[n + 1]
        /\ SectionsFrom(n) /\ LabelsFrom(n) /\ EndsFrom(n) /\ CursorIs(n) /\ RoomFor(n)
  BY LineToRead
<1>2. /\ DOMAIN labels' = DOMAIN labels \cup {q} /\ q \notin DOMAIN labels
      /\ \A l \in DOMAIN labels : labels'[l] = labels[l]
  BY DEF OneMore
<1>3. labels'[q].name = x /\ labels'[q].sec = cur /\ labels'[q].at = LabelPos /\ cur \in DOMAIN sections
  <2>1. cur \in DOMAIN sections
    BY DEF TypeInv
  <2> QED
    BY <2>1 DEF OneMore
<1>4. SameLines /\ DOMAIN sections' = DOMAIN sections
      /\ \A s \in DOMAIN sections : sections'[s].size \in Nat /\ sections'[s].size >= sections[s].size
  BY DEF TypeInv, SectionsTyped, IsSection, SameLines
<1>5. SectionsFrom(n + 1)' /\ RoomFor(n + 1)'
  BY <1>1, <1>4, SectionsKept, RoomKept
<1>6. CursorIs(n + 1)'
  BY <1>1, <1>4, CursorKept DEF CodeEnd, Offset, Unit, CursorIs, TypeInv
<1>7. \A y : y \in 1..(n + 1) <=> y \in 1..n \/ y = n + 1
  <2>1. n \in Nat
    BY <1>1
  <2> QED
    BY <2>1
<1>8. \A l \in DOMAIN labels : SameLabel(l) /\ labels[l].sec \in DOMAIN sections /\ labels'[l].at = labels[l].at
  BY <1>1, <1>2 DEF SameLabel, LabelsFrom
<1>9. /\ Within(sections[cur].line, n + 1)
      /\ IsText(sections[cur].name) => insIndex = Before(cur, n + 1)
      /\ IsText(sections[cur].name) /\ CodeOnly => Pos = CodeEnd(insIndex)
  BY <1>1, WithinNext DEF CursorIs, Pos
\* The new label is where it should be.
<1>10. ASSUME InCode(q)' PROVE Defines(n + 1, q)' /\ AtSource(n + 1, q)' /\ AtEnd(n + 1, q)'
  <2>1. x # NoName /\ IsText(sections[cur].name)
    BY <1>3, <1>10 DEF InCode, IsText
  <2>2. src.lines[n + 1].op = "label" /\ src.lines[n + 1].name = x
    BY <2>1, <1>1
  <2>3. Within(sections[cur].line, n + 1)'
    BY <1>9 DEF Within
  <2>4. Defines(n + 1, q)'
    BY <2>2, <2>3, <1>3 DEF Defines, Within
  <2>5. Before(labels[q].sec, n + 1)' = insIndex
    <3>1. Before(labels[q].sec, n + 1)' = Before(cur, n + 1)
      BY <1>3 DEF Before
    <3> QED
      BY <3>1, <2>1, <1>9
  <2>6. ForSource(n + 1, q)' <=> (insIndex > 0 /\ BeforeSource(n + 1))
    <3>1. BeforeSource(n + 1)' <=> BeforeSource(n + 1)
      BY LinesSame
    <3> QED
      BY <3>1, <2>5 DEF ForSource
  <2>7. LabelPos = IF insIndex > 0 /\ BeforeSource(n + 1) THEN Offset(insIndex) ELSE Pos
    BY <1>1 DEF LabelPos
  <2>8. Offset(Before(labels[q].sec, n + 1))' = Offset(insIndex) /\ CodeEnd(Before(labels[q].sec, n + 1))' = CodeEnd(insIndex)
    BY <2>5 DEF Offset, CodeEnd, Unit
  <2>9. AtSource(n + 1, q)'
    BY <2>6, <2>7, <2>8, <1>3 DEF AtSource
  <2>10. CodeOnly' <=> CodeOnly
    BY LinesSame
  <2>11. AtEnd(n + 1, q)'
    BY <2>1, <2>6, <2>7, <2>8, <2>10, <1>3, <1>9 DEF AtEnd
  <2> QED
    BY <2>4, <2>9, <2>11
<1>11. ASSUME NEW i \in 1..(n + 1), src'.lines[i].op = "label" PROVE HasLabel(src.lines[i].name)'
  <2>1. CASE i \in 1..n
    <3>1. PICK l \in DOMAIN labels : labels[l].name = src.lines[i].name
      BY <2>1, <1>1, <1>11 DEF LabelsFrom, HasLabel
    <3>2. l \in DOMAIN labels' /\ labels'[l].name = src'.lines[i].name
      BY <3>1, <1>2
    <3> QED
      BY <3>2 DEF HasLabel
  <2>2. CASE i = n + 1
    <3>1. q \in DOMAIN labels' /\ labels'[q].name = src'.lines[i].name
      BY <2>2, <1>1, <1>2, <1>3, <1>11
    <3> QED
      BY <3>1 DEF HasLabel
  <2> QED
    BY <2>1, <2>2, <1>7
<1>12. ASSUME NEW i \in 1..n, src.lines[i].op = "label", src.lines[n + 1].op = "label", src.lines[i].name = src.lines[n + 1].name
       PROVE  FALSE
  <2>1. HasLabel(src.lines[i].name)
    BY <1>1, <1>12 DEF LabelsFrom
  <2> QED
    BY <2>1, <1>1, <1>12
<1>13. ASSUME NEW i \in 1..(n + 1), NEW j \in 1..(n + 1), src'.lines[i].op = "label", src'.lines[j].op = "label",
              src'.lines[i].name = src'.lines[j].name
       PROVE  i = j
  <2>1. CASE i \in 1..n /\ j \in 1..n
    BY <2>1, <1>1, <1>13 DEF LabelsFrom
  <2>2. CASE ~(i \in 1..n /\ j \in 1..n)
    BY <2>2, <1>7, <1>12, <1>13
  <2> QED
    BY <2>1, <2>2
<1>14. ASSUME NEW l \in DOMAIN labels', NEW k \in DOMAIN labels', labels'[l].name = labels'[k].name, labels'[l].name # NoName
       PROVE  l = k
  <2>1. CASE l \in DOMAIN labels /\ k \in DOMAIN labels
    BY <2>1, <1>1, <1>2, <1>14 DEF LabelsFrom
  <2>2. ASSUME NEW m \in DOMAIN labels, labels[m].name = x, x # NoName PROVE FALSE
    BY <2>2 DEF HasLabel
  <2>3. CASE l = q /\ k \in DOMAIN labels
    BY <2>2, <2>3, <1>2, <1>3, <1>14
  <2>4. CASE k = q /\ l \in DOMAIN labels
    BY <2>2, <2>4, <1>2, <1>3, <1>14
  <2> QED
    BY <2>1, <2>3, <2>4, <1>2
<1>15. ASSUME NEW l \in DOMAIN labels', InCode(l)'
       PROVE  /\ \E i \in 1..(n + 1) : Defines(i, l)' /\ AtSource(i, l)'
              /\ \E i \in 1..(n + 1) : Defines(i, l)' /\ AtEnd(i, l)'
  <2>1. CASE l = q
    BY <2>1, <1>7, <1>10, <1>15
  <2>2. CASE l \in DOMAIN labels
    <3>1. InCode(l)
      BY <2>2, <1>4, <1>8, <1>15, LabelSame
    <3>2. PICK i \in 1..n : Defines(i, l) /\ AtSource(i, l)
      BY <2>2, <3>1, <1>1 DEF LabelsFrom
    <3>3. PICK j \in 1..n : Defines(j, l) /\ AtEnd(j, l)
      BY <2>2, <3>1, <1>1 DEF EndsFrom
    <3>4. Defines(i, l)' /\ AtSource(i, l)'
      BY <2>2, <3>2, <1>4, <1>8, LabelSame
    <3>5. Defines(j, l)' /\ AtEnd(j, l)'
      BY <2>2, <3>3, <1>4, <1>8, LabelSame
    <3> QED
      BY <3>4, <3>5, <1>7
  <2> QED
    BY <2>1, <2>2, <1>2
<1>16. \A l \in DOMAIN labels' : labels'[l].sec \in DOMAIN sections'
  BY <1>2, <1>3, <1>8
<1>17. LabelsFrom(n + 1)'
  BY <1>11, <1>13, <1>14, <1>15, <1>16 DEF LabelsFrom
<1>18. EndsFrom(n + 1)'
  BY <1>15 DEF EndsFrom
<1> QED
  BY <1>1, <1>5, <1>6, <1>17, <1>18, LineRead, LinesTyped

LEMMA LabelRead ==
  ASSUME TypeInv, LandInv, Label \/ OffsetLabel
  PROVE  LandInv'
<1>1. CASE Label
  <2>1. PICK x : x = Line.name
    OBVIOUS
  <2>2. /\ stage = "scan" /\ next <= Len(src.lines) /\ Line.op = "label" /\ cur # 0 /\ ~HasLabel(x) /\ Stay
        /\ labels' = Append(labels, [name |-> x, sec |-> cur, at |-> LabelPos])
        /\ src' = src /\ cur' = cur /\ insIndex' = insIndex /\ sections' = sections
    BY <1>1, <2>1 DEF Label, Scanning, Accepted
  <2>3. PICK q : OneMore(q, x)
    BY <2>2, OneLabelMore
  <2>4. (Line.op = "label" /\ x = Line.name /\ ~HasLabel(x)) \/ (Line.op = "offset" /\ x = NoName)
    BY <2>1, <2>2
  <2> QED
    BY <2>2, <2>3, <2>4, LabelPut
<1>2. CASE OffsetLabel
  <2>1. PICK x : x = NoName
    OBVIOUS
  <2>2. /\ stage = "scan" /\ next <= Len(src.lines) /\ Line.op = "offset" /\ cur # 0 /\ Stay
        /\ labels' = Append(labels, [name |-> x, sec |-> cur, at |-> LabelPos])
        /\ src' = src /\ cur' = cur /\ insIndex' = insIndex /\ sections' = sections
    BY <1>2, <2>1 DEF OffsetLabel, Scanning, Accepted, NoName
  <2>3. PICK q : OneMore(q, x)
    BY <2>2, OneLabelMore
  <2>4. (Line.op = "label" /\ x = Line.name /\ ~HasLabel(x)) \/ (Line.op = "offset" /\ x = NoName)
    BY <2>1, <2>2
  <2> QED
    BY <2>2, <2>3, <2>4, LabelPut
<1> QED
  BY <1>1, <1>2

LEMMA SectionOpened ==
  ASSUME TypeInv, Section
  PROVE  \E q : OneOpened(q)
<1> DEFINE e == [name |-> Line.name, type |-> Line.type, regs |-> Line.regs, line |-> next, align |-> 0,
                 items |-> <<>>, attrs |-> <<>>, code |-> <<>>, entries |-> <<>>,
                 size |-> 0, pos |-> 0, at |-> 0, mem |-> 0, pad |-> 0]
           r == Append(sections, e)
           q == Len(sections) + 1
<1>1. IsSeq(sections) /\ sections' = r /\ cur' = q
  BY DEF TypeInv, SectionsTyped, Section
<1>2. e.name = Line.name /\ e.line = next /\ e.pos = 0
  OBVIOUS
<1> HIDE DEF e
<1>3. /\ DOMAIN r = DOMAIN sections \cup {q} /\ q \notin DOMAIN sections
      /\ \A s \in DOMAIN sections : r[s] = sections[s]
      /\ r[q] = e
  BY <1>1, AppendIs
<1>4. q # 0
  <2>1. Len(sections) \in Nat
    BY <1>1, IsSeqDomain
  <2> QED
    BY <2>1
<1> HIDE DEF r, q
<1>5. OneOpened(q)
  BY <1>1, <1>2, <1>3, <1>4 DEF OneOpened
<1> QED
  BY <1>5

LEMMA SectionRead ==
  ASSUME TypeInv, LandInv, Section
  PROVE  LandInv'
<1>1. stage = "scan" /\ next <= Len(src.lines) /\ Line.op = "section"
  BY DEF Section, Scanning
<1>2. PICK n \in Nat :
        /\ next = n + 1 /\ n + 1 \in 1..Len(src.lines) /\ Line = src.lines[n + 1]
        /\ SectionsFrom(n) /\ LabelsFrom(n) /\ EndsFrom(n) /\ CursorIs(n) /\ RoomFor(n)
  BY <1>1, LineToRead
<1>3. PICK q : OneOpened(q)
  BY SectionOpened
<1>4. /\ DOMAIN sections' = DOMAIN sections \cup {q} /\ q \notin DOMAIN sections
      /\ \A s \in DOMAIN sections : sections'[s] = sections[s]
      /\ sections'[q].name = src.lines[n + 1].name /\ sections'[q].line = n + 1 /\ sections'[q].pos = 0
      /\ cur' = q /\ q # 0 /\ src.lines[n + 1].op = "section"
  BY <1>1, <1>2, <1>3 DEF OneOpened
<1>5. src' = src /\ labels' = labels /\ Stay /\ insIndex' = IF IsText(Line.name) THEN 0 ELSE insIndex
  BY DEF Section
<1>6. SameLines
  BY <1>4, <1>5 DEF SameLines
<1>7. \A x : x \in 1..(n + 1) <=> x \in 1..n \/ x = n + 1
  <2>1. n \in Nat
    BY <1>2
  <2> QED
    BY <2>1
<1>8. SectionsFrom(n + 1)'
  <2> SUFFICES ASSUME NEW s \in DOMAIN sections'
               PROVE  /\ sections'[s].line \in 1..(n + 1)
                      /\ src'.lines[sections'[s].line].op = "section"
                      /\ src'.lines[sections'[s].line].name = sections'[s].name
    BY DEF SectionsFrom
  <2>1. CASE s = q
    BY <2>1, <1>4, <1>5, <1>7
  <2>2. CASE s \in DOMAIN sections
    BY <2>2, <1>2, <1>4, <1>5, <1>7 DEF SectionsFrom
  <2> QED
    BY <2>1, <2>2, <1>4
<1>9. LabelsFrom(n + 1)' /\ EndsFrom(n + 1)'
  BY <1>5, <1>2, <1>4, <1>6, LabelsKept DEF SameLabel
<1>10. CursorIs(n + 1)'
  <2>1. Within(n + 1, n + 1)'
    <3>1. n + 1 \in 1..(n + 1) /\ ((n + 1) + 1)..(n + 1) = {}
      OBVIOUS
    <3> QED
      BY <3>1, <1>4, <1>5 DEF Within
  <2>2. Within(sections[cur].line, n + 1)'
    BY <2>1, <1>4 DEF Within
  <2>3. Before(q, (n + 1) + 1)' = 0
    <3> DEFINE C == {j \in (n + 1)..(((n + 1) + 1) - 1) : src.lines[j].op = "code"}
    <3>1. \A j : j \in (n + 1)..(((n + 1) + 1) - 1) => j = n + 1
      OBVIOUS
    <3>2. C = {}
      BY <3>1, <1>4
    <3>3. Before(q, (n + 1) + 1)' = Cardinality(C)
      BY <1>4, <1>5 DEF Before
    <3> QED
      BY <3>2, <3>3, FS_EmptySet
  <2>4. Before(cur, (n + 1) + 1)' = 0
    BY <2>3, <1>4 DEF Before
  <2>5. ASSUME IsText(sections[cur].name)' PROVE insIndex' = 0
    BY <2>5, <1>2, <1>4, <1>5 DEF IsText
  <2>6. insIndex' = 0 => CodeEnd(insIndex)' = 0
    BY DEF CodeEnd
  <2> QED
    BY <2>2, <2>4, <2>5, <2>6, <1>4 DEF CursorIs
<1>11. RoomFor(n + 1)'
  <2> SUFFICES ASSUME NEW s \in DOMAIN sections', NEW i \in 1..(n + 1), src'.lines[i].op = "code", Within(sections[s].line, i)'
               PROVE  sections'[s].size >= Offset(Before(s, i))' + Unit'
    BY DEF RoomFor
  <2>1. i \in 1..n
    BY <1>4, <1>5, <1>7
  <2>2. PICK a : a = sections'[s].line
    OBVIOUS
  <2>3. Within(a, i)'
    BY <2>2 DEF Within
  <2>4. a \in 1..i /\ a # n + 1
    BY <2>1, <2>3 DEF Within
  <2>5. s \in DOMAIN sections /\ sections'[s] = sections[s] /\ a = sections[s].line
    BY <2>2, <2>4, <1>4
  <2>6. Within(sections[s].line, i)
    BY <2>3, <2>5, <1>5, LinesSame
  <2>7. sections[s].size >= Offset(Before(s, i)) + Unit
    BY <2>1, <2>5, <2>6, <1>2, <1>5 DEF RoomFor
  <2>8. PICK b : b = Before(s, i)
    OBVIOUS
  <2>9. Before(s, i)' = b
    BY <2>5, <2>8, <1>6, BeforeSame
  <2>10. Offset(Before(s, i))' = Offset(b)' /\ Offset(b)' = Offset(b) /\ Unit' = Unit
    BY <2>9, <1>5, LinesSame DEF Offset
  <2> QED
    BY <2>5, <2>7, <2>8, <2>10
<1> QED
  BY <1>1, <1>2, <1>5, <1>8, <1>9, <1>10, <1>11, LineRead, LinesTyped

LEMMA SegmentRead ==
  ASSUME TypeInv, LandInv, Segment
  PROVE  LandInv'
<1>1. /\ stage = "scan" /\ next <= Len(src.lines) /\ Line.op = "segment" /\ Stay
      /\ src' = src /\ cur' = 0 /\ labels' = labels /\ sections' = sections
  BY DEF Segment, Scanning
<1>2. PICK n \in Nat :
        /\ next = n + 1 /\ n + 1 \in 1..Len(src.lines) /\ Line = src.lines[n + 1]
        /\ SectionsFrom(n) /\ LabelsFrom(n) /\ EndsFrom(n) /\ CursorIs(n) /\ RoomFor(n)
  BY <1>1, LineToRead
<1>3. SameLines /\ DOMAIN sections' = DOMAIN sections
  BY <1>1 DEF SameLines
<1>4. \A s \in DOMAIN sections : sections'[s].size \in Nat /\ sections'[s].size >= sections[s].size
  BY <1>1 DEF TypeInv, SectionsTyped, IsSection
<1>5. SectionsFrom(n + 1)' /\ RoomFor(n + 1)'
  BY <1>1, <1>2, <1>3, <1>4, SectionsKept, RoomKept
<1>6. LabelsFrom(n + 1)' /\ EndsFrom(n + 1)'
  BY <1>1, <1>2, <1>3, LabelsKept DEF SameLabel
<1>7. CursorIs(n + 1)'
  BY <1>1 DEF CursorIs
<1> QED
  BY <1>1, <1>2, <1>5, <1>6, <1>7, LineRead, LinesTyped

LEMMA WorkedLines ==
  ASSUME TypeInv, Worked, src' = src
  PROVE  SameLines /\ Len(sections') = Len(sections) /\ DOMAIN sections' = DOMAIN sections
<1>1. Len(sections') = Len(sections)
  BY WorkedLen
<1> QED
  BY <1>1 DEF SameLines, Worked, Changed

LEMMA TargetsSame ==
  ASSUME TypeInv, Worked, src' = src, LabelsOfBefore, NEW s \in DOMAIN sections
  PROVE  /\ CodeLines(s)' = CodeLines(s)
         /\ \A line : Targets(s, line)' <=> Targets(s, line)
         /\ \A name : LabelLine(name)' = LabelLine(name)
<1>1. SameLines /\ Len(sections') = Len(sections) /\ Len(sections) \in Nat /\ DOMAIN sections = 1..Len(sections)
  BY WorkedLines, IsSeqDomain DEF TypeInv, SectionsTyped
<1>2. LinesOf(s)' = LinesOf(s)
  BY <1>1 DEF SameLines, LinesOf
<1>3. CodeLines(s)' = CodeLines(s)
  BY <1>2 DEF CodeLines
<1>4. \A line : Targets(s, line)' <=> Targets(s, line)
  BY DEF Targets, LabelsOfBefore, SameLabel
<1>5. \A name : LabelLine(name)' = LabelLine(name)
  BY DEF LabelLine
<1> QED
  BY <1>3, <1>4, <1>5

LEMMA JumpsKept ==
  ASSUME TypeInv, Worked, src' = src, LabelsOfBefore, NEW s \in DOMAIN sections,
         sections'[s].code = sections[s].code, JumpsLand(s)
  PROVE  JumpsLand(s)'
<1> SUFFICES ASSUME CodeOnly', IsText(sections[s].name)', NEW k \in DOMAIN CodeLines(s)', Targets(s, CodeLines(s)[k])'
             PROVE  sections'[s].code[k].operand = JumpTo(Before(s, LabelLine(CodeLines(s)[k].expr.a)))'
  BY DEF JumpsLand
<1> DEFINE c == CodeLines(s)
           i == LabelLine(c[k].expr.a)
<1>1. SameLines
  BY WorkedLines
<1>2. /\ CodeLines(s)' = CodeLines(s)
      /\ \A line : Targets(s, line)' <=> Targets(s, line)
      /\ \A name : LabelLine(name)' = LabelLine(name)
  BY TargetsSame
<1>3. CodeOnly /\ IsText(sections[s].name)
  BY <1>1, LinesSame DEF SameLines, IsText
<1>4. k \in DOMAIN c /\ Targets(s, c[k])
  BY <1>2
<1>5. sections[s].code[k].operand = JumpTo(Before(s, i))
  BY <1>3, <1>4 DEF JumpsLand
<1>6. Before(s, i)' = Before(s, i)
  <2>1. i' = i
    BY <1>2
  <2>2. \A x : Before(s, x)' = Before(s, x)
    BY <1>1, BeforeSame
  <2> QED
    BY <2>1, <2>2
<1>7. \A n : JumpTo(n)' = JumpTo(n)
  BY LinesSame
<1> HIDE DEF c
<1>8. JumpTo(Before(s, i))' = JumpTo(Before(s, i))
  BY <1>6, <1>7
<1> QED
  BY <1>5, <1>8 DEF c

LEMMA LinesKept ==
  ASSUME TypeInv, Worked, src' = src, LabelsOfBefore, SectionsFrom(Len(src.lines)), LabelsFrom(Len(src.lines))
  PROVE  /\ SectionsFrom(Len(src.lines))' /\ LabelsFrom(Len(src.lines))'
         /\ labels' = labels /\ EndsFrom(Len(src.lines)) => EndsFrom(Len(src.lines))'
         /\ sizeLabel' = sizeLabel /\ EndsMove => EndsMove'
<1>1. PICK N \in Nat : N = Len(src.lines)
  BY LinesTyped
<1>2. SameLines /\ DOMAIN sections' = DOMAIN sections
  BY WorkedLines
<1>3. SectionsFrom(N) /\ LabelsFrom(N) /\ (EndsFrom(Len(src.lines)) => EndsFrom(N))
  BY <1>1
<1>4. SectionsFrom(N)'
  BY <1>2, <1>3, SectionsKept
<1>5. \A l \in DOMAIN labels : labels'[l].at = labels[l].at \/
        (InCode(l) => \A i \in 1..N : Defines(i, l) => ~ForSource(i, l))
  BY <1>1 DEF LabelsOfBefore
<1>6. LabelsFrom(N)' /\ (EndsFrom(N) /\ (\A l \in DOMAIN labels : labels'[l].at = labels[l].at) => EndsFrom(N)')
  BY <1>2, <1>3, <1>5, LabelsKept DEF LabelsOfBefore
<1>7. Len(src.lines)' = N
  BY <1>1
<1>8. SectionsFrom(Len(src.lines))' <=> SectionsFrom(N)'
  BY <1>7 DEF SectionsFrom
<1>9. LabelsFrom(Len(src.lines))' <=> LabelsFrom(N)'
  BY <1>7 DEF LabelsFrom
<1>10. EndsFrom(Len(src.lines))' <=> EndsFrom(N)'
  BY <1>7 DEF EndsFrom
<1>11. ASSUME sizeLabel' = sizeLabel, EndsMove PROVE EndsMove'
  <2> SUFFICES ASSUME NEW s \in DOMAIN sizeLabel
               PROVE  /\ sizeLabel[s] \in DOMAIN labels'
                      /\ InCode(sizeLabel[s])' => \A i \in 1..N : Defines(i, sizeLabel[s])' => ~ForSource(i, sizeLabel[s])'
    BY <1>7, <1>11 DEF EndsMove
  <2>1. PICK l : l = sizeLabel[s]
    OBVIOUS
  <2>2. l \in DOMAIN labels /\ (InCode(l) => \A i \in 1..N : Defines(i, l) => ~ForSource(i, l))
    BY <2>1, <1>1, <1>11 DEF EndsMove
  <2>3. labels[l].sec \in DOMAIN sections /\ SameLabel(l)
    BY <2>2 DEF LabelsFrom, LabelsOfBefore
  <2>4. /\ InCode(l)' <=> InCode(l)
        /\ \A i : (Defines(i, l)' <=> Defines(i, l)) /\ (ForSource(i, l)' <=> ForSource(i, l))
    BY <2>3, <1>2, LabelSame
  <2>5. l \in DOMAIN labels' /\ (InCode(l)' => \A i \in 1..N : Defines(i, l)' => ~ForSource(i, l)')
    BY <2>2, <2>4 DEF LabelsOfBefore
  <2>6. sizeLabel'[s] = l
    BY <2>1, <1>11
  <2>7. /\ InCode(sizeLabel[s])' <=> InCode(l)'
        /\ \A i : (Defines(i, sizeLabel[s])' <=> Defines(i, l)') /\ (ForSource(i, sizeLabel[s])' <=> ForSource(i, l)')
    BY <2>6 DEF InCode, Defines, ForSource
  <2> QED
    BY <2>1, <2>5, <2>7
<1> QED
  BY <1>4, <1>6, <1>8, <1>9, <1>10, <1>11, <1>3

\* A pass that leaves the jumps as they are.
LEMMA PassLands ==
  ASSUME TypeInv, LandInv, Worked, src' = src, LabelsOfBefore, sizeLabel' = sizeLabel,
         stage \notin {"scan", "gather", "done", "failed"}, GoOn \/ Stay,
         stage \in {"tables", "fixups", "kernels"} => labels' = labels,
         \A s \in DOMAIN sections : sections'[s].code = sections[s].code,
         stage = "kernels" /\ GoOn => \A s \in DOMAIN sections : s < next,
         stage = "kernels" /\ Stay /\ next \in DOMAIN sections => ~IsText(sections[next].name)
  PROVE  LandInv'
<1>1. stage \in Stages /\ next \in Nat \ {0} /\ IsSeq(sections)
  BY DEF TypeInv, SectionsTyped
<1>2. DOMAIN sections' = DOMAIN sections /\ DOMAIN sections \subseteq Nat \ {0}
  BY <1>1, IsSeqDomain, WorkedLines
<1>3. \A s \in DOMAIN sections : JumpsLand(s) => JumpsLand(s)'
  BY JumpsKept
<1>4. SectionsFrom(Len(src.lines)) /\ LabelsFrom(Len(src.lines)) /\ EndsMove
  BY DEF LandInv
<1>5. SectionsFrom(Len(src.lines))' /\ LabelsFrom(Len(src.lines))' /\ EndsMove'
  BY <1>4, LinesKept
<1>6. stage' \in {"gather", "tables", "fixups", "kernels"} => EndsFrom(Len(src.lines))'
  BY <1>1, GoesOn, <1>4, LinesKept DEF Stages, Stay, LandInv
<1>7. stage' \in Stages \ {"scan", "gather", "failed"}
  BY <1>1, GoesOn DEF Stages, Stay
<1>8. stage' = "kernels" => \A s \in DOMAIN sections : s < next' => JumpsLand(s)'
  <2> SUFFICES ASSUME stage' = "kernels", NEW s \in DOMAIN sections, s < next' PROVE JumpsLand(s)'
    OBVIOUS
  <2>1. CASE GoOn
    BY <2>1, <1>2, GoesOn
  <2>2. CASE Stay
    <3>1. stage = "kernels" /\ next' = next + 1
      BY <2>2 DEF Stay
    <3>2. s < next \/ s = next
      BY <3>1, <1>1, <1>2
    <3>3. CASE s < next
      BY <3>1, <3>3, <1>3 DEF LandInv
    <3>4. CASE s = next
      BY <3>1, <3>4, <2>2 DEF Worked, Changed, IsText, JumpsLand
    <3> QED
      BY <3>2, <3>3, <3>4
  <2> QED
    BY <2>1, <2>2
<1>9. stage' \in Assembled => \A s \in DOMAIN sections : JumpsLand(s)'
  <2> SUFFICES ASSUME stage' \in Assembled, NEW s \in DOMAIN sections PROVE JumpsLand(s)
    BY <1>3
  <2>1. stage \in Assembled \/ (stage = "kernels" /\ GoOn)
    BY <1>1, GoesOn DEF Stages, Stay, Assembled
  <2> QED
    BY <2>1 DEF LandInv
<1> QED
  BY <1>2, <1>5, <1>6, <1>7, <1>8, <1>9 DEF LandInv

\* The passes that leave the sections alone.
LEMMA SameLabels ==
  ASSUME labels' = labels
  PROVE  LabelsOfBefore
  BY DEF LabelsOfBefore, SameLabel

LEMMA IdleLands ==
  ASSUME TypeInv, LandInv, UNCHANGED <<src, sections, labels, sizeLabel>>,
         stage \notin {"scan", "gather", "done", "failed"}, GoOn \/ Stay,
         stage = "kernels" /\ GoOn => \A s \in DOMAIN sections : s < next,
         stage = "kernels" /\ Stay /\ next \in DOMAIN sections => ~IsText(sections[next].name)
  PROVE  LandInv'
<1>1. Worked /\ LabelsOfBefore
  BY UnchangedWorked, SameLabels
<1>2. src' = src /\ labels' = labels /\ sizeLabel' = sizeLabel /\ \A s \in DOMAIN sections : sections'[s].code = sections[s].code
  OBVIOUS
<1> QED
  BY <1>1, <1>2, PassLands

LEMMA TablesLand ==
  ASSUME TypeInv, LandInv, BuildTables \/ FixupsEnd \/ SkipNull \/ LayoutEnd \/ LocateSegments \/ UpdateSymtab \/ Save
  PROVE  LandInv'
<1>1. UNCHANGED <<src, sections, labels, sizeLabel>> /\ stage \notin {"scan", "gather", "kernels", "done", "failed"} /\ (GoOn \/ Stay)
  BY DEF BuildTables, FixupsEnd, SkipNull, LayoutEnd, LocateSegments, UpdateSymtab, Save, scanned, tables
<1> QED
  BY <1>1, IdleLands

LEMMA SkipLands ==
  ASSUME TypeInv, LandInv, SkipSection \/ KernelsEnd
  PROVE  LandInv'
<1>1. UNCHANGED <<src, sections, labels, sizeLabel>> /\ stage = "kernels"
  BY DEF SkipSection, KernelsEnd, scanned, tables
<1>2. Len(sections) \in Nat /\ DOMAIN sections = 1..Len(sections) /\ next \in Nat
  BY IsSeqDomain DEF TypeInv, SectionsTyped
<1>3. CASE SkipSection
  <2>1. Stay /\ ~IsText(sections[next].name) /\ ~GoOn
    <3>1. stage' = "kernels"
      BY <1>1, <1>3 DEF SkipSection, Stay
    <3> QED
      BY <3>1, <1>1, <1>3, GoesOn DEF SkipSection
  <2> QED
    BY <2>1, <1>1, IdleLands
<1>4. CASE KernelsEnd
  BY <1>2, <1>4, <1>1, GoesOn, IdleLands DEF KernelsEnd, Stay
<1> QED
  BY <1>3, <1>4

\* The passes that write into sections other than code.
LEMMA WorkLands ==
  ASSUME TypeInv, LandInv, Worked, UNCHANGED <<src, labels, sizeLabel>>,
         stage \in {"fixups", "regcounts", "relocations", "layout"}, GoOn \/ Stay,
         \A s \in DOMAIN sections : sections'[s].code = sections[s].code
  PROVE  LandInv'
<1>1. LabelsOfBefore /\ src' = src /\ sizeLabel' = sizeLabel /\ labels' = labels
  BY SameLabels
<1> QED
  BY <1>1, PassLands

LEMMA OneSameCode ==
  ASSUME NEW c \in DOMAIN sections, NEW e, e.code = sections[c].code, sections' = [sections EXCEPT ![c] = e]
  PROVE  \A s \in DOMAIN sections : sections'[s].code = sections[s].code
<1>1. \A s \in DOMAIN sections : sections'[s] = IF s = c THEN e ELSE sections[s]
  OBVIOUS
<1> QED
  BY <1>1

LEMMA FixupLands ==
  ASSUME TypeInv, LandInv, EvalFixup
  PROVE  LandInv'
<1>1. PICK f : f = fixups[next] /\ f.sec \in DOMAIN sections /\ IsExpr(f.expr)
  BY FixupIn, Zenon
<1>2. PICK e : /\ e = [sections[f.sec] EXCEPT !.items[f.at].num = Written(f)]
               /\ sections' = sections \/ sections' = [sections EXCEPT ![f.sec] = e]
  BY <1>1, FixupDoes
<1>3. Stay /\ stage = "fixups" /\ UNCHANGED <<src, labels, sizeLabel>>
  BY DEF EvalFixup, scanned, tables
<1>4. Worked
  BY FixupWorked
<1>5. e.code = sections[f.sec].code
  <2>1. PICK w, v : w = sections[f.sec] /\ v = Written(f)
    OBVIOUS
  <2>2. DOMAIN w = SectionFields
    BY <2>1, <1>1 DEF TypeInv, SectionsTyped, IsSection
  <2>3. e = [w EXCEPT !.items[f.at].num = v]
    BY <2>1, <1>2
  <2> QED
    BY <2>1, <2>2, <2>3 DEF SectionFields
<1>6. \A s \in DOMAIN sections : sections'[s].code = sections[s].code
  BY <1>1, <1>2, <1>5, OneSameCode
<1> QED
  BY <1>3, <1>4, <1>6, WorkLands

LEMMA SetAttrsCode ==
  ASSUME TypeInv, NEW t \in DOMAIN sections, NEW attrs
  PROVE  SetAttrs(t, attrs).code = sections[t].code
<1>1. DOMAIN sections[t] = SectionFields
  BY DEF TypeInv, SectionsTyped, IsSection
<1> QED
  BY <1>1 DEF SetAttrs, SectionFields

LEMMA CountsLand ==
  ASSUME TypeInv, LandInv, CountRegs
  PROVE  LandInv'
<1> DEFINE t == SectionOf(<<".nv.info">>)
           f == SetAttrs(t, SetRegCount(AttrsOf(t), RegNums))
<1>1. stage = "regcounts" /\ HasSection(<<".nv.info">>) /\ sections' = [sections EXCEPT ![t] = f]
  BY DEF CountRegs
<1>2. t \in DOMAIN sections
  BY <1>1, SectionIs
<1>3. f.code = sections[t].code
  BY <1>2, SetAttrsCode
<1>4. GoOn /\ UNCHANGED <<src, labels, sizeLabel>>
  BY DEF CountRegs, scanned, tables
<1> HIDE DEF t, f
<1>5. \A s \in DOMAIN sections : sections'[s].code = sections[s].code
  BY <1>1, <1>2, <1>3, OneSameCode
<1> QED
  BY <1>1, <1>4, <1>5, CountsWorked, WorkLands

LEMMA RelocationsLand ==
  ASSUME TypeInv, LandInv, BuildRelocations
  PROVE  LandInv'
<1> DEFINE u(s) == [sections[s] EXCEPT !.entries = Reverse(RelsOf(s))]
           e(s) == Emit(u(s), EntriesSize(RelsOf(s)))
<1>1. stage = "relocations" /\ sections' = [s \in DOMAIN sections |-> e(s)]
  BY DEF BuildRelocations
<1>2. GoOn /\ UNCHANGED <<src, labels, sizeLabel>>
  BY DEF BuildRelocations, scanned, tables
<1>3. ASSUME NEW s \in DOMAIN sections PROVE e(s).code = sections[s].code
  <2> DEFINE w == sections[s]
             v == u(s)
  <2>1. DOMAIN w = SectionFields
    BY DEF TypeInv, SectionsTyped, IsSection
  <2>2. v = [w EXCEPT !.entries = Reverse(RelsOf(s))] /\ e(s) = Emit(v, EntriesSize(RelsOf(s)))
    OBVIOUS
  <2> HIDE DEF v, w, e
  <2>3. DOMAIN v = SectionFields /\ v.code = w.code
    BY <2>1, <2>2 DEF SectionFields
  <2>4. e(s).code = v.code
    BY <2>2, <2>3, EmitIs DEF SectionFields
  <2> QED
    BY <2>3, <2>4 DEF w
<1> HIDE DEF e
<1>4. \A s \in DOMAIN sections : sections'[s].code = sections[s].code
  BY <1>1, <1>3
<1> QED
  BY <1>1, <1>2, <1>4, BuildRelocationsWorked, WorkLands

LEMMA FirstLands ==
  ASSUME TypeInv, LandInv, LayoutFirstSection
  PROVE  LandInv'
<1> DEFINE e == [sections[next] EXCEPT !.at = end.file, !.mem = end.mem]
<1>1. next \in DOMAIN sections /\ Worked
  BY LayoutFirstIs
<1>2. sections' = [sections EXCEPT ![next] = e]
  BY <1>1 DEF LayoutFirstSection, Place
<1>3. e.code = sections[next].code
  BY <1>1 DEF TypeInv, SectionsTyped, IsSection, SectionFields
<1> HIDE DEF e
<1>4. \A s \in DOMAIN sections : sections'[s].code = sections[s].code
  BY <1>1, <1>2, <1>3, OneSameCode
<1>5. Stay /\ stage = "layout" /\ UNCHANGED <<src, labels, sizeLabel>>
  BY DEF LayoutFirstSection, scanned, tables
<1> QED
  BY <1>1, <1>4, <1>5, WorkLands

\* Padding moves the end label of a section, which is for no jump's source.
LEMMA PaddedLabel ==
  ASSUME TypeInv, LandInv, stage = "layout", NEW p, NEW al, labels' = PadLabel(p, al)
  PROVE  LabelsOfBefore
<1>1. CASE labels' = labels
  BY <1>1, SameLabels
<1>2. CASE labels' # labels
  <2> DEFINE n == sections[p].size + FilePad(p, al)
  <2>1. p \in DOMAIN sizeLabel /\ labels' = [labels EXCEPT ![sizeLabel[p]].at = n]
    BY <1>2 DEF PadLabel
  <2> HIDE DEF n
  <2>2. PICK l : l = sizeLabel[p]
    OBVIOUS
  <2>3. /\ l \in DOMAIN labels /\ EndsMove
        /\ InCode(l) => \A i \in 1..Len(src.lines) : Defines(i, l) => ~ForSource(i, l)
    BY <2>1, <2>2 DEF LandInv, EndsMove
  <2>4. DOMAIN labels' = DOMAIN labels /\ \A k \in DOMAIN labels : k # l => labels'[k] = labels[k]
    BY <2>1, <2>2
  <2>5. SameLabel(l)
    BY <2>3, <2>1, <2>2 DEF TypeInv, LabelsTyped, SameLabel
  <2> QED
    BY <2>3, <2>4, <2>5 DEF LabelsOfBefore, SameLabel
<1> QED
  BY <1>1, <1>2

LEMMA LayoutLands ==
  ASSUME TypeInv, LandInv, LayoutSection
  PROVE  LandInv'
<1> DEFINE p == next - 1
           al == AlignFor(next)
           u == Padded(p, al)
           e == [sections[next] EXCEPT !.at = end.file + FilePad(p, al), !.mem = end.mem + MemPad(p, al)]
<1>1. stage = "layout" /\ next <= Len(sections) /\ Previous(next) # 0 /\ Stay /\ src' = src /\ sizeLabel' = sizeLabel
  BY DEF LayoutSection, tables
<1>2. /\ p \in DOMAIN sections /\ next \in DOMAIN sections /\ Previous(next) = p /\ p # next
      /\ FilePad(p, al) \in Nat /\ MemPad(p, al) \in Nat
  <2>1. next \in Nat
    BY DEF TypeInv
  <2> QED
    BY <2>1, <1>1, LayoutAt
<1>3. Worked /\ LabelsOfBefore
  <2>1. labels' = PadLabel(p, al)
    BY <1>2 DEF LayoutSection
  <2> QED
    BY <2>1, <1>1, LayoutSectionIs, PaddedLabel
<1>4. u.code = sections[p].code /\ e.code = sections[next].code
  <2>1. DOMAIN sections[p] = SectionFields /\ DOMAIN sections[next] = SectionFields
    BY <1>2 DEF TypeInv, SectionsTyped, IsSection
  <2> HIDE DEF p, al
  <2>2. e.code = sections[next].code
    BY <2>1 DEF SectionFields
  <2>3. u.code = sections[p].code
    BY <2>1 DEF Padded, SectionFields
  <2> QED
    BY <2>2, <2>3
<1>5. sections' = [[sections EXCEPT ![p] = u] EXCEPT ![next] = e]
  <2>1. sections' = [[sections EXCEPT ![p] = u] EXCEPT ![next].at = end.file + FilePad(p, al), ![next].mem = end.mem + MemPad(p, al)]
    BY <1>2 DEF LayoutSection, Place
  <2> HIDE DEF p, al, u
  <2> QED
    BY <2>1, <1>2
<1> HIDE DEF p, al, u, e
<1>6. \A s \in DOMAIN sections : sections'[s].code = sections[s].code
  BY <1>2, <1>5, <1>4
<1> QED
  BY <1>1, <1>3, <1>6, PassLands

\* The start, the end of a file that is not assembled, and the next file.
LEMMA NothingLands ==
  ASSUME stage = "scan", next = 1, cur = 0, sections = <<>>, labels = <<>>, Len(src.lines) \in Nat
  PROVE  LandInv
<1>1. DOMAIN sections = {} /\ DOMAIN labels = {}
  BY NoneIsSeq
<1>2. next - 1 = 0 /\ next <= Len(src.lines) + 1 /\ 1..0 = {}
  OBVIOUS
<1>3. SectionsFrom(0) /\ LabelsFrom(0) /\ EndsFrom(0) /\ CursorIs(0) /\ RoomFor(0)
  BY <1>1, <1>2 DEF SectionsFrom, LabelsFrom, EndsFrom, CursorIs, RoomFor
<1> QED
  BY <1>2, <1>3 DEF LandInv, Assembled

LEMMA InitLands ==
  ASSUME Init
  PROVE  LandInv
<1>1. Len(src.lines) \in Nat
  BY SourceAssumption DEF Init
<1> QED
  BY <1>1, NothingLands DEF Init

LEMMA ParseLands ==
  ASSUME Parse
  PROVE  LandInv'
<1>1. PICK f \in Again : Restart(f)
  BY DEF Parse
<1>2. DOMAIN sections' = {} /\ DOMAIN labels' = {}
  BY <1>1, NoneIsSeq DEF Restart
<1>3. Len(src'.lines) \in Nat /\ stage' = "scan" /\ next' = 1 /\ cur' = 0
  BY <1>1, SourceAssumption DEF Restart
<1>4. next' - 1 = 0 /\ next' <= Len(src'.lines) + 1 /\ 1..0 = {}
  BY <1>3
<1>5. SectionsFrom(0)' /\ LabelsFrom(0)' /\ EndsFrom(0)' /\ CursorIs(0)' /\ RoomFor(0)'
  BY <1>2, <1>3, <1>4 DEF SectionsFrom, LabelsFrom, EndsFrom, CursorIs, RoomFor
<1>6. /\ SectionsFrom(next - 1)' <=> SectionsFrom(0)'
      /\ LabelsFrom(next - 1)' <=> LabelsFrom(0)'
      /\ EndsFrom(next - 1)' <=> EndsFrom(0)'
      /\ CursorIs(next - 1)' <=> CursorIs(0)'
      /\ RoomFor(next - 1)' <=> RoomFor(0)'
  BY <1>4 DEF SectionsFrom, LabelsFrom, EndsFrom, CursorIs, RoomFor
<1> QED
  BY <1>3, <1>4, <1>5, <1>6 DEF LandInv, Assembled

LEMMA FailLands ==
  ASSUME Throw
  PROVE  LandInv'
<1>1. stage' = "failed"
  BY ThrowFails DEF Fail
<1> QED
  BY <1>1 DEF LandInv, Assembled

\* Where nothing is done to the sections.
LEMMA RoomSame ==
  ASSUME TypeInv, src' = src, sections' = sections, NEW n, RoomFor(n)
  PROVE  RoomFor(n)'
<1>1. SameLines
  BY UnchangedWorked, WorkedLines
<1> SUFFICES ASSUME NEW s \in DOMAIN sections, NEW i \in 1..n, src.lines[i].op = "code", Within(sections[s].line, i)'
             PROVE  sections'[s].size >= Offset(Before(s, i))' + Unit'
  BY DEF RoomFor
<1>2. Within(sections[s].line, i)
  BY DEF Within
<1>3. sections[s].size >= Offset(Before(s, i)) + Unit
  BY <1>2 DEF RoomFor
<1>4. Before(s, i)' = Before(s, i) /\ Unit' = Unit /\ \A x : Offset(x)' = Offset(x)
  BY <1>1, BeforeSame, LinesSame
<1>5. Offset(Before(s, i))' = Offset(Before(s, i))
  BY <1>4
<1> QED
  BY <1>3, <1>4, <1>5

LEMMA CursorSame ==
  ASSUME TypeInv, src' = src, sections' = sections, cur' = cur, insIndex' = insIndex, NEW n, CursorIs(n)
  PROVE  CursorIs(n)'
<1> SUFFICES ASSUME cur # 0 PROVE /\ Within(sections[cur].line, n)'
                                  /\ IsText(sections[cur].name) => insIndex = Before(cur, n + 1)'
                                  /\ IsText(sections[cur].name) /\ CodeOnly' => sections[cur].pos = CodeEnd(insIndex)'
  BY DEF CursorIs
<1>1. Within(sections[cur].line, n) => Within(sections[cur].line, n)'
  BY DEF Within
<1>2. Before(cur, n + 1)' = Before(cur, n + 1)
  BY DEF Before
<1>3. CodeOnly' <=> CodeOnly
  BY LinesSame
<1>4. CodeEnd(insIndex)' = CodeEnd(insIndex)
  BY LinesSame DEF CodeEnd, Offset, Unit
<1> QED
  BY <1>1, <1>2, <1>3, <1>4 DEF CursorIs

\* The end of the scan, and the end labels.
LEMMA ScanEndLands ==
  ASSUME TypeInv, LandInv, ScanEnd
  PROVE  LandInv'
<1>1. stage = "scan" /\ next > Len(src.lines) /\ stage' = "gather" /\ UNCHANGED <<src, sections, labels>>
  BY GoesOn DEF ScanEnd, scanned
<1>2. PICK N \in Nat : N = Len(src.lines)
  BY LinesTyped
<1>3. next - 1 = N
  <2>1. next <= N + 1 /\ next > N /\ next \in Nat
    BY <1>1, <1>2 DEF LandInv, TypeInv
  <2> QED
    BY <2>1
<1>4. SectionsFrom(N) /\ LabelsFrom(N) /\ EndsFrom(N) /\ RoomFor(N)
  BY <1>1, <1>3 DEF LandInv
<1>5. Worked /\ LabelsOfBefore
  BY <1>1, UnchangedWorked, SameLabels
<1>6. SectionsFrom(Len(src.lines)) /\ LabelsFrom(Len(src.lines)) /\ EndsFrom(Len(src.lines))
  BY <1>2, <1>4
<1>7. SectionsFrom(Len(src.lines))' /\ LabelsFrom(Len(src.lines))' /\ EndsFrom(Len(src.lines))'
  BY <1>1, <1>5, <1>6, LinesKept
<1>8. RoomFor(Len(src.lines))'
  <2>1. RoomFor(N)'
    BY <1>1, <1>4, RoomSame
  <2>2. Len(src.lines)' = N
    BY <1>1, <1>2
  <2> QED
    BY <2>1, <2>2 DEF RoomFor
<1> QED
  BY <1>1, <1>7, <1>8 DEF LandInv, Assembled

LEMMA GreatestElement ==
  ASSUME NEW n \in Nat, NEW T \in SUBSET (1..n), T # {}
  PROVE  \E x \in T : \A y \in T : y <= x
<1> DEFINE D == {n - x : x \in T}
<1>1. D \in SUBSET Nat /\ D # {}
  <2>1. \A x \in T : x \in 1..n /\ n - x \in Nat
    OBVIOUS
  <2> QED
    BY <2>1
<1> HIDE DEF D
<1>2. PICK d \in D : \A y \in D : d <= y
  BY <1>1, LeastElement
<1> USE DEF D
<1>3. PICK x \in T : d = n - x
  OBVIOUS
<1>4. \A y \in T : n - x <= n - y
  BY <1>2, <1>3
<1> QED
  BY <1>3, <1>4

LEMMA EndIsNoSource ==
  ASSUME TypeInv, LandInv, stage = "gather", NEW l \in DOMAIN labels, InCode(l),
         labels[l].sec \in DOMAIN sections => labels[l].at = sections[labels[l].sec].size,
         NEW i \in 1..Len(src.lines), Defines(i, l)
  PROVE  ~ForSource(i, l)
<1> SUFFICES ASSUME ForSource(i, l) PROVE FALSE
  OBVIOUS
<1>1. PICK N \in Nat : N = Len(src.lines)
  BY LinesTyped
<1>2. LabelsFrom(N) /\ RoomFor(N)
  BY <1>1 DEF LandInv
<1>3. PICK s \in DOMAIN sections : s = labels[l].sec
  BY <1>2 DEF LabelsFrom
<1>4. sections[s].line \in Nat /\ labels[l].at = sections[s].size
  BY <1>3 DEF TypeInv, SectionsTyped, IsSection
<1>5. PICK k \in 1..N : Defines(k, l) /\ AtSource(k, l)
  BY <1>2 DEF LabelsFrom
<1>6. k = i
  BY <1>1, <1>2, <1>5 DEF LabelsFrom, Defines
<1>7. labels[l].at = Offset(Before(s, i)) /\ BeforeSource(i)
  BY <1>3, <1>5, <1>6 DEF AtSource, ForSource
<1>8. src.lines[i].op = "label" /\ Within(sections[s].line, i) /\ i \in Nat
  BY <1>1, <1>3 DEF Defines
<1>9. PICK j \in (i + 1)..N : /\ src.lines[j].op = "code"
                              /\ \A m \in (i + 1)..(j - 1) : src.lines[m].op \in {"label", "offset"}
  BY <1>1, <1>7, SourceAhead
<1>10. Within(sections[s].line, j)
  <2>1. /\ sections[s].line \in 1..i /\ src.lines[sections[s].line].op = "section"
        /\ \A m \in (sections[s].line + 1)..i : src.lines[m].op \notin {"section", "segment"}
    BY <1>8 DEF Within
  <2>2. \A m \in (sections[s].line + 1)..j : m \in (sections[s].line + 1)..i \/ m \in (i + 1)..(j - 1) \/ m = j
    BY <1>4, <1>8, <1>9
  <2>3. \A m \in (sections[s].line + 1)..j : src.lines[m].op \notin {"section", "segment"}
    BY <2>1, <2>2, <1>9
  <2>4. sections[s].line \in 1..j
    BY <2>1, <1>8, <1>9
  <2> QED
    BY <2>1, <2>3, <2>4 DEF Within
<1>11. Before(s, j) = Before(s, i) /\ Before(s, i) \in Nat
  <2>1. \A m \in i..(j - 1) : m = i \/ m \in (i + 1)..(j - 1)
    BY <1>8, <1>9
  <2>2. \A m \in i..(j - 1) : src.lines[m].op # "code"
    BY <2>1, <1>8, <1>9
  <2>3. sections[s].line <= i /\ i <= j /\ j \in Nat
    BY <1>8, <1>9 DEF Within
  <2> QED
    BY <2>2, <2>3, <1>4, <1>8, NoneBetween, BeforeIs
<1>12. sections[s].size >= Offset(Before(s, j)) + Unit
  <2>1. j \in 1..N
    BY <1>8, <1>9
  <2> QED
    BY <2>1, <1>2, <1>9, <1>10 DEF RoomFor
<1>13. Offset(Before(s, i)) \in Nat
  BY <1>11, OffsetType
<1>14. Unit \in Nat /\ Unit > 0
  BY DEF Unit, Six!Unit, Seven!Unit
<1>15. sections[s].size = Offset(Before(s, i)) /\ sections[s].size >= Offset(Before(s, i)) + Unit
  BY <1>4, <1>7, <1>11, <1>12
<1> QED
  BY <1>13, <1>14, <1>15

LEMMA GatherLands ==
  ASSUME TypeInv, LandInv, Gather
  PROVE  LandInv'
<1>1. stage = "gather" /\ stage' = "tables" /\ UNCHANGED <<src, sections, labels>>
  BY GoesOn DEF Gather, scanned
<1>2. Worked /\ LabelsOfBefore /\ SectionsFrom(Len(src.lines)) /\ LabelsFrom(Len(src.lines)) /\ EndsFrom(Len(src.lines))
  BY <1>1, UnchangedWorked, SameLabels DEF LandInv
<1>3. SectionsFrom(Len(src.lines))' /\ LabelsFrom(Len(src.lines))' /\ EndsFrom(Len(src.lines))'
  BY <1>1, <1>2, LinesKept
<1>4. ASSUME NEW s \in DOMAIN sizeLabel' PROVE sizeLabel'[s] \in EndLabels(s) /\ s \in DOMAIN sections
  <2>1. s \in DOMAIN sections /\ EndLabels(s) # {} /\ sizeLabel'[s] = CHOOSE l \in EndLabels(s) : \A k \in EndLabels(s) : k <= l
    BY DEF Gather
  <2>2. Len(labels) \in Nat /\ EndLabels(s) \in SUBSET (1..Len(labels))
    BY IsSeqDomain DEF TypeInv, LabelsTyped, EndLabels
  <2>3. PICK n \in Nat : n = Len(labels)
    BY <2>2
  <2>4. \E l \in EndLabels(s) : \A k \in EndLabels(s) : k <= l
    BY <2>1, <2>2, <2>3, GreatestElement
  <2> QED
    BY <2>1, <2>4
<1>5. EndsMove'
  <2> SUFFICES ASSUME NEW s \in DOMAIN sizeLabel'
               PROVE  /\ sizeLabel'[s] \in DOMAIN labels
                      /\ InCode(sizeLabel[s])' => \A i \in 1..Len(src.lines) : Defines(i, sizeLabel[s])' => ~ForSource(i, sizeLabel[s])'
    BY <1>1 DEF EndsMove
  <2>1. PICK l : l = sizeLabel'[s]
    OBVIOUS
  <2>2. l \in DOMAIN labels /\ labels[l].sec = s /\ labels[l].at = sections[s].size /\ s \in DOMAIN sections
    BY <2>1, <1>4 DEF EndLabels
  <2>3. InCode(l) => \A i \in 1..Len(src.lines) : Defines(i, l) => ~ForSource(i, l)
    BY <1>1, <2>2, EndIsNoSource
  <2>4. SameLines /\ SameLabel(l)
    BY <1>1, <1>2, WorkedLines DEF SameLabel
  <2>5. /\ InCode(l)' <=> InCode(l)
        /\ \A i : (Defines(i, l)' <=> Defines(i, l)) /\ (ForSource(i, l)' <=> ForSource(i, l))
    BY <2>2, <2>4, LabelSame
  <2>6. /\ InCode(sizeLabel[s])' <=> InCode(l)'
        /\ \A i : (Defines(i, sizeLabel[s])' <=> Defines(i, l)') /\ (ForSource(i, sizeLabel[s])' <=> ForSource(i, l)')
    BY <2>1 DEF InCode, Defines, ForSource
  <2> QED
    BY <2>1, <2>2, <2>3, <2>5, <2>6
<1> QED
  BY <1>1, <1>3, <1>5 DEF LandInv, Assembled

\* The instructions of a section are lines of the source.
LEMMA CodeLinesAre ==
  ASSUME TypeInv, SectionsFrom(Len(src.lines)), NEW s \in DOMAIN sections, NEW k \in DOMAIN CodeLines(s)
  PROVE  \E i \in 1..Len(src.lines) : CodeLines(s)[k] = src.lines[i] /\ src.lines[i].op = "code"
<1> DEFINE T == {i \in LinesOf(s) : src.lines[i].op = "code"}
           first == sections[s].line
           last == IF s = Len(sections) THEN Len(src.lines) ELSE sections[s + 1].line - 1
<1>1. Len(sections) \in Nat /\ DOMAIN sections = 1..Len(sections)
  BY IsSeqDomain DEF TypeInv, SectionsTyped
<1>2. PICK N \in Nat : N = Len(src.lines)
  BY LinesTyped
<1>3. \A t \in DOMAIN sections : sections[t].line \in 1..N
  BY <1>2 DEF SectionsFrom
<1>4. first \in 1..N /\ last \in Int /\ last <= N
  <2>1. CASE s = Len(sections)
    BY <2>1, <1>2, <1>3
  <2>2. CASE s # Len(sections)
    BY <2>2, <1>1, <1>3
  <2> QED
    BY <2>1, <2>2
<1>5. LinesOf(s) = first..last
  BY DEF LinesOf
<1> HIDE DEF first, last
<1>6. LinesOf(s) \in SUBSET (1..N) /\ IsFiniteSet(LinesOf(s))
  BY <1>4, <1>5, FS_Interval
<1>7. T \in SUBSET Nat /\ T \in SUBSET (1..N) /\ IsFiniteSet(T) /\ \A i \in T : src.lines[i].op = "code"
  BY <1>6, FS_Subset
<1>8. CodeLines(s) = ElementsAt(src.lines, T)
  BY DEF CodeLines
<1> HIDE DEF T
<1> DEFINE S == {src.lines[i] : i \in T}
           c == CodeLines(s)
<1>9. c \in Seq(S)
  BY <1>7, <1>8, ElementsAtType
<1>10. k \in DOMAIN c
  OBVIOUS
<1> HIDE DEF S, c
<1>11. c[k] \in S
  BY <1>9, <1>10, LenProperties
<1>12. PICK i \in T : c[k] = src.lines[i]
  BY <1>11 DEF S
<1> QED
  BY <1>2, <1>7, <1>12 DEF c

LEMMA TargetNamed ==
  ASSUME TypeInv, SectionsFrom(Len(src.lines)), NEW s \in DOMAIN sections, NEW k \in DOMAIN CodeLines(s),
         CodeLines(s)[k].ref = "target"
  PROVE  CodeLines(s)[k].expr.a # NoName
<1>1. PICK i \in 1..Len(src.lines) : CodeLines(s)[k] = src.lines[i] /\ src.lines[i].op = "code"
  BY CodeLinesAre
<1>2. IsLine(src.lines[i])
  BY LinesTyped
<1>3. src.lines[i].expr.a # NoName
  <2>1. src.lines[i].ref = "target"
    BY <1>1
  <2> QED
    BY <2>1, <1>1, <1>2, Zenon DEF IsLine, NoName
<1> QED
  BY <1>1, <1>3

\* What a jump is assembled to.
LEMMA JumpLands ==
  ASSUME TypeInv, LandInv, stage = "kernels", CodeOnly, NEW s \in DOMAIN sections, IsText(sections[s].name),
         NEW line, line.expr.a # NoName, Targets(s, line)
  PROVE  Operand(s, line) = JumpTo(Before(s, LabelLine(line.expr.a)))
<1>1. PICK a : a = line.expr.a
  OBVIOUS
<1>2. PICK N \in Nat : N = Len(src.lines) /\ DOMAIN src.lines = 1..N
  BY LinesTyped
<1>3. LabelsFrom(N) /\ EndsFrom(N)
  BY <1>2 DEF LandInv
<1>4. PICK l \in DOMAIN labels : labels[l].name = a /\ labels[l].sec = s
  BY <1>1 DEF Targets
<1>5. HasLabel(a) /\ LabelAt(a) = labels[l]
  BY <1>1, <1>3, <1>4 DEF LabelsFrom, HasLabel, LabelAt
<1>6. Operand(s, line) = Jump(labels[l].at)
  BY <1>1, <1>4, <1>5 DEF Operand, Local, Targets
<1>7. InCode(l)
  BY <1>1, <1>4 DEF InCode
<1>8. PICK i \in 1..N : Defines(i, l) /\ AtSource(i, l)
  BY <1>3, <1>7 DEF LabelsFrom
<1>9. PICK j \in 1..N : Defines(j, l) /\ AtEnd(j, l)
  BY <1>3, <1>7 DEF EndsFrom
<1>10. \A m \in 1..N : src.lines[m].op = "label" /\ src.lines[m].name = a => m = i
  BY <1>3, <1>4, <1>8 DEF LabelsFrom, Defines
<1>11. j = i /\ src.lines[i].op = "label" /\ src.lines[i].name = a
  BY <1>4, <1>8, <1>9, <1>10 DEF Defines
<1>12. LabelLine(a) = i
  BY <1>2, <1>10, <1>11 DEF LabelLine
<1>13. PICK n \in Nat : n = Before(s, i)
  <2>1. sections[s].line \in Nat /\ i \in Nat
    BY DEF TypeInv, SectionsTyped, IsSection
  <2> QED
    BY <2>1, BeforeIs
<1>14. labels[l].at = Offset(n) \/ labels[l].at = CodeEnd(n)
  BY <1>4, <1>8, <1>9, <1>11, <1>13 DEF AtSource, AtEnd
<1>15. Jump(Offset(n)) = JumpTo(n) /\ Jump(CodeEnd(n)) = JumpTo(n)
  BY JumpsGo
<1>16. Jump(labels[l].at) = JumpTo(n)
  BY <1>14, <1>15
<1>17. Operand(s, line) = JumpTo(n)
  BY <1>6, <1>16
<1> QED
  BY <1>1, <1>12, <1>13, <1>17

LEMMA KernelAssembled ==
  ASSUME TypeInv, ParseKernel
  PROVE  /\ Worked /\ next \in DOMAIN sections /\ IsText(sections[next].name)
         /\ \A s \in DOMAIN sections : s # next => sections'[s].code = sections[s].code
         /\ SectionOf(InfoOf(next)) # next =>
              \A k \in DOMAIN CodeLines(next) : sections'[next].code[k].operand = Operand(next, CodeLines(next)[k])
<1> DEFINE s == next
           t == SectionOf(InfoOf(s))
           lines == CodeLines(s)
           code == [k \in DOMAIN lines |->
                     [ins |-> lines[k].ins, operand |-> Operand(s, lines[k]), code |-> CC!Encode(lines[k].ctrl),
                      desc |-> lines[k].desc, bit |-> lines[k].desc # NoDesc]]
           u == [sections[s] EXCEPT !.code = code, !.pos = 0]
           e == Emit(u, CodeSize(Len(lines)))
           attrs == Update(src.grouped, AttrsOf(t), Wanted(s, lines))
           f == SetAttrs(t, attrs)
<1>1. /\ stage = "kernels" /\ next <= Len(sections) /\ IsText(sections[s].name) /\ HasSection(InfoOf(s))
  BY DEF ParseKernel, KernelGood
<1>2. s \in DOMAIN sections
  <2>1. IsSeq(sections) /\ next \in Nat \ {0}
    BY DEF TypeInv, SectionsTyped
  <2> QED
    BY <2>1, <1>1, IsSeqDomain
<1>3. sections' = [sections EXCEPT ![s] = e, ![t] = f]
  BY DEF ParseKernel, Assemble
<1>4. t \in DOMAIN sections
  BY <1>1, SectionIs
<1> HIDE DEF t
<1>5. \A k \in DOMAIN lines : code[k].operand = Operand(s, lines[k])
  OBVIOUS
<1>6. f.code = sections[t].code
  <2> HIDE DEF attrs
  <2> QED
    BY <1>4, SetAttrsCode
<1>7. e.code = code
  <2> DEFINE w == sections[s]
  <2>1. DOMAIN w = SectionFields
    BY <1>2 DEF TypeInv, SectionsTyped, IsSection
  <2> HIDE DEF w, code
  <2>2. u = [w EXCEPT !.code = code, !.pos = 0]
    BY DEF w
  <2>3. DOMAIN u = SectionFields /\ u.code = code
    BY <2>1, <2>2 DEF SectionFields
  <2> HIDE DEF u
  <2> QED
    BY <2>3, EmitIs DEF SectionFields
<1> HIDE DEF e, f, code, lines, attrs
<1>8. \A x \in DOMAIN sections : sections'[x] = IF x = t THEN f ELSE IF x = s THEN e ELSE sections[x]
  BY <1>2, <1>3, <1>4
<1>9. \A x \in DOMAIN sections : x # s => sections'[x].code = sections[x].code
  BY <1>6, <1>8
<1>10. t # s => \A k \in DOMAIN lines : sections'[s].code[k].operand = Operand(s, lines[k])
  BY <1>2, <1>5, <1>7, <1>8
<1>11. Worked
  BY KernelWorked
<1> QED
  BY <1>1, <1>2, <1>9, <1>10, <1>11 DEF t, lines

LEMMA KernelLands ==
  ASSUME TypeInv, LandInv, ParseKernel
  PROVE  LandInv'
<1>1. stage = "kernels" /\ stage' = "kernels" /\ next' = next + 1 /\ UNCHANGED <<src, labels, sizeLabel>>
  BY DEF ParseKernel, Stay, scanned, tables
<1>2. PICK c \in DOMAIN sections : c = next
  BY KernelAssembled
<1>3. Worked /\ LabelsOfBefore /\ IsText(sections[c].name)
  BY <1>1, <1>2, KernelAssembled, SameLabels
<1>4. SectionsFrom(Len(src.lines)) /\ LabelsFrom(Len(src.lines)) /\ EndsFrom(Len(src.lines)) /\ EndsMove
  BY <1>1 DEF LandInv
<1>5. SectionsFrom(Len(src.lines))' /\ LabelsFrom(Len(src.lines))' /\ EndsFrom(Len(src.lines))' /\ EndsMove'
  BY <1>1, <1>3, <1>4, LinesKept
<1>6. SectionOf(InfoOf(c)) # c
  <2>1. HasSection(InfoOf(c))
    BY <1>2 DEF ParseKernel, KernelGood
  <2>2. sections[SectionOf(InfoOf(c))].name = InfoOf(c)
    BY <2>1, SectionIs
  <2>3. InfoOf(c)[1] = ".nv.info" /\ sections[c].name[1] = ".text"
    BY <1>3 DEF InfoOf, IsText
  <2> QED
    BY <2>2, <2>3
<1>7. JumpsLand(c)'
  <2> SUFFICES ASSUME CodeOnly', NEW k \in DOMAIN CodeLines(c)', Targets(c, CodeLines(c)[k])'
               PROVE  sections'[c].code[k].operand = JumpTo(Before(c, LabelLine(CodeLines(c)[k].expr.a)))'
    BY DEF JumpsLand
  <2>1. /\ CodeLines(c)' = CodeLines(c)
        /\ \A line : Targets(c, line)' <=> Targets(c, line)
        /\ \A name : LabelLine(name)' = LabelLine(name)
    BY <1>1, <1>3, TargetsSame
  <2>2. CodeOnly
    BY <1>1, LinesSame
  <2>3. PICK line : line = CodeLines(c)[k]
    OBVIOUS
  <2>4. k \in DOMAIN CodeLines(c) /\ Targets(c, line)
    BY <2>1, <2>3
  <2>5. line.expr.a # NoName
    BY <2>3, <2>4, <1>4, TargetNamed DEF Targets
  <2>6. Operand(c, line) = JumpTo(Before(c, LabelLine(line.expr.a)))
    BY <2>2, <2>4, <2>5, <1>1, <1>3, JumpLands
  <2>7. sections'[c].code[k].operand = Operand(c, line)
    BY <2>3, <2>4, <1>2, <1>6, KernelAssembled
  <2>8. PICK i : i = LabelLine(line.expr.a)
    OBVIOUS
  <2>9. Before(c, i)' = Before(c, i) /\ \A n : JumpTo(n)' = JumpTo(n)
    BY <1>1, <1>3, WorkedLines, BeforeSame, LinesSame
  <2>10. JumpTo(Before(c, i))' = JumpTo(Before(c, i))
    BY <2>9
  <2>11. LabelLine(CodeLines(c)[k].expr.a)' = i
    BY <2>1, <2>3, <2>8
  <2>12. JumpTo(Before(c, LabelLine(CodeLines(c)[k].expr.a)))' = JumpTo(Before(c, i))'
    BY <2>11 DEF Before
  <2> QED
    BY <2>6, <2>7, <2>8, <2>10, <2>12
<1>8. ASSUME NEW s \in DOMAIN sections, s < next' PROVE JumpsLand(s)'
  <2>1. DOMAIN sections \subseteq Nat /\ next \in Nat
    BY IsSeqDomain DEF TypeInv, SectionsTyped
  <2>2. s < next \/ s = c
    BY <1>1, <1>2, <1>8, <2>1
  <2>3. CASE s < next
    BY <1>1, <1>2, <2>1, <2>3, KernelAssembled, <1>3, JumpsKept DEF LandInv
  <2>4. CASE s = c
    BY <2>4, <1>7
  <2> QED
    BY <2>2, <2>3, <2>4
<1>9. DOMAIN sections' = DOMAIN sections
  BY <1>3 DEF Worked
<1> QED
  BY <1>1, <1>5, <1>8, <1>9 DEF LandInv, Assembled

\* A step of any kind.
LEMMA StutterLands ==
  ASSUME TypeInv, LandInv, UNCHANGED vars
  PROVE  LandInv'
<1>1. /\ src' = src /\ stage' = stage /\ next' = next /\ cur' = cur /\ sections' = sections /\ insIndex' = insIndex
      /\ labels' = labels /\ sizeLabel' = sizeLabel
  BY DEF vars, scanned, tables
<1>2. PICK N \in Nat : N = Len(src.lines)
  BY LinesTyped
<1>3. Worked /\ SameLines /\ LabelsOfBefore
  BY <1>1, UnchangedWorked, WorkedLines, SameLabels
<1>4. CASE stage = "scan"
  <2>1. PICK n : n = next - 1
    OBVIOUS
  <2>2. n \in Nat
    BY <2>1 DEF TypeInv
  <2>3. next <= Len(src.lines) + 1 /\ SectionsFrom(n) /\ LabelsFrom(n) /\ EndsFrom(n) /\ CursorIs(n) /\ RoomFor(n)
    BY <1>4, <2>1 DEF LandInv
  <2>4. SectionsFrom(n)'
    BY <1>1, <1>3, <2>2, <2>3, SectionsKept
  <2>5. LabelsFrom(n)' /\ EndsFrom(n)'
    BY <1>1, <1>3, <2>2, <2>3, LabelsKept DEF SameLabel
  <2>6. CursorIs(n)' /\ RoomFor(n)'
    BY <1>1, <2>3, CursorSame, RoomSame
  <2>7. (next - 1)' = n
    BY <1>1, <2>1
  <2>8. /\ SectionsFrom(next - 1)' <=> SectionsFrom(n)'
        /\ LabelsFrom(next - 1)' <=> LabelsFrom(n)'
        /\ EndsFrom(next - 1)' <=> EndsFrom(n)'
        /\ CursorIs(next - 1)' <=> CursorIs(n)'
        /\ RoomFor(next - 1)' <=> RoomFor(n)'
    BY <2>7 DEF SectionsFrom, LabelsFrom, EndsFrom, CursorIs, RoomFor
  <2> QED
    BY <1>1, <1>4, <2>3, <2>4, <2>5, <2>6, <2>8 DEF LandInv, Assembled
<1>5. CASE stage = "failed"
  BY <1>1, <1>5 DEF LandInv, Assembled
<1>6. CASE stage \notin {"scan", "failed"}
  <2>1. SectionsFrom(Len(src.lines)) /\ LabelsFrom(Len(src.lines))
    BY <1>6 DEF LandInv
  <2>2. SectionsFrom(Len(src.lines))' /\ LabelsFrom(Len(src.lines))'
    BY <1>1, <1>3, <2>1, LinesKept
  <2>3. EndsFrom(Len(src.lines)) => EndsFrom(Len(src.lines))'
    BY <1>1, <1>3, <2>1, LinesKept
  <2>4. EndsMove => EndsMove'
    BY <1>1, <1>3, <2>1, LinesKept
  <2>5. RoomFor(Len(src.lines)) => RoomFor(Len(src.lines))'
    BY <1>1, RoomSame, <1>2 DEF RoomFor
  <2>6. \A s \in DOMAIN sections : JumpsLand(s) => JumpsLand(s)'
    BY <1>1, <1>3, JumpsKept
  <2> QED
    BY <1>1, <1>6, <2>2, <2>3, <2>4, <2>5, <2>6 DEF LandInv
<1> QED
  BY <1>4, <1>5, <1>6

LEMMA NextLands ==
  ASSUME TypeInv, LandInv, [Next]_vars
  PROVE  LandInv'
<1>1. CASE Scan
  BY <1>1, SectionRead, AlignRead, DataRead, ZeroRead, LabelRead, CodeRead, SizeRead, SegmentRead, ScanEndLands DEF Scan
<1>2. CASE Evaluate
  BY <1>2, GatherLands, TablesLand, FixupLands DEF Evaluate
<1>3. CASE Kernels
  BY <1>3, KernelLands, SkipLands, CountsLand DEF Kernels
<1>4. CASE BuildRelocations
  BY <1>4, RelocationsLand
<1>5. CASE Layout
  BY <1>5, FirstLands, LayoutLands, TablesLand DEF Layout
<1>6. CASE UpdateSymtab \/ Save
  BY <1>6, TablesLand
<1>7. CASE Throw
  BY <1>7, FailLands
<1>8. CASE Parse
  BY <1>8, ParseLands
<1>9. CASE UNCHANGED vars
  BY <1>9, StutterLands
<1> QED
  BY <1>1, <1>2, <1>3, <1>4, <1>5, <1>6, <1>7, <1>8, <1>9 DEF Next, Work

LEMMA LandingHolds == Spec => [](TypeInv /\ LandInv)
<1>1. ASSUME Init PROVE TypeInv /\ LandInv
  BY <1>1, InitTyped, InitLands
<1>2. ASSUME TypeInv /\ LandInv, [Next]_vars PROVE (TypeInv /\ LandInv)'
  BY <1>2, NextTyped, NextLands
<1> QED
  BY <1>1, <1>2, PTL DEF Spec

\* The invariant says of an assembled file what LabelsLand does.
LEMMA DoneLands ==
  ASSUME TypeInv, LandInv, CodeOnly
  PROVE  LabelsLand
<1> DEFINE Jumps(s) ==
             \A k \in DOMAIN CodeLines(s) :
               Local(s, CodeLines(s)[k]) =>
                 sections[s].code[k].operand =
                   Offset(Before(s, LabelLine(CodeLines(s)[k].expr.a)))
                     - IF src.grouped /\ Before(s, LabelLine(CodeLines(s)[k].expr.a)) % 3 = 0 THEN 8 ELSE 0
           Marks(s) ==
             \A l \in DOMAIN labels : labels[l].sec = s /\ labels[l].name # NoName =>
               (Before(s, LabelLine(labels[l].name)) > 0 /\ BeforeSource(LabelLine(labels[l].name)) =>
                  labels[l].at = Offset(Before(s, LabelLine(labels[l].name))))
<1>1. ASSUME stage = "done", NEW s \in DOMAIN sections, IsText(sections[s].name)
      PROVE  Jumps(s) /\ Marks(s)
  <2>1. JumpsLand(s)
    BY <1>1 DEF LandInv, Assembled
  <2>2. Jumps(s)
    <3> SUFFICES ASSUME NEW k \in DOMAIN CodeLines(s), Local(s, CodeLines(s)[k])
                 PROVE  sections[s].code[k].operand = JumpTo(Before(s, LabelLine(CodeLines(s)[k].expr.a)))
      BY DEF JumpTo
    <3>1. Targets(s, CodeLines(s)[k])
      <4>1. PICK line : line = CodeLines(s)[k]
        OBVIOUS
      <4>2. line.ref = "target" /\ HasLabel(line.expr.a) /\ LabelAt(line.expr.a).sec = s
        BY <4>1 DEF Local
      <4>3. \E l \in DOMAIN labels : labels[l].name = line.expr.a /\ labels[l].sec = s
        BY <4>2 DEF HasLabel, LabelAt
      <4> QED
        BY <4>1, <4>2, <4>3 DEF Targets
    <3> QED
      BY <3>1, <2>1, <1>1 DEF JumpsLand
  <2>3. Marks(s)
    <3> SUFFICES ASSUME NEW l \in DOMAIN labels, labels[l].sec = s, labels[l].name # NoName,
                        Before(s, LabelLine(labels[l].name)) > 0, BeforeSource(LabelLine(labels[l].name))
                 PROVE  labels[l].at = Offset(Before(s, LabelLine(labels[l].name)))
      OBVIOUS
    <3>1. PICK N \in Nat : N = Len(src.lines) /\ DOMAIN src.lines = 1..N
      BY LinesTyped
    <3>2. LabelsFrom(N)
      BY <1>1, <3>1 DEF LandInv
    <3>3. InCode(l)
      BY <1>1 DEF InCode
    <3>4. PICK i \in 1..N : Defines(i, l) /\ AtSource(i, l)
      BY <3>2, <3>3 DEF LabelsFrom
    <3>5. LabelLine(labels[l].name) = i
      BY <3>1, <3>2, <3>4 DEF LabelsFrom, Defines, LabelLine
    <3> QED
      BY <3>4, <3>5 DEF AtSource, ForSource
  <2> QED
    BY <2>2, <2>3
<1> QED
  BY <1>1, Zenon DEF LabelsLand, NoName

\* Of every file whose text sections hold instructions only, aligned before the
\* first: a jump to a label of its section goes to the instruction behind the
\* label, or to the control word of the group that the instruction opens; and
\* the label of a SYNC, BRK, JMX or BRX is the offset of that instruction
\* (evalInstructionFixup, dirLabel).
THEOREM JumpsGoToLabels == Spec => [](CodeOnly => LabelsLand)
<1>1. ASSUME TypeInv /\ LandInv PROVE CodeOnly => LabelsLand
  BY <1>1, DoneLands
<1> QED
  BY <1>1, LandingHolds, PTL

-----------------------------------------------------------------------------
(* What the symbols of the kernels cover.                                  *)

\* Where code ends, and where the next instruction is.
LEMMA CodeEndIs ==
  ASSUME NEW n \in Nat
  PROVE  /\ CodeEnd(n) \in Nat /\ CodeEnd(n) <= Offset(n) /\ Offset(n - 1) + Unit = CodeEnd(n)
         /\ CodeEnd(n + 1) = Offset(n) + Unit /\ CodeEnd(n) < CodeEnd(n + 1)
<1>1. CASE ~src.grouped
  <2>1. Unit = 16 /\ \A x \in Int : Offset(x) = 16 * x
    BY <1>1 DEF Offset, Unit, Seven!Offset, Seven!Unit
  <2>2. Offset(n) = 16 * n /\ Offset(n - 1) = 16 * (n - 1)
    <3>1. n \in Int /\ n - 1 \in Int
      OBVIOUS
    <3> QED
      BY <3>1, <2>1, Zenon
  <2>3. CodeEnd(n) = 16 * n /\ CodeEnd(n + 1) = 16 * n + 16
    <3>1. n + 1 # 0 /\ (n + 1) - 1 = n
      OBVIOUS
    <3> QED
      BY <3>1, <2>1, <2>2 DEF CodeEnd
  <2> QED
    BY <2>1, <2>2, <2>3
<1>2. CASE src.grouped
  <2>1. Unit = 8 /\ \A x \in Int : Offset(x) = 8 * (x \div 3 + 1) + 8 * x
    BY <1>2 DEF Offset, Unit, Six!Offset, Six!Unit
  <2>2. Offset(n) = 8 * (n \div 3 + 1) + 8 * n /\ Offset(n - 1) = 8 * ((n - 1) \div 3 + 1) + 8 * (n - 1)
    <3>1. n \in Int /\ n - 1 \in Int
      OBVIOUS
    <3> QED
      BY <3>1, <2>1, Zenon
  <2>3. (n - 1) \div 3 <= n \div 3 /\ n \div 3 \in Nat /\ (n - 1) \div 3 \in Int /\ (n = 0 => (n - 1) \div 3 = -1)
    OBVIOUS
  <2>4. n # 0 => (n - 1) \div 3 \in Nat
    OBVIOUS
  <2>5. CodeEnd(n) = Offset(n - 1) + Unit
    <3>1. CASE n = 0
      BY <3>1, <2>1, <2>2, <2>3 DEF CodeEnd
    <3>2. CASE n # 0
      BY <3>2 DEF CodeEnd
    <3> QED
      BY <3>1, <3>2
  <2>6. CodeEnd(n + 1) = Offset(n) + Unit
    <3>1. n + 1 # 0 /\ (n + 1) - 1 = n
      OBVIOUS
    <3> QED
      BY <3>1 DEF CodeEnd
  <2>7. CodeEnd(n) \in Nat
    <3>1. CASE n = 0
      BY <3>1 DEF CodeEnd
    <3>2. CASE n # 0
      BY <3>2, <2>1, <2>2, <2>4, <2>5
    <3> QED
      BY <3>1, <3>2
  <2> QED
    BY <2>1, <2>2, <2>3, <2>5, <2>6, <2>7
<1> QED
  BY <1>1, <1>2

\* What stays with the lines.
LEMMA BehindSame ==
  ASSUME src' = src
  PROVE  /\ \A a, i : NoneBehind(a, i)' <=> NoneBehind(a, i)
         /\ \A a : IsLast(a)' <=> IsLast(a)
         /\ KernelsSized' <=> KernelsSized
<1>1. \A a, i : Within(a, i)' <=> Within(a, i)
  BY LinesSame
<1>2. \A a, i : NoneBehind(a, i)' <=> NoneBehind(a, i)
  BY <1>1 DEF NoneBehind
<1>3. \A a : IsLast(a)' <=> IsLast(a)
  BY DEF IsLast
<1>4. KernelsSized' <=> KernelsSized
  BY DEF KernelsSized, NoneBehind, IsLast, LabelIn, Within
<1> QED
  BY <1>2, <1>3, <1>4

LEMMA SizesKept ==
  ASSUME SameLines, DOMAIN sections' = DOMAIN sections, NEW n \in Nat, NEW m \in {n, n + 1}, SizesFrom(n),
         m # n => src.lines[m].op # "code",
         \A s \in DOMAIN sections : IsText(sections[s].name) /\ CodeOnly => sections'[s].size = sections[s].size
  PROVE  SizesFrom(m)'
<1> SUFFICES ASSUME NEW s \in DOMAIN sections, IsText(sections[s].name)', CodeOnly'
             PROVE  \E k \in 1..m : /\ Within(sections[s].line, k)' /\ sections'[s].size = CodeEnd(Before(s, k + 1))'
                                    /\ \A i \in (k + 1)..m : Within(sections[s].line, i)' => src'.lines[i].op # "code"
  BY DEF SizesFrom
<1>1. PICK a : a = sections[s].line
  OBVIOUS
<1>2. src' = src /\ sections'[s].line = a /\ IsText(sections[s].name) /\ CodeOnly
  BY <1>1, LinesSame DEF SameLines, IsText
<1>3. PICK k \in 1..n : /\ Within(a, k) /\ sections[s].size = CodeEnd(Before(s, k + 1))
                        /\ \A i \in (k + 1)..n : Within(a, i) => src.lines[i].op # "code"
  BY <1>1, <1>2 DEF SizesFrom
<1>4. \A i : Within(a, i)' <=> Within(a, i)
  BY <1>2, LinesSame
<1>5. \A i : Within(sections[s].line, i)' <=> Within(a, i)'
  BY <1>2 DEF Within
<1>6. CodeEnd(Before(s, k + 1))' = CodeEnd(Before(s, k + 1))
  <2>1. PICK b : b = Before(s, k + 1)
    OBVIOUS
  <2>2. Before(s, k + 1)' = b
    BY <2>1, BeforeSame
  <2>3. CodeEnd(Before(s, k + 1))' = CodeEnd(b)'
    BY <2>2 DEF CodeEnd
  <2> QED
    BY <2>1, <2>3, <1>2, LinesSame
<1>7. \A i : i \in (k + 1)..m => i \in (k + 1)..n \/ (i = m /\ m # n)
  OBVIOUS
<1>8. k \in 1..m
  OBVIOUS
<1> QED
  BY <1>2, <1>3, <1>4, <1>5, <1>6, <1>7, <1>8

LEMMA SymbolsKept ==
  ASSUME src' = src, symbols' = symbols, NEW n \in Nat, NEW m \in {n, n + 1}, SymbolsFrom(n)
  PROVE  SymbolsFrom(m)'
<1>1. \A i : i \in 1..n => i \in 1..m
  OBVIOUS
<1> QED
  BY <1>1 DEF SymbolsFrom

LEMMA PlacesKept ==
  ASSUME SameLines, NEW n \in Nat, NEW m \in {n, n + 1}, PlacesFrom(n), \A l \in DOMAIN labels : labels[l].sec \in DOMAIN sections,
         DOMAIN labels' = DOMAIN labels, \A l \in DOMAIN labels : SameLabel(l)
  PROVE  PlacesFrom(m)'
<1> SUFFICES ASSUME NEW l \in DOMAIN labels, labels'[l].name # NoName PROVE \E i \in 1..m : Defines(i, l)'
  BY DEF PlacesFrom
<1>1. PICK i \in 1..n : Defines(i, l)
  BY DEF PlacesFrom, SameLabel
<1>2. i \in 1..m
  OBVIOUS
<1> QED
  BY <1>1, <1>2, LabelSame

LEMMA OrderKept ==
  ASSUME SameLines, NEW n \in Nat, NEW m \in {n, n + 1}, OrderFrom(n), \A l \in DOMAIN labels : labels[l].sec \in DOMAIN sections,
         DOMAIN labels' = DOMAIN labels, \A l \in DOMAIN labels : SameLabel(l), m # n => src.lines[m].op # "label"
  PROVE  OrderFrom(m)'
<1> SUFFICES ASSUME NEW k \in DOMAIN labels, NEW l \in DOMAIN labels, NEW i \in 1..m, k < l, labels'[k].sec = labels'[l].sec, Defines(i, k)'
             PROVE  \E j \in (i + 1)..m : src'.lines[j].op \in {"label", "offset"} /\ Within(sections[labels[l].sec].line, j)'
  BY DEF OrderFrom
<1>1. src' = src /\ labels[k].sec = labels[l].sec /\ labels[l].sec \in DOMAIN sections
  BY DEF SameLines, SameLabel
<1>2. Defines(i, k)
  BY <1>1, LabelSame
<1>3. i \in 1..n
  BY <1>2 DEF Defines
<1>4. PICK j \in (i + 1)..n : src.lines[j].op \in {"label", "offset"} /\ Within(sections[labels[l].sec].line, j)
  BY <1>1, <1>2, <1>3 DEF OrderFrom
<1>5. j \in (i + 1)..m
  BY <1>3
<1>6. Within(sections[labels[l].sec].line, j)'
  <2>1. PICK a : a = sections[labels[l].sec].line
    OBVIOUS
  <2>2. sections'[labels'[l].sec].line = a
    BY <2>1, <1>1 DEF SameLines, SameLabel
  <2>3. Within(a, j)'
    BY <2>1, <1>1, <1>4, LinesSame
  <2> QED
    BY <2>2, <2>3 DEF Within
<1> QED
  BY <1>1, <1>4, <1>5, <1>6

LEMMA OrderSame ==
  ASSUME SameLines, DOMAIN sections' = DOMAIN sections, LinesInOrder
  PROVE  LinesInOrder'
  BY DEF SameLines, LinesInOrder

\* What a line of the scan finds and leaves.
LEMMA LineToCover ==
  ASSUME TypeInv, LandInv, CoverInv, stage = "scan", next <= Len(src.lines)
  PROVE  \E n \in Nat :
           /\ next = n + 1 /\ n + 1 \in 1..Len(src.lines) /\ Line = src.lines[n + 1]
           /\ SectionsFrom(n) /\ LabelsFrom(n) /\ CursorIs(n)
           /\ SizesFrom(n) /\ SymbolsFrom(n) /\ PlacesFrom(n) /\ OrderFrom(n) /\ LinesInOrder
<1>1. PICK n : n = next - 1
  OBVIOUS
<1>2. n \in Nat /\ next = n + 1 /\ n + 1 \in 1..Len(src.lines)
  BY <1>1, LinesTyped DEF TypeInv
<1>3. SectionsFrom(n) /\ LabelsFrom(n) /\ CursorIs(n)
  BY <1>1 DEF LandInv
<1>4. SizesFrom(n) /\ SymbolsFrom(n) /\ PlacesFrom(n) /\ OrderFrom(n) /\ LinesInOrder
  BY <1>1 DEF CoverInv
<1>5. Line = src.lines[n + 1]
  BY <1>2 DEF Line
<1> QED
  BY <1>2, <1>3, <1>4, <1>5

LEMMA LineCovered ==
  ASSUME NEW n \in Nat, stage = "scan", next = n + 1, Stay,
         SizesFrom(n + 1)', SymbolsFrom(n + 1)', PlacesFrom(n + 1)', OrderFrom(n + 1)', LinesInOrder'
  PROVE  CoverInv'
<1>1. stage' = "scan" /\ (next - 1)' = n + 1
  BY DEF Stay
<1>2. /\ SizesFrom(next - 1)' <=> SizesFrom(n + 1)'
      /\ SymbolsFrom(next - 1)' <=> SymbolsFrom(n + 1)'
      /\ PlacesFrom(next - 1)' <=> PlacesFrom(n + 1)'
      /\ OrderFrom(next - 1)' <=> OrderFrom(n + 1)'
  BY <1>1 DEF SizesFrom, SymbolsFrom, PlacesFrom, OrderFrom
<1> QED
  BY <1>1, <1>2 DEF CoverInv

LEMMA SizePut ==
  ASSUME NEW n \in Nat, SymbolsFrom(n), src' = src, src.lines[n + 1].op = "size",
         symbols' = Put(symbols, src.lines[n + 1].name, src.lines[n + 1].expr)
  PROVE  SymbolsFrom(n + 1)'
<1>1. PICK w : w = src.lines[n + 1]
  OBVIOUS
<1>2. symbols' = [x \in {w.name} \cup DOMAIN symbols |-> IF x = w.name THEN w.expr ELSE symbols[x]]
  BY <1>1 DEF Put
<1> SUFFICES ASSUME NEW x \in DOMAIN symbols'
             PROVE  \E i \in 1..(n + 1) : src.lines[i].op = "size" /\ src.lines[i].name = x /\ src.lines[i].expr = symbols'[x]
  BY DEF SymbolsFrom
<1>3. CASE x = w.name
  <2>1. n + 1 \in 1..(n + 1) /\ symbols'[x] = w.expr
    BY <1>2, <1>3
  <2> QED
    BY <2>1, <1>1, <1>3
<1>4. CASE x # w.name
  <2>1. x \in DOMAIN symbols /\ symbols'[x] = symbols[x]
    BY <1>2, <1>4
  <2>2. PICK i \in 1..n : src.lines[i].op = "size" /\ src.lines[i].name = x /\ src.lines[i].expr = symbols[x]
    BY <2>1 DEF SymbolsFrom
  <2>3. i \in 1..(n + 1)
    OBVIOUS
  <2> QED
    BY <2>1, <2>2, <2>3
<1> QED
  BY <1>3, <1>4

\* A line that makes neither a section, code nor a label.
LEMMA OtherCovers ==
  ASSUME TypeInv, LandInv, CoverInv, stage = "scan", next <= Len(src.lines), Stay, Line.op \notin {"section", "label", "code"},
         src' = src, labels' = labels, SameLines, DOMAIN sections' = DOMAIN sections,
         \A s \in DOMAIN sections : IsText(sections[s].name) /\ CodeOnly => sections'[s].size = sections[s].size,
         symbols' = symbols \/ (Line.op = "size" /\ symbols' = Put(symbols, Line.name, Line.expr))
  PROVE  CoverInv'
<1>1. PICK n \in Nat :
        /\ next = n + 1 /\ n + 1 \in 1..Len(src.lines) /\ Line = src.lines[n + 1]
        /\ SectionsFrom(n) /\ LabelsFrom(n) /\ CursorIs(n)
        /\ SizesFrom(n) /\ SymbolsFrom(n) /\ PlacesFrom(n) /\ OrderFrom(n) /\ LinesInOrder
  BY LineToCover
<1>2. SizesFrom(n + 1)'
  BY <1>1, SizesKept
<1>3. SymbolsFrom(n + 1)'
  BY <1>1, SymbolsKept, SizePut
<1>4. \A l \in DOMAIN labels : labels[l].sec \in DOMAIN sections /\ SameLabel(l)
  BY <1>1 DEF LabelsFrom, SameLabel
<1>5. PlacesFrom(n + 1)' /\ OrderFrom(n + 1)'
  BY <1>1, <1>4, PlacesKept, OrderKept
<1> QED
  BY <1>1, <1>2, <1>3, <1>5, OrderSame, LineCovered

\* A directive that writes into the section at hand: there is none in code but
\* the alignment at its start.
LEMMA DirectiveCovers ==
  ASSUME TypeInv, LandInv, CoverInv, Align \/ Zero \/ Data
  PROVE  CoverInv'
<1>1. stage = "scan" /\ next <= Len(src.lines) /\ Line.op \in {"align", "zero", "data"} /\ cur # 0
  BY DEF Align, Zero, Data, Scanning, Accepted
<1>2. Stay /\ src' = src /\ labels' = labels /\ symbols' = symbols
  BY DEF Align, Zero, Data, scanned
<1>3. cur \in DOMAIN sections /\ DOMAIN sections[cur] = SectionFields
  BY <1>1 DEF TypeInv, SectionsTyped, IsSection
<1>4. PICK c \in DOMAIN sections : c = cur
  BY <1>3
<1>5. /\ DOMAIN sections' = DOMAIN sections
      /\ \A s \in DOMAIN sections : s # c => sections'[s] = sections[s]
  BY <1>4 DEF Align, Zero, Data
<1>6. sections'[c].line = sections[c].line /\ sections'[c].name = sections[c].name
  <2> DEFINE t == sections[c]
  <2>1. DOMAIN t = SectionFields
    BY <1>3, <1>4
  <2>2. ASSUME NEW u, NEW k, DOMAIN u = SectionFields, u.line = t.line, u.name = t.name, sections'[c] = Emit(u, k)
        PROVE  sections'[c].line = t.line /\ sections'[c].name = t.name
    <3>1. Emit(u, k).line = u.line /\ Emit(u, k).name = u.name
      BY <2>2, EmitIs DEF SectionFields
    <3> QED
      BY <2>2, <3>1
  <2>3. CASE Align
    <3>1. sections'[c] = IF t.pos # 0 THEN Emit(t, Aligned(t.pos, Line.n) - t.pos)
                         ELSE IF t.align = 0 THEN [t EXCEPT !.align = Line.n] ELSE t
      BY <2>3, <1>4 DEF Align
    <3>2. CASE t.pos # 0
      <4>1. PICK k : k = Aligned(t.pos, Line.n) - t.pos
        OBVIOUS
      <4>2. sections'[c] = Emit(t, k)
        BY <3>1, <3>2, <4>1
      <4> QED
        BY <4>2, <2>1, <2>2
    <3>3. CASE t.pos = 0
      <4>1. sections'[c] = IF t.align = 0 THEN [t EXCEPT !.align = Line.n] ELSE t
        BY <3>1, <3>3
      <4> HIDE DEF t
      <4>2. [t EXCEPT !.align = Line.n].line = t.line /\ [t EXCEPT !.align = Line.n].name = t.name
        BY <2>1 DEF SectionFields
      <4>3. sections'[c].line = t.line /\ sections'[c].name = t.name
        BY <4>1, <4>2
      <4> QED
        BY <4>3 DEF t
    <3> QED
      BY <3>2, <3>3
  <2>4. CASE Zero
    <3>1. sections'[c] = Emit(t, Line.n)
      BY <2>4, <1>4 DEF Zero
    <3> HIDE DEF t
    <3> QED
      BY <3>1, <2>1, <2>2 DEF t
  <2>5. CASE Data
    <3> DEFINE u == [t EXCEPT !.items = Put(t.items, Pos, [head |-> Line.head, num |-> Line.n])]
    <3>1. sections'[c] = Emit(u, Line.len)
      BY <2>5, <1>4 DEF Data
    <3> HIDE DEF t
    <3>2. DOMAIN u = SectionFields /\ u.line = t.line /\ u.name = t.name
      BY <2>1 DEF SectionFields
    <3> HIDE DEF u
    <3> QED
      BY <3>1, <3>2, <2>2 DEF t
  <2> QED
    BY <2>3, <2>4, <2>5
<1>7. SameLines
  BY <1>2, <1>5, <1>6 DEF SameLines
<1>8. ASSUME IsText(sections[c].name), CodeOnly PROVE sections'[c].size = sections[c].size
  <2>1. Line.op \notin {"data", "zero"} /\ (Line.op = "align" => sections[c].pos = 0)
    BY <1>1, <1>4, <1>8, TextLine
  <2>2. Align
    BY <2>1 DEF Align, Zero, Data, Scanning
  <2> DEFINE t == sections[c]
  <2>3. DOMAIN t = SectionFields /\ t.pos = 0
    BY <2>1, <1>1, <1>3, <1>4
  <2>4. sections'[c] = IF t.align = 0 THEN [t EXCEPT !.align = Line.n] ELSE t
    BY <2>2, <2>3, <1>4 DEF Align
  <2> HIDE DEF t
  <2>5. sections'[c].size = t.size
    BY <2>3, <2>4 DEF SectionFields
  <2> QED
    BY <2>5 DEF t
<1>9. \A s \in DOMAIN sections : IsText(sections[s].name) /\ CodeOnly => sections'[s].size = sections[s].size
  BY <1>5, <1>8
<1> QED
  BY <1>1, <1>2, <1>5, <1>7, <1>9, OtherCovers

LEMMA SizeCovers ==
  ASSUME TypeInv, LandInv, CoverInv, Size \/ Segment
  PROVE  CoverInv'
<1>1. /\ stage = "scan" /\ next <= Len(src.lines) /\ Line.op \in {"size", "segment"} /\ Stay
      /\ src' = src /\ labels' = labels /\ sections' = sections
      /\ symbols' = symbols \/ (Line.op = "size" /\ symbols' = Put(symbols, Line.name, Line.expr))
  BY DEF Size, Segment, Scanning
<1>2. SameLines
  BY <1>1 DEF SameLines
<1> QED
  BY <1>1, <1>2, OtherCovers

\* A line is in one section.
LEMMA OneSection ==
  ASSUME TypeInv, NEW n, SectionsFrom(n), NEW s \in DOMAIN sections, NEW t \in DOMAIN sections, NEW i \in Nat,
         Within(sections[s].line, i), Within(sections[t].line, i)
  PROVE  s = t
<1>1. sections[s].line = sections[t].line
  BY OneOpener
<1>2. sections[s].name = sections[t].name
  BY <1>1 DEF SectionsFrom
<1> QED
  BY <1>2 DEF TypeInv, SectionsTyped

LEMMA WithinUpTo ==
  ASSUME NEW n \in Nat, NEW a, Within(a, n), NEW i \in a..n
  PROVE  Within(a, i) /\ a \in 1..n
<1>1. a \in 1..n
  BY DEF Within
<1>2. a \in 1..i /\ \A j \in (a + 1)..i : j \in (a + 1)..n
  BY <1>1
<1> QED
  BY <1>1, <1>2 DEF Within

\* The room of the section at hand is that of the instructions so far.
LEMMA RoomAtCursor ==
  ASSUME TypeInv, NEW n \in Nat, SectionsFrom(n), SizesFrom(n), CursorIs(n), cur # 0,
         IsText(sections[cur].name), CodeOnly
  PROVE  /\ insIndex = Before(cur, n + 1) /\ sections[cur].line \in 1..n
         /\ sections[cur].size = CodeEnd(insIndex)
<1>1. cur \in DOMAIN sections /\ Within(sections[cur].line, n) /\ insIndex = Before(cur, n + 1)
  BY DEF TypeInv, CursorIs
<1> DEFINE a == sections[cur].line
<1>2. PICK m \in 1..n : /\ Within(a, m) /\ sections[cur].size = CodeEnd(Before(cur, m + 1))
                        /\ \A i \in (m + 1)..n : Within(a, i) => src.lines[i].op # "code"
  BY <1>1 DEF SizesFrom
<1>3. a \in 1..n /\ a <= m
  BY <1>1, <1>2 DEF Within
<1>4. \A k \in (m + 1)..((n + 1) - 1) : src.lines[k].op # "code"
  <2> SUFFICES ASSUME NEW k \in (m + 1)..((n + 1) - 1) PROVE src.lines[k].op # "code"
    OBVIOUS
  <2>1. k \in a..n /\ k \in (m + 1)..n
    BY <1>3
  <2>2. Within(a, k)
    <3> HIDE DEF a
    <3> QED
      BY <2>1, <1>1, WithinUpTo DEF a
  <2> QED
    BY <1>2, <2>1, <2>2
<1>5. sections[cur].line \in Nat /\ m + 1 \in Nat /\ n + 1 \in Nat /\ sections[cur].line <= m + 1 /\ m + 1 <= n + 1
  BY <1>3
<1>6. Before(cur, n + 1) = Before(cur, m + 1)
  BY <1>4, <1>5, NoneBetween
<1> QED
  BY <1>1, <1>2, <1>3, <1>6

LEMMA CodeCovers ==
  ASSUME TypeInv, LandInv, CoverInv, Code
  PROVE  CoverInv'
<1> DEFINE t == sections[cur]
           u == [t EXCEPT !.pos = Offset(insIndex)]
           e == Emit(u, Unit)
<1>1. stage = "scan" /\ next <= Len(src.lines) /\ Line.op = "code" /\ cur # 0 /\ IsText(t.name)
  BY DEF Code, Scanning, Accepted
<1>2. cur \in DOMAIN sections /\ DOMAIN t = SectionFields
  BY <1>1, CurIs DEF IsSection
<1>3. /\ sections' = [sections EXCEPT ![cur] = e]
      /\ src' = src /\ labels' = labels /\ symbols' = symbols /\ Stay
  BY DEF Code
<1>4. PICK n \in Nat :
        /\ next = n + 1 /\ n + 1 \in 1..Len(src.lines) /\ Line = src.lines[n + 1]
        /\ SectionsFrom(n) /\ LabelsFrom(n) /\ CursorIs(n)
        /\ SizesFrom(n) /\ SymbolsFrom(n) /\ PlacesFrom(n) /\ OrderFrom(n) /\ LinesInOrder
  BY <1>1, LineToCover
<1>5. /\ e.line = t.line /\ e.name = t.name
      /\ e.size = IF Offset(insIndex) + Unit > t.size THEN Offset(insIndex) + Unit ELSE t.size
  <2> HIDE DEF t
  <2>1. u.pos = Offset(insIndex) /\ u.size = t.size /\ u.line = t.line /\ u.name = t.name /\ DOMAIN u = SectionFields
    BY <1>2 DEF SectionFields
  <2> HIDE DEF u
  <2>2. e.size = IF u.pos + Unit > u.size THEN u.pos + Unit ELSE u.size
    BY <2>1, EmitIs
  <2>3. e.line = u.line /\ e.name = u.name
    BY <2>1, EmitIs DEF SectionFields
  <2> QED
    BY <2>1, <2>2, <2>3
<1> HIDE DEF e
<1>6. DOMAIN sections' = DOMAIN sections /\ sections'[cur] = e /\ \A s \in DOMAIN sections : s # cur => sections'[s] = sections[s]
  BY <1>2, <1>3
<1>7. SameLines
  BY <1>5, <1>6, <1>3 DEF SameLines
<1>8. /\ Within(sections[cur].line, n + 1)
      /\ \A s \in DOMAIN sections : s # cur => ~Within(sections[s].line, n + 1)
  <2>1. Within(sections[cur].line, n + 1)
    BY <1>1, <1>4, WithinNext DEF CursorIs
  <2> QED
    BY <2>1, <1>2, <1>4, OneSection
<1>9. ASSUME CodeOnly PROVE e.size = CodeEnd(Before(cur, (n + 1) + 1))
  <2>1. PICK x : x = insIndex
    OBVIOUS
  <2>2. x \in Nat /\ x = Before(cur, n + 1) /\ t.line \in 1..n /\ t.size = CodeEnd(x)
    BY <2>1, <1>1, <1>4, <1>9, RoomAtCursor DEF TypeInv
  <2>3. t.line \in Nat /\ n + 1 \in Nat /\ t.line <= n + 1
    BY <2>2
  <2>4. Before(cur, (n + 1) + 1) = x + 1
    BY <2>2, <2>3, <1>1, <1>4, BeforeIs
  <2>5. CodeEnd(x) \in Nat /\ CodeEnd(x) < CodeEnd(x + 1) /\ CodeEnd(x + 1) = Offset(x) + Unit
    BY <2>2, CodeEndIs
  <2>6. Offset(x) + Unit \in Nat
    BY <2>2, OffsetType, UnitType
  <2>7. e.size = CodeEnd(x + 1)
    BY <2>1, <2>2, <2>5, <2>6, <1>5
  <2> QED
    BY <2>4, <2>7
<1>10. SizesFrom(n + 1)'
  <2> SUFFICES ASSUME NEW s \in DOMAIN sections', IsText(sections[s].name)', CodeOnly'
               PROVE  \E m \in 1..(n + 1) :
                        /\ Within(sections[s].line, m)' /\ sections'[s].size = CodeEnd(Before(s, m + 1))'
                        /\ \A i \in (m + 1)..(n + 1) : Within(sections[s].line, i)' => src'.lines[i].op # "code"
    BY DEF SizesFrom
  <2>1. s \in DOMAIN sections /\ IsText(sections[s].name) /\ CodeOnly
    BY <1>3, <1>6, <1>7, LinesSame DEF SameLines, IsText
  <2>2. \A i : Within(sections[s].line, i)' <=> Within(sections[s].line, i)
    <3>1. PICK a : a = sections[s].line
      OBVIOUS
    <3>2. sections'[s].line = a
      BY <3>1, <2>1, <1>7 DEF SameLines
    <3>3. \A i : Within(a, i)' <=> Within(a, i)
      BY <1>3, LinesSame
    <3> QED
      BY <3>1, <3>2, <3>3 DEF Within
  <2>3. ASSUME NEW m PROVE CodeEnd(Before(s, m + 1))' = CodeEnd(Before(s, m + 1))
    <3>1. PICK b : b = Before(s, m + 1)
      OBVIOUS
    <3>2. Before(s, m + 1)' = b
      BY <3>1, <2>1, <1>7, BeforeSame
    <3>3. CodeEnd(Before(s, m + 1))' = CodeEnd(b)'
      BY <3>2 DEF CodeEnd
    <3> QED
      BY <3>1, <3>3, <1>3, LinesSame
  <2>4. CASE s = cur
    <3>1. n + 1 \in 1..(n + 1) /\ ((n + 1) + 1)..(n + 1) = {}
      OBVIOUS
    <3>2. Within(sections[s].line, n + 1)'
      BY <2>2, <2>4, <1>8
    <3>3. sections'[s].size = CodeEnd(Before(s, (n + 1) + 1))'
      BY <2>1, <2>3, <2>4, <1>6, <1>9
    <3> QED
      BY <3>1, <3>2, <3>3
  <2>5. CASE s # cur
    <3>1. PICK m \in 1..n : /\ Within(sections[s].line, m) /\ sections[s].size = CodeEnd(Before(s, m + 1))
                            /\ \A i \in (m + 1)..n : Within(sections[s].line, i) => src.lines[i].op # "code"
      BY <2>1, <1>4 DEF SizesFrom
    <3>2. m \in 1..(n + 1) /\ \A i \in (m + 1)..(n + 1) : i \in (m + 1)..n \/ i = n + 1
      OBVIOUS
    <3>3. ~Within(sections[s].line, n + 1)
      BY <2>1, <2>5, <1>8
    <3>4. sections'[s].size = CodeEnd(Before(s, m + 1))'
      BY <2>1, <2>3, <2>5, <1>6, <3>1
    <3> QED
      BY <3>1, <3>2, <3>3, <3>4, <2>2, <1>3
  <2> QED
    BY <2>4, <2>5
<1>11. \A l \in DOMAIN labels : labels[l].sec \in DOMAIN sections /\ SameLabel(l)
  BY <1>3, <1>4 DEF LabelsFrom, SameLabel
<1>12. SymbolsFrom(n + 1)' /\ PlacesFrom(n + 1)' /\ OrderFrom(n + 1)' /\ LinesInOrder'
  BY <1>1, <1>3, <1>4, <1>6, <1>7, <1>11, SymbolsKept, PlacesKept, OrderKept, OrderSame
<1> QED
  BY <1>1, <1>3, <1>4, <1>10, <1>12, LineCovered

\* A label: behind the others of its section, at the line it is defined in.
LEMMA LabelLast ==
  ASSUME TypeInv, NEW q, NEW x, OneMore(q, x), labels' = Append(labels, [name |-> x, sec |-> cur, at |-> LabelPos])
  PROVE  \A l \in DOMAIN labels : l < q
<1> DEFINE e == [name |-> x, sec |-> cur, at |-> LabelPos]
           r == Append(labels, e)
           p == Len(labels) + 1
<1>1. IsSeq(labels) /\ labels' = r
  BY DEF TypeInv, LabelsTyped
<1> HIDE DEF e
<1>2. DOMAIN r = DOMAIN labels \cup {p} /\ p \notin DOMAIN labels
  BY <1>1, AppendIs
<1>3. p = q
  <2> HIDE DEF r, p
  <2> QED
    BY <1>1, <1>2 DEF OneMore
<1>4. Len(labels) \in Nat /\ DOMAIN labels = 1..Len(labels)
  BY <1>1, IsSeqDomain
<1> QED
  BY <1>3, <1>4

LEMMA LabelPutCovers ==
  ASSUME TypeInv, LandInv, CoverInv, stage = "scan", next <= Len(src.lines), Stay, cur # 0, NEW x,
         (Line.op = "label" /\ x = Line.name /\ ~HasLabel(x)) \/ (Line.op = "offset" /\ x = NoName),
         NEW q, OneMore(q, x), \A l \in DOMAIN labels : l < q, q \in Int,
         src' = src, sections' = sections, symbols' = symbols
  PROVE  CoverInv'
<1>1. PICK n \in Nat :
        /\ next = n + 1 /\ n + 1 \in 1..Len(src.lines) /\ Line = src.lines[n + 1]
        /\ SectionsFrom(n) /\ LabelsFrom(n) /\ CursorIs(n)
        /\ SizesFrom(n) /\ SymbolsFrom(n) /\ PlacesFrom(n) /\ OrderFrom(n) /\ LinesInOrder
  BY LineToCover
<1>2. /\ DOMAIN labels' = DOMAIN labels \cup {q} /\ q \notin DOMAIN labels
      /\ \A l \in DOMAIN labels : labels'[l] = labels[l]
      /\ labels'[q].name = x /\ labels'[q].sec = cur
  BY DEF OneMore
<1>3. SameLines /\ cur \in DOMAIN sections
  BY DEF SameLines, TypeInv
<1>4. SizesFrom(n + 1)' /\ SymbolsFrom(n + 1)' /\ LinesInOrder'
  BY <1>1, <1>3, SizesKept, SymbolsKept, OrderSame
<1>5. \A l \in DOMAIN labels : SameLabel(l) /\ labels[l].sec \in DOMAIN sections
  BY <1>1, <1>2 DEF SameLabel, LabelsFrom
<1>6. \A y : y \in 1..(n + 1) <=> y \in 1..n \/ y = n + 1
  <2>1. n \in Nat
    BY <1>1
  <2> QED
    BY <2>1
<1>7. Within(sections[cur].line, n + 1) /\ src.lines[n + 1].op \in {"label", "offset"}
  BY <1>1, WithinNext DEF CursorIs
<1>8. \A l \in DOMAIN labels : \A i : Defines(i, l)' <=> Defines(i, l)
  BY <1>3, <1>5, LabelSame
<1>9. PlacesFrom(n + 1)'
  <2> SUFFICES ASSUME NEW l \in DOMAIN labels', labels'[l].name # NoName PROVE \E i \in 1..(n + 1) : Defines(i, l)'
    BY DEF PlacesFrom
  <2>1. CASE l = q
    <3>1. src'.lines[n + 1].op = "label" /\ src'.lines[n + 1].name = labels'[q].name
      BY <2>1, <1>1, <1>2
    <3>2. Within(sections[labels[q].sec].line, n + 1)'
      BY <1>2, <1>7 DEF Within
    <3>3. Defines(n + 1, q)'
      BY <3>1, <3>2 DEF Defines
    <3> QED
      BY <2>1, <3>3, <1>6
  <2>2. CASE l \in DOMAIN labels
    <3>1. PICK i \in 1..n : Defines(i, l)
      BY <2>2, <1>1, <1>2 DEF PlacesFrom
    <3> QED
      BY <2>2, <3>1, <1>6, <1>8
  <2> QED
    BY <2>1, <2>2, <1>2
<1>10. ASSUME NEW k \in DOMAIN labels PROVE ~Defines(n + 1, k)
  <2>1. ASSUME Defines(n + 1, k) PROVE FALSE
    BY <2>1, <1>1, <1>10 DEF Defines, HasLabel
  <2> QED
    BY <2>1
<1>11. OrderFrom(n + 1)'
  <2> SUFFICES ASSUME NEW k \in DOMAIN labels', NEW l \in DOMAIN labels', NEW i \in 1..(n + 1), k < l,
                      labels'[k].sec = labels'[l].sec, Defines(i, k)'
               PROVE  \E j \in (i + 1)..(n + 1) : src'.lines[j].op \in {"label", "offset"} /\ Within(sections[labels[l].sec].line, j)'
    BY DEF OrderFrom
  <2>1. ASSUME k = q PROVE FALSE
    BY <1>2, IsSeqDomain, <2>1 DEF TypeInv, LabelsTyped
  <2>2. k \in DOMAIN labels
    BY <2>1, <1>2
  <2>3. i \in 1..n /\ Defines(i, k)
    BY <2>2, <1>6, <1>8, <1>10
  <2>4. CASE l = q
    BY <2>3, <2>4, <1>2, <1>7 DEF Within
  <2>5. CASE l \in DOMAIN labels
    <3>1. PICK a : a = sections[labels[l].sec].line
      OBVIOUS
    <3>2. labels[k].sec = labels[l].sec
      BY <2>2, <2>5, <1>2
    <3>3. PICK j \in (i + 1)..n : src.lines[j].op \in {"label", "offset"} /\ Within(a, j)
      BY <2>2, <2>3, <2>5, <3>1, <3>2, <1>1 DEF OrderFrom
    <3>4. sections'[labels'[l].sec].line = a
      BY <2>5, <3>1, <1>2
    <3>5. Within(sections[labels[l].sec].line, j)'
      BY <3>3, <3>4 DEF Within
    <3>6. j \in (i + 1)..(n + 1)
      OBVIOUS
    <3> QED
      BY <3>3, <3>5, <3>6
  <2> QED
    BY <2>4, <2>5, <1>2
<1> QED
  BY <1>1, <1>4, <1>9, <1>11, LineCovered

LEMMA LabelCovers ==
  ASSUME TypeInv, LandInv, CoverInv, Label \/ OffsetLabel
  PROVE  CoverInv'
<1>1. \E x : /\ stage = "scan" /\ next <= Len(src.lines) /\ cur # 0 /\ Stay
             /\ (Line.op = "label" /\ x = Line.name /\ ~HasLabel(x)) \/ (Line.op = "offset" /\ x = NoName)
             /\ labels' = Append(labels, [name |-> x, sec |-> cur, at |-> LabelPos])
             /\ src' = src /\ sections' = sections /\ symbols' = symbols
  <2>1. CASE Label
    BY <2>1 DEF Label, Scanning, Accepted
  <2>2. CASE OffsetLabel
    <3>1. PICK x : x = NoName
      OBVIOUS
    <3>2. /\ stage = "scan" /\ next <= Len(src.lines) /\ Line.op = "offset" /\ cur # 0 /\ Stay
          /\ labels' = Append(labels, [name |-> x, sec |-> cur, at |-> LabelPos])
          /\ src' = src /\ sections' = sections /\ symbols' = symbols
      BY <2>2, <3>1 DEF OffsetLabel, Scanning, Accepted, NoName
    <3> QED
      BY <3>1, <3>2
  <2> QED
    BY <2>1, <2>2
<1>2. PICK x : /\ stage = "scan" /\ next <= Len(src.lines) /\ cur # 0 /\ Stay
               /\ (Line.op = "label" /\ x = Line.name /\ ~HasLabel(x)) \/ (Line.op = "offset" /\ x = NoName)
               /\ labels' = Append(labels, [name |-> x, sec |-> cur, at |-> LabelPos])
               /\ src' = src /\ sections' = sections /\ symbols' = symbols
  BY <1>1
<1>3. PICK q : OneMore(q, x)
  BY <1>2, OneLabelMore
<1>4. \A l \in DOMAIN labels : l < q
  BY <1>2, <1>3, LabelLast
<1>5. q \in Int
  <2>1. Len(labels') \in Nat /\ DOMAIN labels' = 1..Len(labels')
    <3>1. IsSeq(labels')
      <4>1. IsSeq(labels)
        BY DEF TypeInv, LabelsTyped
      <4> QED
        BY <4>1, <1>2, AppendIs
    <3> QED
      BY <3>1, IsSeqDomain
  <2> QED
    BY <2>1, <1>3 DEF OneMore
<1> QED
  BY <1>2, <1>3, <1>4, <1>5, LabelPutCovers

\* A new section is empty and behind the others.
LEMMA SectionLast ==
  ASSUME TypeInv, Section, NEW q, OneOpened(q)
  PROVE  sections'[q].size = 0 /\ q \in Int /\ (\A s \in DOMAIN sections : s < q)
<1> DEFINE e == [name |-> Line.name, type |-> Line.type, regs |-> Line.regs, line |-> next, align |-> 0,
                 items |-> <<>>, attrs |-> <<>>, code |-> <<>>, entries |-> <<>>,
                 size |-> 0, pos |-> 0, at |-> 0, mem |-> 0, pad |-> 0]
           r == Append(sections, e)
           p == Len(sections) + 1
<1>1. IsSeq(sections) /\ sections' = r
  BY DEF TypeInv, SectionsTyped, Section
<1>2. e.size = 0
  OBVIOUS
<1> HIDE DEF e
<1>3. DOMAIN r = DOMAIN sections \cup {p} /\ p \notin DOMAIN sections /\ r[p] = e
  BY <1>1, AppendIs
<1>4. p = q
  <2> HIDE DEF r, p
  <2> QED
    BY <1>1, <1>3 DEF OneOpened
<1>5. Len(sections) \in Nat /\ DOMAIN sections = 1..Len(sections)
  BY <1>1, IsSeqDomain
<1>6. sections'[q].size = 0
  BY <1>1, <1>2, <1>3, <1>4
<1> QED
  BY <1>4, <1>5, <1>6

LEMMA SectionCovers ==
  ASSUME TypeInv, LandInv, CoverInv, Section
  PROVE  CoverInv'
<1>1. stage = "scan" /\ next <= Len(src.lines) /\ Line.op = "section"
  BY DEF Section, Scanning
<1>2. PICK n \in Nat :
        /\ next = n + 1 /\ n + 1 \in 1..Len(src.lines) /\ Line = src.lines[n + 1]
        /\ SectionsFrom(n) /\ LabelsFrom(n) /\ CursorIs(n)
        /\ SizesFrom(n) /\ SymbolsFrom(n) /\ PlacesFrom(n) /\ OrderFrom(n) /\ LinesInOrder
  BY <1>1, LineToCover
<1>3. PICK q : OneOpened(q)
  BY SectionOpened
<1>4. /\ DOMAIN sections' = DOMAIN sections \cup {q} /\ q \notin DOMAIN sections
      /\ \A s \in DOMAIN sections : sections'[s] = sections[s]
      /\ sections'[q].line = n + 1 /\ src.lines[n + 1].op = "section"
  BY <1>1, <1>2, <1>3 DEF OneOpened
<1>5. sections'[q].size = 0 /\ q \in Int /\ (\A s \in DOMAIN sections : s < q)
  BY <1>3, SectionLast
<1>6. src' = src /\ labels' = labels /\ symbols' = symbols /\ Stay
  BY DEF Section
<1>7. SameLines
  BY <1>4, <1>6 DEF SameLines
<1>8. LinesInOrder'
  <2> SUFFICES ASSUME NEW s \in DOMAIN sections', NEW t \in DOMAIN sections', s < t
               PROVE  sections'[s].line < sections'[t].line
    BY DEF LinesInOrder
  <2>1. q \in Int /\ DOMAIN sections \subseteq Int
    BY <1>5, IsSeqDomain DEF TypeInv, SectionsTyped
  <2>2. CASE t = q
    BY <2>1, <2>2, <1>4, <1>2 DEF SectionsFrom
  <2>3. CASE t \in DOMAIN sections
    <3>1. s # q
      BY <2>1, <2>3, <1>5
    <3> QED
      BY <3>1, <2>3, <1>2, <1>4 DEF LinesInOrder
  <2> QED
    BY <2>2, <2>3, <1>4
<1>9. SizesFrom(n + 1)'
  <2> SUFFICES ASSUME NEW s \in DOMAIN sections', IsText(sections[s].name)', CodeOnly'
               PROVE  \E m \in 1..(n + 1) :
                        /\ Within(sections[s].line, m)' /\ sections'[s].size = CodeEnd(Before(s, m + 1))'
                        /\ \A i \in (m + 1)..(n + 1) : Within(sections[s].line, i)' => src'.lines[i].op # "code"
    BY DEF SizesFrom
  <2>1. CASE s = q
    <3>1. n + 1 \in 1..(n + 1) /\ ((n + 1) + 1)..(n + 1) = {}
      OBVIOUS
    <3>2. Within(sections[s].line, n + 1)'
      <4>1. Within(n + 1, n + 1)'
        BY <3>1, <1>4, <1>6 DEF Within
      <4> QED
        BY <4>1, <2>1, <1>4 DEF Within
    <3>3. Before(s, (n + 1) + 1)' = 0
      <4> DEFINE C == {j \in (n + 1)..(((n + 1) + 1) - 1) : src.lines[j].op = "code"}
      <4>1. \A j : j \in (n + 1)..(((n + 1) + 1) - 1) => j = n + 1
        OBVIOUS
      <4>2. C = {}
        BY <4>1, <1>4
      <4>3. Before(s, (n + 1) + 1)' = Cardinality(C)
        BY <2>1, <1>4, <1>6 DEF Before
      <4> QED
        BY <4>2, <4>3, FS_EmptySet
    <3>4. CodeEnd(Before(s, (n + 1) + 1))' = 0
      BY <3>3 DEF CodeEnd
    <3> QED
      BY <3>1, <3>2, <3>4, <2>1, <1>5
  <2>2. CASE s \in DOMAIN sections
    <3>1. IsText(sections[s].name) /\ CodeOnly
      BY <2>2, <1>4, <1>6, LinesSame DEF IsText
    <3>2. PICK m \in 1..n : /\ Within(sections[s].line, m) /\ sections[s].size = CodeEnd(Before(s, m + 1))
                            /\ \A i \in (m + 1)..n : Within(sections[s].line, i) => src.lines[i].op # "code"
      BY <2>2, <3>1, <1>2 DEF SizesFrom
    <3>3. m \in 1..(n + 1) /\ \A i \in (m + 1)..(n + 1) : i \in (m + 1)..n \/ i = n + 1
      OBVIOUS
    <3>4. \A i : Within(sections[s].line, i)' <=> Within(sections[s].line, i)
      <4>1. PICK a : a = sections[s].line
        OBVIOUS
      <4>2. sections'[s].line = a
        BY <4>1, <2>2, <1>4
      <4>3. \A i : Within(a, i)' <=> Within(a, i)
        BY <1>6, LinesSame
      <4> QED
        BY <4>1, <4>2, <4>3 DEF Within
    <3>5. CodeEnd(Before(s, m + 1))' = CodeEnd(Before(s, m + 1))
      <4>1. PICK b : b = Before(s, m + 1)
        OBVIOUS
      <4>2. Before(s, m + 1)' = b
        BY <4>1, <2>2, <1>7, BeforeSame
      <4>3. CodeEnd(Before(s, m + 1))' = CodeEnd(b)'
        BY <4>2 DEF CodeEnd
      <4> QED
        BY <4>1, <4>3, <1>6, LinesSame
    <3>6. sections'[s].size = sections[s].size
      BY <2>2, <1>4
    <3> QED
      BY <3>2, <3>3, <3>4, <3>5, <3>6, <1>4, <1>6
  <2> QED
    BY <2>1, <2>2, <1>4
<1>10. \A l \in DOMAIN labels : labels[l].sec \in DOMAIN sections /\ SameLabel(l)
  BY <1>2, <1>6 DEF LabelsFrom, SameLabel
<1>11. SymbolsFrom(n + 1)' /\ PlacesFrom(n + 1)' /\ OrderFrom(n + 1)'
  BY <1>2, <1>4, <1>6, <1>7, <1>10, SymbolsKept, PlacesKept, OrderKept
<1> QED
  BY <1>1, <1>2, <1>6, <1>8, <1>9, <1>11, LineCovered

LEMMA ScanEndCovers ==
  ASSUME TypeInv, LandInv, CoverInv, ScanEnd
  PROVE  CoverInv'
<1>1. /\ stage = "scan" /\ GoOn
      /\ src' = src /\ sections' = sections /\ labels' = labels /\ symbols' = symbols
  BY DEF ScanEnd, scanned
<1>2. stage' = "gather"
  BY <1>1, GoesOn
<1>3. PICK n : n = next - 1
  OBVIOUS
<1>4. n = Len(src.lines)
  BY <1>1, <1>3, LinesTyped DEF LandInv, TypeInv, ScanEnd
<1>5. n \in Nat /\ SizesFrom(n) /\ SymbolsFrom(n) /\ PlacesFrom(n) /\ OrderFrom(n) /\ LabelsFrom(n) /\ LinesInOrder
  BY <1>1, <1>3, <1>4, LinesTyped DEF CoverInv, LandInv
<1>6. SameLines /\ \A l \in DOMAIN labels : labels[l].sec \in DOMAIN sections /\ SameLabel(l)
  BY <1>1, <1>5 DEF SameLines, LabelsFrom, SameLabel
<1>7. SizesFrom(n)' /\ SymbolsFrom(n)' /\ PlacesFrom(n)' /\ OrderFrom(n)' /\ LinesInOrder'
  BY <1>1, <1>5, <1>6, SizesKept, SymbolsKept, PlacesKept, OrderKept, OrderSame
<1>8. Len(src.lines)' = n
  BY <1>1, <1>4
<1>9. SizesFrom(Len(src.lines))' /\ SymbolsFrom(Len(src.lines))' /\ PlacesFrom(Len(src.lines))' /\ OrderFrom(Len(src.lines))'
  BY <1>7, <1>8 DEF SizesFrom, SymbolsFrom, PlacesFrom, OrderFrom
<1> QED
  BY <1>2, <1>7, <1>9 DEF CoverInv

\* What is marked, in terms of what stays.
LEMMA MarkedIs ==
  ASSUME SameLines, NEW l, SameLabel(l), labels[l].sec \in DOMAIN sections, NEW i, NEW s, s = labels[l].sec, NEW n, n = Before(s, i)
  PROVE  Marked(i, l)' <=> /\ labels'[l].at >= CodeEnd(n)
                           /\ NoneBehind(sections[s].line, i) => Moves(l)'
                           /\ n = 0 /\ (Moves(l)' => s = Len(sections')) => labels'[l].at = 0
<1>1. labels'[l].sec = s /\ sections'[s].line = sections[s].line /\ src' = src
  BY DEF SameLabel, SameLines
<1>2. Before(labels[l].sec, i)' = n
  <2>1. Before(labels[l].sec, i)' = Before(s, i)'
    BY <1>1 DEF Before
  <2> QED
    BY <2>1, BeforeSame
<1>3. CodeEnd(Before(labels[l].sec, i))' = CodeEnd(n)
  <2>1. CodeEnd(Before(labels[l].sec, i))' = CodeEnd(n)'
    BY <1>2 DEF CodeEnd
  <2> QED
    BY <2>1, <1>1, LinesSame
<1>4. NoneBehind(sections[labels[l].sec].line, i)' <=> NoneBehind(sections[s].line, i)
  <2>1. PICK a : a = sections[s].line
    OBVIOUS
  <2>2. sections'[labels'[l].sec].line = a
    BY <2>1, <1>1
  <2>3. NoneBehind(sections[labels[l].sec].line, i)' <=> NoneBehind(a, i)'
    BY <2>2 DEF NoneBehind, Within
  <2> QED
    BY <2>1, <2>3, <1>1, BehindSame
<1> QED
  BY <1>1, <1>2, <1>3, <1>4 DEF Marked

\* The source of a jump is in the section that the label before it is in.
LEMMA SourceWithin ==
  ASSUME TypeInv, NEW i \in 1..Len(src.lines), NEW a, Within(a, i), BeforeSource(i)
  PROVE  ~NoneBehind(a, i)
<1>1. PICK N \in Nat : N = Len(src.lines)
  BY LinesTyped
<1>2. PICK j \in (i + 1)..N : /\ src.lines[j].op = "code"
                              /\ \A m \in (i + 1)..(j - 1) : src.lines[m].op \in {"label", "offset"}
  BY <1>1, SourceAhead
<1>3. /\ a \in 1..i /\ src.lines[a].op = "section"
      /\ \A m \in (a + 1)..i : src.lines[m].op \notin {"section", "segment"}
  BY DEF Within
<1>4. i \in 1..N
  BY <1>1
<1>5. \A m \in (a + 1)..j : m \in (a + 1)..i \/ m \in (i + 1)..(j - 1) \/ m = j
  BY <1>2, <1>3, <1>4
<1>6. \A m \in (a + 1)..j : src.lines[m].op \notin {"section", "segment"}
  BY <1>2, <1>3, <1>5
<1>7. a \in 1..j
  BY <1>2, <1>3, <1>4
<1>8. Within(a, j)
  BY <1>3, <1>6, <1>7 DEF Within
<1>9. j \in (i + 1)..Len(src.lines)
  BY <1>1, <1>2
<1> QED
  BY <1>2, <1>8, <1>9 DEF NoneBehind

\* Where a label is in its section; the last one of a section is at its end.
LEMMA LabelIsAt ==
  ASSUME TypeInv, LandInv, CoverInv, stage = "gather", CodeOnly, NEW l \in DOMAIN labels, InCode(l),
         NEW i \in 1..Len(src.lines), Defines(i, l), NEW s, s = labels[l].sec, NEW n, n = Before(s, i)
  PROVE  /\ labels[l].at >= CodeEnd(n) /\ (n = 0 => labels[l].at = 0) /\ s \in DOMAIN sections
         /\ NoneBehind(sections[s].line, i) =>
              l \in EndLabels(s) /\ \A k \in EndLabels(s) : ~(l < k)
<1>1. PICK N \in Nat : N = Len(src.lines)
  BY LinesTyped
<1>2. /\ SectionsFrom(N) /\ LabelsFrom(N) /\ EndsFrom(N) /\ SizesFrom(N) /\ OrderFrom(N) /\ i \in 1..N
  BY <1>1 DEF LandInv, CoverInv
<1>3. s \in DOMAIN sections /\ IsText(sections[s].name)
  BY <1>2 DEF LabelsFrom, InCode
<1>4. PICK a \in 1..N : a = sections[s].line
  BY <1>2, <1>3 DEF SectionsFrom
<1>5. src.lines[i].op = "label" /\ Within(a, i) /\ a <= i
  BY <1>4 DEF Defines, Within
<1>6. n \in Nat
  BY <1>2, <1>3, <1>4, BeforeIs
<1>7. AtSource(i, l) /\ AtEnd(i, l)
  <2>1. PICK k \in 1..N : Defines(k, l) /\ AtSource(k, l)
    BY <1>2 DEF LabelsFrom
  <2>2. PICK j \in 1..N : Defines(j, l) /\ AtEnd(j, l)
    BY <1>2 DEF EndsFrom
  <2>3. k = i /\ j = i
    BY <2>1, <2>2, <1>2 DEF LabelsFrom, Defines
  <2> QED
    BY <2>1, <2>2, <2>3
<1>8. CodeEnd(n) \in Nat /\ CodeEnd(n) <= Offset(n) /\ Offset(n) \in Nat /\ (n = 0 => CodeEnd(n) = 0)
  BY <1>6, CodeEndIs, OffsetType DEF CodeEnd
<1>9. /\ ForSource(i, l) => n > 0 /\ BeforeSource(i) /\ labels[l].at = Offset(n)
      /\ ~ForSource(i, l) => labels[l].at = CodeEnd(n)
  BY <1>7 DEF AtSource, AtEnd, ForSource
<1>10. labels[l].at >= CodeEnd(n) /\ (n = 0 => labels[l].at = 0)
  BY <1>6, <1>8, <1>9
<1>11. ASSUME NoneBehind(a, i) PROVE l \in EndLabels(s) /\ \A k \in EndLabels(s) : ~(l < k)
  <2>1. ~ForSource(i, l)
    BY <1>5, <1>9, <1>11, SourceWithin
  <2>2. PICK m \in 1..N : /\ Within(a, m) /\ sections[s].size = CodeEnd(Before(s, m + 1))
                          /\ \A j \in (m + 1)..N : Within(a, j) => src.lines[j].op # "code"
    BY <1>2, <1>3, <1>4 DEF SizesFrom
  <2>3. a \in Nat /\ i \in Nat /\ m + 1 \in Nat /\ a <= m + 1 /\ a <= m
    BY <1>2, <2>2 DEF Within
  <2>4. Before(s, m + 1) = n
    <3>1. CASE m + 1 <= i
      <4>1. \A j \in (m + 1)..(i - 1) : j \in a..i /\ j \in (m + 1)..N
        BY <1>2, <2>3
      <4>2. \A j \in (m + 1)..(i - 1) : src.lines[j].op # "code"
        BY <4>1, <1>5, <2>2, <2>3, WithinUpTo
      <4> QED
        BY <4>2, <2>3, <3>1, <1>4, NoneBetween
    <3>2. CASE i <= m + 1
      <4>1. \A j \in i..((m + 1) - 1) : j = i \/ (j \in (i + 1)..N /\ j \in a..m)
        BY <1>2, <1>5, <2>3
      <4>2. \A j \in i..((m + 1) - 1) : src.lines[j].op # "code"
        <5> SUFFICES ASSUME NEW j \in i..((m + 1) - 1), j # i PROVE src.lines[j].op # "code"
          BY <1>5
        <5>1. j \in (i + 1)..N /\ j \in a..m
          BY <4>1
        <5>2. Within(a, j)
          BY <5>1, <2>2, WithinUpTo
        <5> QED
          BY <5>1, <5>2, <1>1, <1>11 DEF NoneBehind
      <4> QED
        BY <4>2, <2>3, <3>2, <1>4, <1>5, NoneBetween
    <3> QED
      BY <3>1, <3>2, <2>3
  <2>5. labels[l].at = sections[s].size
    BY <2>1, <2>2, <2>4, <1>9
  <2>6. l \in EndLabels(s)
    BY <2>5 DEF EndLabels
  <2>7. ASSUME NEW k \in EndLabels(s), l < k PROVE FALSE
    <3>1. k \in DOMAIN labels /\ labels[k].sec = s
      BY DEF EndLabels
    <3>2. PICK j \in (i + 1)..N : src.lines[j].op \in {"label", "offset"} /\ Within(a, j)
      BY <3>1, <2>7, <1>2, <1>4 DEF OrderFrom
    <3> QED
      BY <3>2, <1>1, <1>11 DEF NoneBehind
  <2> QED
    BY <2>6, <2>7
<1> QED
  BY <1>3, <1>4, <1>10, <1>11

LEMMA GatherCovers ==
  ASSUME TypeInv, LandInv, CoverInv, Gather
  PROVE  CoverInv'
<1>1. stage = "gather" /\ stage' = "tables" /\ UNCHANGED <<src, sections, labels, symbols>>
  BY GoesOn DEF Gather, scanned
<1>2. PICK N \in Nat : N = Len(src.lines)
  BY LinesTyped
<1>3. SectionsFrom(N) /\ LabelsFrom(N) /\ SymbolsFrom(N) /\ PlacesFrom(N) /\ LinesInOrder
  BY <1>1, <1>2 DEF LandInv, CoverInv
<1>4. SameLines /\ DOMAIN sections' = DOMAIN sections /\ \A l \in DOMAIN labels : labels[l].sec \in DOMAIN sections /\ SameLabel(l)
  BY <1>1, <1>3 DEF SameLines, SameLabel, LabelsFrom
<1>5. SymbolsFrom(N)' /\ PlacesFrom(N)' /\ LinesInOrder'
  BY <1>1, <1>3, <1>4, SymbolsKept, PlacesKept, OrderSame
<1>6. Len(src.lines)' = N
  BY <1>1, <1>2
<1>7. SymbolsFrom(Len(src.lines))' /\ PlacesFrom(Len(src.lines))'
  BY <1>5, <1>6 DEF SymbolsFrom, PlacesFrom
<1>8. sizeLabel' = [s \in {t \in DOMAIN sections : IsText(sections[t].name) /\ EndLabels(t) # {}} |->
                      CHOOSE l \in EndLabels(s) : \A k \in EndLabels(s) : k <= l]
  BY DEF Gather
<1>9. ASSUME NEW s \in DOMAIN sections, IsText(sections[s].name), EndLabels(s) # {}
      PROVE  /\ s \in DOMAIN sizeLabel' /\ sizeLabel'[s] \in EndLabels(s)
             /\ \A k \in EndLabels(s) : k <= sizeLabel'[s]
  <2>1. sizeLabel'[s] = CHOOSE l \in EndLabels(s) : \A k \in EndLabels(s) : k <= l
    BY <1>8, <1>9
  <2>2. Len(labels) \in Nat /\ EndLabels(s) \in SUBSET (1..Len(labels))
    BY IsSeqDomain DEF TypeInv, LabelsTyped, EndLabels
  <2>3. PICK n \in Nat : n = Len(labels)
    BY <2>2
  <2>4. \E l \in EndLabels(s) : \A k \in EndLabels(s) : k <= l
    BY <1>9, <2>2, <2>3, GreatestElement
  <2>5. s \in DOMAIN sizeLabel'
    BY <1>8, <1>9
  <2> QED
    BY <2>1, <2>4, <2>5
<1>10. EndsInside'
  <2> SUFFICES ASSUME NEW s \in DOMAIN sizeLabel'
               PROVE  /\ sizeLabel'[s] \in DOMAIN labels /\ labels[sizeLabel'[s]].sec = s /\ IsText(sections[s].name)'
                      /\ sections[s].size >= labels[sizeLabel'[s]].at
    BY <1>1 DEF EndsInside
  <2>1. s \in DOMAIN sections /\ IsText(sections[s].name) /\ EndLabels(s) # {}
    BY <1>8
  <2>2. sizeLabel'[s] \in EndLabels(s)
    BY <2>1, <1>9
  <2>3. sizeLabel'[s] \in DOMAIN labels /\ labels[sizeLabel'[s]].sec = s /\ labels[sizeLabel'[s]].at = sections[s].size
    BY <2>2 DEF EndLabels
  <2>4. sections[s].size \in Nat
    BY <2>1 DEF TypeInv, SectionsTyped, IsSection
  <2>5. IsText(sections[s].name)'
    BY <2>1, <1>1 DEF IsText
  <2> QED
    BY <2>3, <2>4, <2>5
<1>11. AllMarked'
  <2> SUFFICES ASSUME CodeOnly', NEW l \in DOMAIN labels', InCode(l)', NEW i \in 1..N, Defines(i, l)'
               PROVE  Marked(i, l)'
    BY <1>6 DEF AllMarked
  <2>1. CodeOnly /\ l \in DOMAIN labels /\ InCode(l) /\ Defines(i, l) /\ labels[l].sec \in DOMAIN sections /\ SameLabel(l)
    BY <1>1, <1>4, LinesSame, LabelSame
  <2>2. PICK s : s = labels[l].sec
    OBVIOUS
  <2>3. PICK n : n = Before(s, i)
    OBVIOUS
  <2>4. /\ labels[l].at >= CodeEnd(n) /\ (n = 0 => labels[l].at = 0) /\ s \in DOMAIN sections
        /\ NoneBehind(sections[s].line, i) => l \in EndLabels(s) /\ \A k \in EndLabels(s) : ~(l < k)
    BY <1>1, <1>2, <2>1, <2>2, <2>3, LabelIsAt
  <2>5. ASSUME NoneBehind(sections[s].line, i) PROVE Moves(l)'
    <3>1. l \in EndLabels(s) /\ \A k \in EndLabels(s) : ~(l < k)
      BY <2>4, <2>5
    <3>2. IsText(sections[s].name)
      BY <2>1, <2>2 DEF InCode
    <3>3. s \in DOMAIN sizeLabel' /\ sizeLabel'[s] \in EndLabels(s) /\ l <= sizeLabel'[s]
      BY <2>4, <3>1, <3>2, <1>9
    <3>4. EndLabels(s) \subseteq Int
      BY IsSeqDomain DEF TypeInv, LabelsTyped, EndLabels
    <3>5. sizeLabel'[s] = l
      BY <3>1, <3>3, <3>4
    <3>6. labels'[l].sec = s
      BY <2>2, <1>1
    <3> QED
      BY <3>3, <3>5, <3>6 DEF Moves
  <2> QED
    BY <2>1, <2>2, <2>3, <2>4, <2>5, <1>1, <1>4, MarkedIs
<1> QED
  BY <1>1, <1>5, <1>7, <1>10, <1>11 DEF CoverInv

\* The passes behind: labels move with the padding only, and stay in their sections.
LEMMA MarksKept ==
  ASSUME TypeInv, LandInv, CoverInv, stage \notin {"scan", "gather", "failed"}, SameLines, DOMAIN sections' = DOMAIN sections,
         Len(sections') = Len(sections), symbols' = symbols, sizeLabel' = sizeLabel,
         DOMAIN labels' = DOMAIN labels, \A l \in DOMAIN labels : SameLabel(l),
         \A l \in DOMAIN labels : labels'[l].at = labels[l].at \/
           (labels'[l].at >= labels[l].at /\ labels'[l].at \in Int /\ Moves(l) /\ labels[l].sec # Len(sections)),
         \A s \in DOMAIN sizeLabel : sections'[s].size >= labels'[sizeLabel[s]].at
  PROVE  SymbolsFrom(Len(src.lines))' /\ PlacesFrom(Len(src.lines))' /\ LinesInOrder' /\ EndsInside' /\ AllMarked'
<1>1. PICK N \in Nat : N = Len(src.lines)
  BY LinesTyped
<1>2. SectionsFrom(N) /\ LabelsFrom(N) /\ SymbolsFrom(N) /\ PlacesFrom(N) /\ LinesInOrder /\ EndsInside /\ AllMarked
  BY <1>1 DEF LandInv, CoverInv
<1>3. \A l \in DOMAIN labels : labels[l].sec \in DOMAIN sections
  BY <1>2 DEF LabelsFrom
<1>4. src' = src
  BY DEF SameLines
<1>5. SymbolsFrom(N)' /\ PlacesFrom(N)' /\ LinesInOrder'
  BY <1>2, <1>3, <1>4, SymbolsKept, PlacesKept, OrderSame
<1>6. Len(src.lines)' = N
  BY <1>1, <1>4
<1>7. SymbolsFrom(Len(src.lines))' /\ PlacesFrom(Len(src.lines))'
  BY <1>5, <1>6 DEF SymbolsFrom, PlacesFrom
<1>8. EndsInside'
  <2> SUFFICES ASSUME NEW s \in DOMAIN sizeLabel
               PROVE  /\ sizeLabel[s] \in DOMAIN labels' /\ labels'[sizeLabel[s]].sec = s /\ IsText(sections[s].name)'
                      /\ sections'[s].size >= labels'[sizeLabel[s]].at
    BY DEF EndsInside
  <2>1. sizeLabel[s] \in DOMAIN labels /\ labels[sizeLabel[s]].sec = s /\ IsText(sections[s].name)
    BY <1>2 DEF EndsInside
  <2>2. s \in DOMAIN sections
    BY <2>1, <1>3
  <2>3. IsText(sections[s].name)'
    BY <2>1, <2>2 DEF SameLines, IsText
  <2> QED
    BY <2>1, <2>3 DEF SameLabel
<1>9. \A l : l \in DOMAIN labels => (Moves(l)' <=> Moves(l))
  BY DEF Moves, SameLabel
<1>10. AllMarked'
  <2> SUFFICES ASSUME CodeOnly', NEW l \in DOMAIN labels', InCode(l)', NEW i \in 1..N, Defines(i, l)'
               PROVE  Marked(i, l)'
    BY <1>6 DEF AllMarked
  <2>1. CodeOnly /\ l \in DOMAIN labels /\ InCode(l) /\ Defines(i, l) /\ labels[l].sec \in DOMAIN sections /\ SameLabel(l)
    BY <1>3, <1>4, LinesSame, LabelSame
  <2>2. PICK s : s = labels[l].sec
    OBVIOUS
  <2>3. PICK n : n = Before(s, i)
    OBVIOUS
  <2>4. Marked(i, l)
    BY <2>1, <1>1, <1>2 DEF AllMarked
  <2>5. /\ labels[l].at >= CodeEnd(n) /\ (NoneBehind(sections[s].line, i) => Moves(l))
        /\ n = 0 /\ (Moves(l) => s = Len(sections)) => labels[l].at = 0
    BY <2>2, <2>3, <2>4 DEF Marked
  <2>6. labels[l].at \in Int /\ CodeEnd(n) \in Nat
    <3>1. n \in Nat
      BY <2>1, <2>2, <1>2, <1>1, <2>3, BeforeIs DEF SectionsFrom
    <3> QED
      BY <3>1, <2>1, CodeEndIs DEF TypeInv, LabelsTyped
  <2>7. /\ labels'[l].at >= CodeEnd(n) /\ (NoneBehind(sections[s].line, i) => Moves(l)')
        /\ n = 0 /\ (Moves(l)' => s = Len(sections')) => labels'[l].at = 0
    <3>1. CASE labels'[l].at = labels[l].at
      BY <3>1, <2>1, <2>5, <1>9
    <3>2. CASE labels'[l].at >= labels[l].at /\ labels'[l].at \in Int /\ Moves(l) /\ s # Len(sections)
      BY <3>2, <2>1, <2>5, <2>6, <1>9
    <3> QED
      BY <3>1, <3>2, <2>1, <2>2
  <2> QED
    BY <2>1, <2>2, <2>3, <2>7, MarkedIs
<1> QED
  BY <1>5, <1>7, <1>8, <1>10

\* The passes before the layout: code grows, if anything.
LEMMA EndsAre ==
  ASSUME TypeInv, LandInv, CoverInv, stage \notin {"scan", "gather", "failed"}, NEW s \in DOMAIN sizeLabel
  PROVE  /\ s \in DOMAIN sections /\ IsText(sections[s].name) /\ sections[s].size \in Nat
         /\ sizeLabel[s] \in DOMAIN labels /\ labels[sizeLabel[s]].sec = s
         /\ labels[sizeLabel[s]].at \in Int /\ sections[s].size >= labels[sizeLabel[s]].at
<1>1. /\ sizeLabel[s] \in DOMAIN labels /\ labels[sizeLabel[s]].sec = s /\ IsText(sections[s].name)
      /\ sections[s].size >= labels[sizeLabel[s]].at
  BY DEF CoverInv, EndsInside
<1>2. s \in DOMAIN sections
  BY <1>1 DEF LandInv, LabelsFrom
<1> QED
  BY <1>1, <1>2 DEF TypeInv, LabelsTyped, SectionsTyped, IsSection

LEMMA SameMarks ==
  ASSUME TypeInv, LandInv, CoverInv, stage \notin {"scan", "gather", "failed"}, Worked, src' = src, labels' = labels,
         symbols' = symbols, sizeLabel' = sizeLabel,
         \A s \in DOMAIN sections : IsText(sections[s].name) => sections'[s].size >= sections[s].size
  PROVE  SymbolsFrom(Len(src.lines))' /\ PlacesFrom(Len(src.lines))' /\ LinesInOrder' /\ EndsInside' /\ AllMarked'
<1>1. SameLines /\ Len(sections') = Len(sections) /\ DOMAIN sections' = DOMAIN sections
  BY WorkedLines
<1>2. \A l \in DOMAIN labels : SameLabel(l) /\ labels'[l].at = labels[l].at
  BY DEF SameLabel
<1>3. ASSUME NEW s \in DOMAIN sizeLabel PROVE sections'[s].size >= labels'[sizeLabel[s]].at
  BY EndsAre DEF Worked, Changed, IsSection
<1> QED
  BY <1>1, <1>2, <1>3, MarksKept

LEMMA NoneFilled ==
  ASSUME TypeInv, LandInv, CoverInv, stage \notin {"scan", "gather", "failed"}, sizeLabel' = sizeLabel, next' = 1
  PROVE  FilledTo(next - 1)'
<1>1. \A s \in DOMAIN sizeLabel : s \in Nat /\ s >= 1
  <2> SUFFICES ASSUME NEW s \in DOMAIN sizeLabel PROVE s \in Nat /\ s >= 1
    OBVIOUS
  <2>1. s \in DOMAIN sections
    BY EndsAre
  <2>2. DOMAIN sections = 1..Len(sections) /\ Len(sections) \in Nat
    BY IsSeqDomain DEF TypeInv, SectionsTyped
  <2> QED
    BY <2>1, <2>2
<1>2. next' - 1 = 0
  OBVIOUS
<1> QED
  BY <1>1, <1>2 DEF FilledTo

LEMMA PassCovers ==
  ASSUME TypeInv, LandInv, CoverInv, Worked, UNCHANGED <<src, labels, symbols, sizeLabel, symtab>>,
         stage \in {"fixups", "kernels", "regcounts", "relocations"}, GoOn \/ Stay,
         \A s \in DOMAIN sections : IsText(sections[s].name) => sections'[s].size >= sections[s].size
  PROVE  CoverInv'
<1>1. SymbolsFrom(Len(src.lines))' /\ PlacesFrom(Len(src.lines))' /\ LinesInOrder' /\ EndsInside' /\ AllMarked'
  BY SameMarks
<1>2. stage' \in {"fixups", "kernels", "regcounts", "relocations"} \/ (stage' = "layout" /\ next' = 1)
  BY GoesOn DEF Stay
<1>3. stage' = "layout" => FilledTo(next - 1)'
  BY <1>2, NoneFilled
<1>4. IsSymtab'
  BY DEF CoverInv, IsSymtab
<1> QED
  BY <1>1, <1>2, <1>3, <1>4 DEF CoverInv

\* What leaves the sections and the labels.
LEMMA IdleMarks ==
  ASSUME TypeInv, LandInv, CoverInv, stage \notin {"scan", "gather", "failed"}, UNCHANGED <<src, sections, labels, symbols, sizeLabel>>
  PROVE  /\ SymbolsFrom(Len(src.lines))' /\ PlacesFrom(Len(src.lines))' /\ LinesInOrder' /\ EndsInside' /\ AllMarked'
         /\ \A n : FilledTo(n)' <=> FilledTo(n)
<1>1. Worked
  BY UnchangedWorked
<1>2. \A s \in DOMAIN sections : sections'[s].size >= sections[s].size
  BY DEF TypeInv, SectionsTyped, IsSection
<1>3. \A n : FilledTo(n)' <=> FilledTo(n)
  BY DEF FilledTo
<1> QED
  BY <1>1, <1>2, <1>3, SameMarks

LEMMA TablesCover ==
  ASSUME TypeInv, LandInv, CoverInv, BuildTables
  PROVE  CoverInv'
<1>1. stage = "tables" /\ stage' = "fixups" /\ UNCHANGED <<src, sections, labels, symbols, sizeLabel>>
  BY GoesOn DEF BuildTables, scanned
<1>2. symtab' = [k \in DOMAIN SymtabNames |-> [name |-> SymtabNames[k], value |-> SymtabValue(k), size |-> 0]]
  BY DEF BuildTables
<1>3. IsSymtab'
  BY <1>2 DEF IsSymtab
<1> QED
  BY <1>1, <1>3, IdleMarks DEF CoverInv

LEMMA IdleCovers ==
  ASSUME TypeInv, LandInv, CoverInv, FixupsEnd \/ SkipSection \/ KernelsEnd
  PROVE  CoverInv'
<1>1. UNCHANGED <<src, sections, labels, symbols, sizeLabel, symtab>> /\ stage \in {"fixups", "kernels"} /\ (GoOn \/ Stay)
  BY DEF FixupsEnd, SkipSection, KernelsEnd, scanned, tables
<1>2. Worked
  BY <1>1, UnchangedWorked
<1>3. \A s \in DOMAIN sections : sections'[s].size >= sections[s].size
  BY <1>1 DEF TypeInv, SectionsTyped, IsSection
<1> QED
  BY <1>1, <1>2, <1>3, PassCovers

LEMMA OneSameSize ==
  ASSUME TypeInv, NEW c \in DOMAIN sections, NEW e, e.size = sections[c].size \/ ~IsText(sections[c].name),
         sections' = [sections EXCEPT ![c] = e]
  PROVE  \A s \in DOMAIN sections : IsText(sections[s].name) => sections'[s].size >= sections[s].size
<1>1. \A s \in DOMAIN sections : sections'[s] = IF s = c THEN e ELSE sections[s]
  OBVIOUS
<1>2. \A s \in DOMAIN sections : sections[s].size \in Nat
  BY DEF TypeInv, SectionsTyped, IsSection
<1> QED
  BY <1>1, <1>2

LEMMA FixupCovers ==
  ASSUME TypeInv, LandInv, CoverInv, EvalFixup
  PROVE  CoverInv'
<1>1. PICK f : f = fixups[next] /\ f.sec \in DOMAIN sections /\ IsExpr(f.expr)
  BY FixupIn, Zenon
<1>2. PICK e : /\ e = [sections[f.sec] EXCEPT !.items[f.at].num = Written(f)]
               /\ sections' = sections \/ sections' = [sections EXCEPT ![f.sec] = e]
  BY <1>1, FixupDoes
<1>3. Stay /\ stage = "fixups" /\ UNCHANGED <<src, labels, symbols, sizeLabel, symtab>>
  BY DEF EvalFixup, scanned, tables
<1>4. Worked
  BY FixupWorked
<1>5. e.size = sections[f.sec].size
  <2>1. PICK w, v : w = sections[f.sec] /\ v = Written(f)
    OBVIOUS
  <2>2. DOMAIN w = SectionFields
    BY <2>1, <1>1 DEF TypeInv, SectionsTyped, IsSection
  <2>3. e = [w EXCEPT !.items[f.at].num = v]
    BY <2>1, <1>2
  <2> QED
    BY <2>1, <2>2, <2>3 DEF SectionFields
<1>6. \A s \in DOMAIN sections : IsText(sections[s].name) => sections'[s].size >= sections[s].size
  <2>1. CASE sections' = sections
    BY <2>1 DEF TypeInv, SectionsTyped, IsSection
  <2>2. CASE sections' = [sections EXCEPT ![f.sec] = e]
    BY <2>2, <1>1, <1>5, OneSameSize
  <2> QED
    BY <2>1, <2>2, <1>2
<1> QED
  BY <1>3, <1>4, <1>6, PassCovers

LEMMA KernelCovers ==
  ASSUME TypeInv, LandInv, CoverInv, ParseKernel
  PROVE  CoverInv'
<1> DEFINE s == next
           t == SectionOf(InfoOf(s))
           lines == CodeLines(s)
           code == [k \in DOMAIN lines |->
                     [ins |-> lines[k].ins, operand |-> Operand(s, lines[k]), code |-> CC!Encode(lines[k].ctrl),
                      desc |-> lines[k].desc, bit |-> lines[k].desc # NoDesc]]
           u == [sections[s] EXCEPT !.code = code, !.pos = 0]
           e == Emit(u, CodeSize(Len(lines)))
           f == SetAttrs(t, Update(src.grouped, AttrsOf(t), Wanted(s, lines)))
<1>1. next \in DOMAIN sections /\ Worked
  BY KernelAssembled
<1>2. Stay /\ stage = "kernels" /\ UNCHANGED <<src, labels, symbols, sizeLabel, symtab>> /\ HasSection(InfoOf(s))
  BY DEF ParseKernel, KernelGood, scanned, tables
<1>3. sections' = [sections EXCEPT ![s] = e, ![t] = f]
  BY DEF ParseKernel, Assemble
<1>4. t \in DOMAIN sections /\ ~IsText(sections[t].name)
  BY <1>2, SectionIs DEF InfoOf, IsText
<1> HIDE DEF t
<1>5. e.size >= sections[s].size
  <2> DEFINE w == sections[s]
  <2>1. DOMAIN w = SectionFields /\ w.size \in Nat
    BY <1>1 DEF TypeInv, SectionsTyped, IsSection
  <2>2. CodeSize(Len(lines)) \in Nat
    BY <1>1, CodeLinesType, IsSeqDomain, CodeSizeType
  <2> HIDE DEF w, code, lines
  <2>3. u = [w EXCEPT !.code = code, !.pos = 0]
    BY DEF w
  <2>4. DOMAIN u = SectionFields /\ u.size = w.size /\ u.pos = 0
    BY <2>1, <2>3 DEF SectionFields
  <2> HIDE DEF u
  <2>5. e.size = IF u.pos + CodeSize(Len(lines)) > u.size THEN u.pos + CodeSize(Len(lines)) ELSE u.size
    BY <2>4, EmitIs
  <2> HIDE DEF e
  <2> QED
    BY <2>1, <2>2, <2>4, <2>5 DEF w
<1> HIDE DEF e, f
<1>6. \A x \in DOMAIN sections : sections'[x] = IF x = t THEN f ELSE IF x = s THEN e ELSE sections[x]
  BY <1>1, <1>3, <1>4
<1>7. \A x \in DOMAIN sections : IsText(sections[x].name) => sections'[x].size >= sections[x].size
  <2>1. \A x \in DOMAIN sections : sections[x].size \in Nat
    BY DEF TypeInv, SectionsTyped, IsSection
  <2> QED
    BY <2>1, <1>4, <1>5, <1>6
<1> QED
  BY <1>1, <1>2, <1>7, PassCovers

LEMMA CountsCover ==
  ASSUME TypeInv, LandInv, CoverInv, CountRegs
  PROVE  CoverInv'
<1> DEFINE t == SectionOf(<<".nv.info">>)
           f == SetAttrs(t, SetRegCount(AttrsOf(t), RegNums))
<1>1. stage = "regcounts" /\ HasSection(<<".nv.info">>) /\ sections' = [sections EXCEPT ![t] = f]
  BY DEF CountRegs
<1>2. t \in DOMAIN sections /\ sections[t].name = <<".nv.info">>
  BY <1>1, SectionIs
<1>3. ~IsText(sections[t].name)
  BY <1>2 DEF IsText
<1>4. GoOn /\ UNCHANGED <<src, labels, symbols, sizeLabel, symtab>>
  BY DEF CountRegs, scanned, tables
<1> HIDE DEF t, f
<1>5. \A s \in DOMAIN sections : IsText(sections[s].name) => sections'[s].size >= sections[s].size
  BY <1>1, <1>2, <1>3, OneSameSize
<1> QED
  BY <1>1, <1>4, <1>5, CountsWorked, PassCovers

LEMMA RelocationsCover ==
  ASSUME TypeInv, LandInv, CoverInv, BuildRelocations
  PROVE  CoverInv'
<1> DEFINE u(s) == [sections[s] EXCEPT !.entries = Reverse(RelsOf(s))]
           e(s) == Emit(u(s), EntriesSize(RelsOf(s)))
<1>1. stage = "relocations" /\ sections' = [s \in DOMAIN sections |-> e(s)]
  BY DEF BuildRelocations
<1>2. GoOn /\ UNCHANGED <<src, labels, symbols, sizeLabel, symtab>>
  BY DEF BuildRelocations, scanned, tables
<1>3. Worked
  BY BuildRelocationsWorked
<1>4. ASSUME NEW s \in DOMAIN sections PROVE e(s).size >= sections[s].size
  <2> DEFINE w == sections[s]
             v == u(s)
             z == EntriesSize(RelsOf(s))
  <2>1. DOMAIN w = SectionFields /\ w.size \in Nat /\ w.pos \in Nat
    BY DEF TypeInv, SectionsTyped, IsSection
  <2>2. v = [w EXCEPT !.entries = Reverse(RelsOf(s))] /\ e(s) = Emit(v, z)
    OBVIOUS
  <2>3. e(s).size \in Nat
    BY <1>1, <1>3 DEF Worked, Changed, IsSection
  <2> HIDE DEF v, w, e, z
  <2>4. DOMAIN v = SectionFields /\ v.size = w.size /\ v.pos = w.pos
    BY <2>1, <2>2 DEF SectionFields
  <2>5. Emit(v, z).size = IF v.pos + z > v.size THEN v.pos + z ELSE v.size
    BY <2>4, EmitIs
  <2> QED
    BY <2>1, <2>2, <2>3, <2>4, <2>5 DEF w
<1> HIDE DEF e
<1>5. \A s \in DOMAIN sections : sections'[s].size >= sections[s].size
  BY <1>1, <1>4
<1> QED
  BY <1>1, <1>2, <1>3, <1>5, PassCovers

\* The layout.
LEMMA SkipCovers ==
  ASSUME TypeInv, LandInv, CoverInv, SkipNull
  PROVE  CoverInv'
<1>1. stage = "layout" /\ stage' = "layout" /\ next' = next + 1 /\ sections[next].name = <<>>
      /\ UNCHANGED <<src, sections, labels, symbols, sizeLabel, symtab>>
  BY DEF SkipNull, Stay, scanned, tables
<1>2. next \in Nat /\ FilledTo(next - 1)
  BY <1>1 DEF CoverInv, TypeInv
<1>3. FilledTo(next - 1)'
  <2> SUFFICES ASSUME NEW s \in DOMAIN sizeLabel, s < next PROVE labels[sizeLabel[s]].at = sections[s].size
    <3>1. (next - 1)' = next
      BY <1>1, <1>2
    <3> QED
      BY <3>1, <1>1 DEF FilledTo
  <2>1. s \in DOMAIN sections /\ IsText(sections[s].name)
    BY <1>1, EndsAre
  <2>2. s \in Nat
    BY <2>1, IsSeqDomain DEF TypeInv, SectionsTyped
  <2>3. s # next
    BY <2>1, <1>1 DEF IsText
  <2>4. s < next - 1 \/ s = next - 1
    BY <2>2, <1>2
  <2>5. CASE s < next - 1
    BY <2>5, <1>2 DEF FilledTo
  <2>6. CASE s = next - 1
    <3>1. next = 1
      BY <1>1, <1>2, IsSeqDomain DEF TypeInv, SectionsTyped, SkipNull, NullIsEmpty
    <3>2. s \in 1..Len(sections)
      BY <2>1, IsSeqDomain DEF TypeInv, SectionsTyped
    <3> QED
      BY <2>6, <3>1, <3>2
  <2> QED
    BY <2>4, <2>5, <2>6
<1>4. IsSymtab'
  BY <1>1 DEF CoverInv, IsSymtab
<1> QED
  BY <1>1, <1>3, <1>4, IdleMarks DEF CoverInv

LEMMA LayoutEndCovers ==
  ASSUME TypeInv, LandInv, CoverInv, LayoutEnd
  PROVE  CoverInv'
<1>1. stage = "layout" /\ stage' = "segments" /\ next > Len(sections)
      /\ UNCHANGED <<src, sections, labels, symbols, sizeLabel, symtab>>
  BY GoesOn DEF LayoutEnd, scanned, tables
<1>2. FilledTo(Len(sections))
  <2> SUFFICES ASSUME NEW s \in DOMAIN sizeLabel, s < Len(sections) PROVE labels[sizeLabel[s]].at = sections[s].size
    BY DEF FilledTo
  <2>1. s \in DOMAIN sections
    BY <1>1, EndsAre
  <2>2. s < next - 1
    <3>1. s \in Nat /\ Len(sections) \in Nat /\ next \in Nat
      BY <2>1, IsSeqDomain DEF TypeInv, SectionsTyped
    <3> QED
      BY <3>1, <1>1
  <2> QED
    BY <2>2, <1>1 DEF CoverInv, FilledTo
<1>3. FilledTo(Len(sections))'
  BY <1>1, <1>2 DEF FilledTo
<1>4. IsSymtab'
  BY <1>1 DEF CoverInv, IsSymtab
<1> QED
  BY <1>1, <1>3, <1>4, IdleMarks DEF CoverInv

LEMMA SegmentsCovered ==
  ASSUME TypeInv, LandInv, CoverInv, LocateSegments
  PROVE  CoverInv'
<1>1. stage = "segments" /\ stage' = "symtab"
      /\ UNCHANGED <<src, sections, labels, symbols, sizeLabel, symtab>>
  BY GoesOn DEF LocateSegments, tables
<1>2. FilledTo(Len(sections))'
  BY <1>1 DEF CoverInv, FilledTo
<1>3. IsSymtab'
  BY <1>1 DEF CoverInv, IsSymtab
<1> QED
  BY <1>1, <1>2, <1>3, IdleMarks DEF CoverInv

LEMMA FirstCovers ==
  ASSUME TypeInv, LandInv, CoverInv, LayoutFirstSection
  PROVE  CoverInv'
<1>1. /\ Worked /\ next \in DOMAIN sections
      /\ \A t \in DOMAIN sections : t # next => sections'[t] = sections[t]
      /\ sections'[next].size = sections[next].size
  BY LayoutFirstIs
<1>2. stage = "layout" /\ stage' = "layout" /\ next' = next + 1 /\ Previous(next) = 0
      /\ UNCHANGED <<src, labels, symbols, sizeLabel, symtab>>
  BY DEF LayoutFirstSection, Stay, scanned, tables
<1>3. \A t \in DOMAIN sections : sections'[t].size = sections[t].size /\ sections[t].size \in Nat
  <2>1. \A t \in DOMAIN sections : sections[t].size \in Nat
    BY DEF TypeInv, SectionsTyped, IsSection
  <2> QED
    BY <2>1, <1>1
<1>4. next \in Nat /\ FilledTo(next - 1) /\ next >= 1 /\ next <= Len(sections) + 1
  BY <1>1, <1>2, IsSeqDomain DEF CoverInv, TypeInv, SectionsTyped
<1>5. FilledTo(next - 1)'
  <2> SUFFICES ASSUME NEW s \in DOMAIN sizeLabel, s < next PROVE labels[sizeLabel[s]].at = sections'[s].size
    <3>1. (next - 1)' = next
      BY <1>2, <1>4
    <3> QED
      BY <3>1, <1>2 DEF FilledTo
  <2>1. s \in DOMAIN sections /\ IsText(sections[s].name)
    BY <1>2, EndsAre
  <2>2. s \in Nat /\ s >= 1
    <3>1. s \in 1..Len(sections)
      BY <2>1, IsSeqDomain DEF TypeInv, SectionsTyped
    <3> QED
      BY <3>1
  <2>3. s # next - 1
    BY <1>2, <1>4, PreviousIs, <2>2, <2>1 DEF IsText
  <2>4. s < next - 1
    BY <2>2, <2>3, <1>4
  <2> QED
    BY <2>1, <2>4, <1>3, <1>4 DEF FilledTo
<1>6. IsSymtab'
  BY <1>2 DEF CoverInv, IsSymtab
<1>7. \A s \in DOMAIN sections : IsText(sections[s].name) => sections'[s].size >= sections[s].size
  BY <1>3
<1>8. SymbolsFrom(Len(src.lines))' /\ PlacesFrom(Len(src.lines))' /\ LinesInOrder' /\ EndsInside' /\ AllMarked'
  BY <1>1, <1>2, <1>7, SameMarks
<1> QED
  BY <1>2, <1>5, <1>6, <1>8 DEF CoverInv

\* A section laid out behind another: with the code grows its end label.
LEMMA PaddedEnd ==
  ASSUME TypeInv, LandInv, CoverInv, LayoutSection, NEW p, p = next - 1, NEW d, d = FilePad(p, AlignFor(next))
  PROVE  /\ stage = "layout" /\ p \in DOMAIN sections /\ next \in DOMAIN sections /\ d \in Nat /\ p < next
         /\ IsText(sections[p].name) => sections'[p].size = sections[p].size + d
         /\ \A t \in DOMAIN sections : t # p => sections'[t].size = sections[t].size
         /\ DOMAIN labels' = DOMAIN labels
         /\ p \in DOMAIN sizeLabel => labels' = [labels EXCEPT ![sizeLabel[p]].at = sections[p].size + d]
         /\ p \notin DOMAIN sizeLabel => labels' = labels
<1> DEFINE al == AlignFor(next)
<1>1. stage = "layout" /\ next <= Len(sections) /\ Previous(next) # 0
  BY DEF LayoutSection
<1>2. /\ Previous(next) = p /\ p \in DOMAIN sections /\ next \in DOMAIN sections /\ sections[p].name # <<>>
      /\ FilePad(p, al) \in Nat /\ MemPad(p, al) \in Nat
  BY <1>1, LayoutAt
<1>3. labels' = PadLabel(p, al)
  BY <1>2 DEF LayoutSection
<1>4. /\ sections'[p] = Padded(p, al) /\ sections'[next].size = sections[next].size
      /\ \A t \in DOMAIN sections : t # p /\ t # next => sections'[t] = sections[t]
  BY LayoutSectionIs
<1>5. IsText(sections[p].name) => Padded(p, al).size = sections[p].size + FilePad(p, al)
  BY <1>2, PaddedIs
<1>6. \A t \in DOMAIN sections : t # p => sections'[t].size = sections[t].size
  BY <1>4
<1>7. p \in DOMAIN sizeLabel => IsText(sections[p].name)
  BY <1>1, EndsAre
<1>8. p < next
  <2>1. next \in Nat
    BY DEF TypeInv
  <2> QED
    BY <2>1
<1>9. /\ p \in DOMAIN sizeLabel => labels' = [labels EXCEPT ![sizeLabel[p]].at = sections[p].size + d]
      /\ p \notin DOMAIN sizeLabel => labels' = labels
  BY <1>3, <1>7 DEF PadLabel
<1>10. DOMAIN labels' = DOMAIN labels
  <2>1. CASE p \in DOMAIN sizeLabel
    BY <2>1, <1>9
  <2>2. CASE p \notin DOMAIN sizeLabel
    BY <2>2, <1>9
  <2> QED
    BY <2>1, <2>2
<1> QED
  BY <1>1, <1>2, <1>4, <1>5, <1>6, <1>8, <1>9, <1>10

LEMMA LayoutCovers ==
  ASSUME TypeInv, LandInv, CoverInv, LayoutSection
  PROVE  CoverInv'
<1>1. PICK p : p = next - 1
  OBVIOUS
<1>2. PICK d : d = FilePad(p, AlignFor(next))
  OBVIOUS
<1>3. /\ stage = "layout" /\ p \in DOMAIN sections /\ next \in DOMAIN sections /\ d \in Nat /\ p < next
      /\ IsText(sections[p].name) => sections'[p].size = sections[p].size + d
      /\ \A t \in DOMAIN sections : t # p => sections'[t].size = sections[t].size
      /\ DOMAIN labels' = DOMAIN labels
      /\ p \in DOMAIN sizeLabel => labels' = [labels EXCEPT ![sizeLabel[p]].at = sections[p].size + d]
      /\ p \notin DOMAIN sizeLabel => labels' = labels
  BY <1>1, <1>2, PaddedEnd
<1>4. stage' = "layout" /\ next' = next + 1 /\ UNCHANGED <<src, symbols, sizeLabel, symtab>>
  BY DEF LayoutSection, Stay, tables
<1>5. SameLines /\ Len(sections') = Len(sections) /\ DOMAIN sections' = DOMAIN sections
  BY <1>4, LayoutSectionIs, WorkedLines
<1>6. Len(sections) \in Nat /\ DOMAIN sections = 1..Len(sections) /\ next \in Nat
  BY IsSeqDomain DEF TypeInv, SectionsTyped
<1>7. p # Len(sections)
  BY <1>1, <1>3, <1>6
\* The labels: all but the end label of p stay.
<1>8. ASSUME NEW l \in DOMAIN labels
      PROVE  /\ SameLabel(l)
             /\ (p \in DOMAIN sizeLabel => l # sizeLabel[p]) => labels'[l].at = labels[l].at
             /\ p \in DOMAIN sizeLabel /\ l = sizeLabel[p] => labels'[l].at = sections[p].size + d
  <2>1. DOMAIN labels[l] = {"name", "sec", "at"}
    BY DEF TypeInv, LabelsTyped
  <2>2. CASE p \in DOMAIN sizeLabel
    <3>1. PICK k : k = sizeLabel[p]
      OBVIOUS
    <3>2. PICK v : v = sections[p].size + d
      OBVIOUS
    <3>3. labels' = [labels EXCEPT ![k].at = v]
      BY <2>2, <3>1, <3>2, <1>3
    <3>4. l = k => labels'[l] = [labels[l] EXCEPT !.at = v]
      BY <3>3
    <3>5. l # k => labels'[l] = labels[l]
      BY <3>3
    <3>6. SameLabel(l) /\ (l # k => labels'[l].at = labels[l].at) /\ (l = k => labels'[l].at = v)
      BY <2>1, <3>4, <3>5 DEF SameLabel
    <3> QED
      BY <2>2, <3>1, <3>2, <3>6
  <2>3. CASE p \notin DOMAIN sizeLabel
    BY <2>3, <1>3 DEF SameLabel
  <2> QED
    BY <2>2, <2>3
<1>9. ASSUME NEW l \in DOMAIN labels
      PROVE  labels'[l].at = labels[l].at \/
             (labels'[l].at >= labels[l].at /\ labels'[l].at \in Int /\ Moves(l) /\ labels[l].sec # Len(sections))
  <2>1. CASE p \in DOMAIN sizeLabel => l # sizeLabel[p]
    BY <2>1, <1>8
  <2>2. CASE p \in DOMAIN sizeLabel /\ l = sizeLabel[p]
    <3>1. /\ sections[p].size \in Nat /\ labels[l].sec = p
          /\ labels[l].at \in Int /\ sections[p].size >= labels[l].at
      BY <2>2, <1>3, EndsAre
    <3>2. labels'[l].at = sections[p].size + d
      BY <2>2, <1>8
    <3>3. Moves(l)
      BY <2>2, <3>1 DEF Moves
    <3> QED
      BY <3>1, <3>2, <3>3, <1>3, <1>7
  <2> QED
    BY <2>1, <2>2
\* The end labels: the one of p is at the end now, the others stay.
<1>10. ASSUME NEW s \in DOMAIN sizeLabel
       PROVE  /\ s \in DOMAIN sections /\ s \in Nat /\ sections'[s].size >= labels'[sizeLabel[s]].at
              /\ s = p => labels'[sizeLabel[s]].at = sections'[s].size
              /\ s # p => labels'[sizeLabel[s]].at = labels[sizeLabel[s]].at /\ sections'[s].size = sections[s].size
  <2>1. PICK l : l = sizeLabel[s]
    OBVIOUS
  <2>2. /\ s \in DOMAIN sections /\ IsText(sections[s].name) /\ sections[s].size \in Nat
        /\ l \in DOMAIN labels /\ labels[l].sec = s
        /\ labels[l].at \in Int /\ sections[s].size >= labels[l].at
    BY <2>1, <1>3, EndsAre
  <2>3. s \in Nat
    BY <2>2, <1>6
  <2>4. CASE s = p
    BY <2>1, <2>2, <2>4, <1>3, <1>8, <2>3
  <2>5. CASE s # p
    BY <1>3, EndsAre, <2>2, <2>5, <1>8, <2>1, <2>3
  <2> QED
    BY <2>4, <2>5
<1>11. SymbolsFrom(Len(src.lines))' /\ PlacesFrom(Len(src.lines))' /\ LinesInOrder' /\ EndsInside' /\ AllMarked'
  BY <1>3, <1>4, <1>5, <1>8, <1>9, <1>10, MarksKept
<1>12. FilledTo(next - 1)'
  <2> SUFFICES ASSUME NEW s \in DOMAIN sizeLabel, s < next PROVE labels'[sizeLabel[s]].at = sections'[s].size
    <3>1. (next - 1)' = next
      BY <1>4, <1>6
    <3> QED
      BY <3>1, <1>4 DEF FilledTo
  <2>1. CASE s = p
    BY <2>1, <1>10
  <2>2. CASE s # p
    BY <2>2, <1>1, <1>6, <1>10, <1>3 DEF CoverInv, FilledTo
  <2> QED
    BY <2>1, <2>2
<1>13. IsSymtab'
  BY <1>4 DEF CoverInv, IsSymtab, LayoutSection
<1> QED
  BY <1>4, <1>11, <1>12, <1>13 DEF CoverInv

\* The value of a difference of labels.
LEMMA DifferenceIs ==
  ASSUME NEW e, e.op = "-", e.b # NoName, HasLabel(e.a), HasLabel(e.b)
  PROVE  Value(e) = LabelAt(e.a).at + (-LabelAt(e.b).at)
<1>1. e.op # "" /\ e.op # "+" /\ e.b # ""
  BY Zenon DEF NoName
<1>2. Addend(e) = -Second(e)
  BY <1>1, Zenon DEF Addend
<1>3. Second(e) = VarValue(e.b)
  BY <1>1, Zenon DEF Second
<1> QED
  BY <1>2, <1>3, Zenon DEF Value, VarValue

\* The line that defines a label.
LEMMA LabelOfLine ==
  ASSUME TypeInv, LandInv, CoverInv, stage \notin {"scan", "failed"}, NEW s \in DOMAIN sections,
         NEW j \in 1..Len(src.lines), NEW x, x # NoName, LabelIn(sections[s].line, j, x)
  PROVE  /\ HasLabel(x) /\ LabelLine(x) = j
         /\ \E l \in DOMAIN labels : labels[l].name = x /\ labels[l].sec = s /\ LabelAt(x) = labels[l] /\ Defines(j, l)
<1>1. PICK N \in Nat : N = Len(src.lines) /\ DOMAIN src.lines = 1..N
  BY LinesTyped
<1>2. SectionsFrom(N) /\ LabelsFrom(N) /\ PlacesFrom(N) /\ j \in 1..N
  BY <1>1 DEF LandInv, CoverInv
<1>3. src.lines[j].op = "label" /\ src.lines[j].name = x /\ Within(sections[s].line, j)
  BY DEF LabelIn
<1>4. HasLabel(x)
  BY <1>2, <1>3 DEF LabelsFrom
<1>5. PICK l \in DOMAIN labels : labels[l].name = x
  BY <1>4 DEF HasLabel
<1>6. LabelAt(x) = labels[l]
  <2>1. \A k \in DOMAIN labels : labels[k].name = x => k = l
    BY <1>2, <1>5 DEF LabelsFrom
  <2> QED
    BY <2>1, <1>5 DEF LabelAt
<1>7. PICK i \in 1..N : Defines(i, l)
  BY <1>2, <1>5 DEF PlacesFrom
<1>8. i = j
  BY <1>2, <1>3, <1>5, <1>7 DEF LabelsFrom, Defines
<1>9. labels[l].sec = s
  BY <1>2, <1>7, <1>8, <1>3, OneSection DEF Defines, LabelsFrom
<1>10. LabelLine(x) = j
  BY <1>1, <1>2, <1>3 DEF LabelsFrom, LabelLine
<1> QED
  BY <1>4, <1>5, <1>6, <1>7, <1>8, <1>9, <1>10

\* What the size of a kernel comes to once its section is laid out.
LEMMA KernelIsCovered ==
  ASSUME TypeInv, LandInv, CoverInv, stage = "symtab", CodeOnly, KernelsSized, NEW x \in DOMAIN symbols,
         NEW s \in DOMAIN sections, sections[s].name = <<".text", x>>, NEW n, n = Before(s, LabelLine(symbols[x].a))
  PROVE  /\ LabelAt(x).at = 0
         /\ Value(symbols[x]) >= Offset(n - 1) + Unit
         /\ s < Len(sections) => Value(symbols[x]) = sections[s].size
<1>1. PICK N \in Nat : N = Len(src.lines)
  BY LinesTyped
<1>2. /\ SectionsFrom(N) /\ LabelsFrom(N) /\ SymbolsFrom(N) /\ LinesInOrder /\ EndsInside /\ AllMarked
      /\ FilledTo(Len(sections))
  BY <1>1 DEF LandInv, CoverInv
<1>3. PICK a \in 1..N : a = sections[s].line /\ src.lines[a].op = "section" /\ src.lines[a].name = <<".text", x>>
  BY <1>2 DEF SectionsFrom
<1>4. PICK i \in 1..N : src.lines[i].op = "size" /\ src.lines[i].name = x /\ src.lines[i].expr = symbols[x]
  BY <1>2 DEF SymbolsFrom
<1>5. PICK e : e = symbols[x]
  OBVIOUS
<1>6. /\ e.op = "-" /\ e.b = x /\ e.a # e.b /\ e.a # NoName /\ e.b # NoName
      /\ \E j \in 1..N : LabelIn(a, j, x) /\ \A m \in a..(j - 1) : src.lines[m].op # "code"
      /\ \E j \in 1..N : LabelIn(a, j, e.a) /\ (NoneBehind(a, j) \/ IsLast(a))
  <2>1. a \in 1..Len(src.lines) /\ i \in 1..Len(src.lines)
    BY <1>1
  <2>2. src.lines[a].op = "section" /\ src.lines[i].op = "size" /\ src.lines[a].name = <<".text", src.lines[i].name>>
    BY <1>3, <1>4
  <2>3. /\ src.lines[i].expr.op = "-" /\ src.lines[i].expr.b = src.lines[i].name
        /\ src.lines[i].expr.a # src.lines[i].expr.b /\ src.lines[i].expr.a # NoName /\ src.lines[i].expr.b # NoName
        /\ \E j \in 1..Len(src.lines) : /\ LabelIn(a, j, src.lines[i].expr.b)
                                       /\ \A m \in a..(j - 1) : src.lines[m].op # "code"
        /\ \E j \in 1..Len(src.lines) : LabelIn(a, j, src.lines[i].expr.a) /\ (NoneBehind(a, j) \/ IsLast(a))
    BY <2>1, <2>2, Zenon DEF KernelsSized
  <2>4. src.lines[i].expr = e /\ src.lines[i].name = x
    BY <1>4, <1>5
  <2>5. e.b = x
    BY <2>3, <2>4
  <2>6. \E j \in 1..N : LabelIn(a, j, x) /\ \A m \in a..(j - 1) : src.lines[m].op # "code"
    BY <2>3, <2>4, <2>5, <1>1, Zenon
  <2>7. \E j \in 1..N : LabelIn(a, j, e.a) /\ (NoneBehind(a, j) \/ IsLast(a))
    BY <2>3, <2>4, <1>1, Zenon
  <2> QED
    BY <2>3, <2>4, <2>5, <2>6, <2>7
<1>7. PICK j0 \in 1..N : LabelIn(a, j0, x) /\ \A m \in a..(j0 - 1) : src.lines[m].op # "code"
  BY <1>6
<1>8. PICK j1 \in 1..N : LabelIn(a, j1, e.a) /\ (NoneBehind(a, j1) \/ IsLast(a))
  BY <1>6
<1>9. PICK l0 \in DOMAIN labels : labels[l0].name = x /\ labels[l0].sec = s /\ LabelAt(x) = labels[l0] /\ Defines(j0, l0)
  <2>1. x # NoName /\ j0 \in 1..Len(src.lines) /\ LabelIn(sections[s].line, j0, x)
    BY <1>1, <1>3, <1>6, <1>7
  <2> QED
    BY <2>1, LabelOfLine
<1>9a. PICK y : y = e.a
  OBVIOUS
<1>9b. y # NoName /\ j1 \in 1..Len(src.lines) /\ LabelIn(sections[s].line, j1, y)
  BY <1>1, <1>3, <1>6, <1>8, <1>9a
<1>10. PICK l1 \in DOMAIN labels : labels[l1].name = y /\ labels[l1].sec = s /\ LabelAt(y) = labels[l1] /\ Defines(j1, l1)
  BY <1>9b, LabelOfLine
<1>11. HasLabel(x) /\ HasLabel(e.a) /\ n = Before(s, j1)
  <2>1. HasLabel(y) /\ LabelLine(y) = j1
    BY <1>9b, LabelOfLine
  <2>2. HasLabel(x)
    BY <1>9 DEF HasLabel
  <2>3. LabelLine(symbols[x].a) = j1
    BY <2>1, <1>5, <1>9a
  <2> QED
    BY <2>1, <2>2, <2>3, <1>9a
<1>12. IsText(sections[s].name)
  BY DEF IsText
<1>13. Marked(j0, l0) /\ Marked(j1, l1)
  <2>1. InCode(l0) /\ InCode(l1)
    BY <1>6, <1>9, <1>10, <1>12, <1>9b DEF InCode
  <2> QED
    BY <2>1, <1>1, <1>2, <1>9, <1>10 DEF AllMarked
<1>14. labels[l0].at \in Int /\ labels[l1].at \in Int
  BY DEF TypeInv, LabelsTyped
\* If a section follows, the end of the kernel is the end of its section.
<1>15. IsLast(a) => ~(s < Len(sections))
  <2> SUFFICES ASSUME IsLast(a), s < Len(sections) PROVE FALSE
    OBVIOUS
  <2>1. Len(sections) \in DOMAIN sections
    BY IsSeqDomain DEF TypeInv, SectionsTyped
  <2>2. PICK b \in 1..N : b = sections[Len(sections)].line /\ src.lines[b].op = "section"
    BY <2>1, <1>2 DEF SectionsFrom
  <2>3. a < b
    BY <2>1, <2>2, <1>2, <1>3 DEF LinesInOrder
  <2>4. b \in (a + 1)..Len(src.lines)
    BY <2>2, <2>3, <1>1
  <2> QED
    BY <2>2, <2>4 DEF IsLast
<1>16. s < Len(sections) => Moves(l1)
  BY <1>3, <1>8, <1>10, <1>13, <1>15 DEF Marked
<1>17. s < Len(sections) => labels[l1].at = sections[s].size
  BY <1>2, <1>10, <1>16 DEF Moves, FilledTo
\* The kernel begins at its label.
<1>18. labels[l0].at = 0
  <2>1. Before(s, j0) = 0
    <3>1. a \in Nat /\ j0 \in Nat /\ a <= j0
      BY <1>7 DEF LabelIn, Within
    <3>2. Before(s, j0) = Before(s, a)
      BY <3>1, <1>3, <1>7, NoneBetween
    <3>3. Before(s, sections[s].line) = 0
      BY <3>1, <1>3, BeforeIs
    <3> QED
      BY <3>2, <3>3, <1>3
  <2>2. ASSUME Moves(l0) PROVE s = Len(sections)
    <3>1. ~(s < Len(sections))
      <4> SUFFICES ASSUME s < Len(sections) PROVE FALSE
        OBVIOUS
      <4>1. l0 = l1
        BY <2>2, <1>9, <1>10, <1>16 DEF Moves
      <4> QED
        BY <4>1, <1>6, <1>9, <1>10, <1>9a
    <3>2. s \in 1..Len(sections) /\ Len(sections) \in Nat
      BY IsSeqDomain DEF TypeInv, SectionsTyped
    <3> QED
      BY <3>1, <3>2
  <2> QED
    BY <2>1, <2>2, <1>9, <1>13 DEF Marked
<1>19. labels[l1].at >= Offset(n - 1) + Unit
  <2>1. n \in Nat
    BY <1>3, <1>11, BeforeIs
  <2>2. CodeEnd(n) \in Nat /\ Offset(n - 1) + Unit = CodeEnd(n)
    BY <2>1, CodeEndIs
  <2>3. labels[l1].at >= CodeEnd(n)
    BY <1>10, <1>11, <1>13 DEF Marked
  <2> QED
    BY <2>2, <2>3
<1>20. Value(e) = labels[l1].at
  <2>1. Value(e) = LabelAt(e.a).at + (-LabelAt(e.b).at)
    BY <1>6, <1>11, DifferenceIs
  <2>2. LabelAt(e.a).at = labels[l1].at /\ LabelAt(e.b).at = 0
    BY <1>6, <1>9, <1>10, <1>18, <1>9a
  <2>3. labels[l1].at + (-0) = labels[l1].at
    BY <1>14
  <2> QED
    BY <2>1, <2>2, <2>3
<1> QED
  BY <1>5, <1>9, <1>17, <1>18, <1>19, <1>20

\* The symbol table: nothing else changes.
LEMMA SymtabCovers ==
  ASSUME TypeInv, LandInv, CoverInv, UpdateSymtab
  PROVE  CoverInv'
<1>1. stage = "symtab" /\ stage' = "save" /\ UNCHANGED <<src, sections, labels, symbols, sizeLabel>>
  BY GoesOn DEF UpdateSymtab, scanned
<1>2. symtab' = [k \in DOMAIN symtab |->
        IF Sized(symtab[k].name)
        THEN [symtab[k] EXCEPT !.value = LabelAt(symtab[k].name).at, !.size = Value(symbols[symtab[k].name])]
        ELSE symtab[k]]
  BY DEF UpdateSymtab
<1>3. \A k \in DOMAIN symtab : DOMAIN symtab[k] = {"name", "value", "size"}
  BY <1>1 DEF CoverInv, IsSymtab
<1>4. ASSUME NEW k \in DOMAIN symtab
      PROVE  /\ DOMAIN symtab'[k] = {"name", "value", "size"} /\ symtab'[k].name = symtab[k].name
             /\ Sized(symtab[k].name) =>
                  symtab'[k].value = LabelAt(symtab[k].name).at /\ symtab'[k].size = Value(symbols[symtab[k].name])
  <2>1. PICK t : t = symtab[k]
    OBVIOUS
  <2>2. PICK v : v = LabelAt(t.name).at
    OBVIOUS
  <2>3. PICK z : z = Value(symbols[t.name])
    OBVIOUS
  <2>4. symtab'[k] = IF Sized(t.name) THEN [t EXCEPT !.value = v, !.size = z] ELSE t
    BY <1>2, <2>1, <2>2, <2>3
  <2>5. DOMAIN t = {"name", "value", "size"}
    BY <1>3, <2>1
  <2>6. /\ DOMAIN symtab'[k] = {"name", "value", "size"} /\ symtab'[k].name = t.name
        /\ Sized(t.name) => symtab'[k].value = v /\ symtab'[k].size = z
    BY <2>4, <2>5
  <2> QED
    BY <2>1, <2>2, <2>3, <2>6
<1>5. IsSymtab'
  BY <1>2, <1>4 DEF IsSymtab
<1>6. ASSUME CodeOnly', KernelsSized' PROVE Covered'
  <2> SUFFICES ASSUME NEW k \in DOMAIN symtab', Sized(symtab[k].name)', HasSection(<<".text", symtab[k].name>>)'
               PROVE  /\ symtab'[k].value = 0
                      /\ (symtab[k].size >= Offset(Before(SectionOf(<<".text", symtab[k].name>>),
                                                          LabelLine(symbols[symtab[k].name].a)) - 1) + Unit)'
                      /\ (SectionOf(<<".text", symtab[k].name>>) < Len(sections) =>
                             symtab[k].size = sections[SectionOf(<<".text", symtab[k].name>>)].size)'
    BY DEF Covered
  <2>1. CodeOnly /\ KernelsSized
    BY <1>1, <1>6, LinesSame, BehindSame
  <2>2. PICK x : x = symtab[k].name
    OBVIOUS
  <2>3. k \in DOMAIN symtab /\ symtab'[k].name = x
    BY <1>2, <1>4, <2>2
  <2>4. Sized(x) /\ HasSection(<<".text", x>>)
    BY <2>3, <1>1 DEF Sized, HasLabel, HasSection
  <2>5. PICK s : s = SectionOf(<<".text", x>>)
    OBVIOUS
  <2>6. s \in DOMAIN sections /\ sections[s].name = <<".text", x>>
    BY <2>4, <2>5, SectionIs
  <2>7. PICK n : n = Before(s, LabelLine(symbols[x].a))
    OBVIOUS
  <2>8. /\ LabelAt(x).at = 0 /\ Value(symbols[x]) >= Offset(n - 1) + Unit
        /\ s < Len(sections) => Value(symbols[x]) = sections[s].size
    BY <2>1, <2>4, <2>6, <2>7, <1>1, KernelIsCovered DEF Sized
  <2>9. symtab'[k].value = LabelAt(x).at /\ symtab'[k].size = Value(symbols[x])
    BY <2>2, <2>3, <2>4, <1>4
  <2>10. SectionOf(<<".text", symtab[k].name>>)' = s
    BY <2>3, <2>5, <1>1 DEF SectionOf
  <2>11. Before(SectionOf(<<".text", symtab[k].name>>), LabelLine(symbols[symtab[k].name].a))' = n
    <3>1. PICK i : i = LabelLine(symbols[x].a)
      OBVIOUS
    <3>2. LabelLine(symbols[symtab[k].name].a)' = i
      BY <3>1, <2>3, <1>1 DEF LabelLine
    <3> QED
      BY <3>1, <3>2, <2>7, <2>10, <1>1 DEF Before
  <2>12. Offset(Before(SectionOf(<<".text", symtab[k].name>>), LabelLine(symbols[symtab[k].name].a)) - 1)'
           = Offset(n - 1) /\ Unit' = Unit
    BY <2>11, <1>1 DEF Offset, Unit
  <2>13. (SectionOf(<<".text", symtab[k].name>>) < Len(sections))' <=> s < Len(sections)
    BY <2>10, <1>1
  <2>14. (sections[SectionOf(<<".text", symtab[k].name>>)].size)' = sections[s].size
    BY <2>10, <1>1
  <2> QED
    BY <2>8, <2>9, <2>12, <2>13, <2>14
<1> QED
  BY <1>1, <1>5, <1>6, IdleMarks DEF CoverInv

LEMMA CoveredSame ==
  ASSUME UNCHANGED <<src, sections, labels, symbols, symtab>>
  PROVE  Covered => Covered'
<1> SUFFICES ASSUME Covered, NEW k \in DOMAIN symtab', Sized(symtab[k].name)', HasSection(<<".text", symtab[k].name>>)'
             PROVE  /\ symtab'[k].value = 0
                    /\ (symtab[k].size >= Offset(Before(SectionOf(<<".text", symtab[k].name>>),
                                                        LabelLine(symbols[symtab[k].name].a)) - 1) + Unit)'
                    /\ (SectionOf(<<".text", symtab[k].name>>) < Len(sections) =>
                           symtab[k].size = sections[SectionOf(<<".text", symtab[k].name>>)].size)'
  BY DEF Covered
<1>1. PICK x : x = symtab[k].name
  OBVIOUS
<1>2. k \in DOMAIN symtab /\ symtab'[k] = symtab[k] /\ Sized(x) /\ HasSection(<<".text", x>>)
  BY <1>1 DEF Sized, HasLabel, HasSection
<1>3. PICK s : s = SectionOf(<<".text", x>>)
  OBVIOUS
<1>4. PICK n : n = Before(s, LabelLine(symbols[x].a))
  OBVIOUS
<1>5. /\ symtab[k].value = 0 /\ symtab[k].size >= Offset(n - 1) + Unit
      /\ s < Len(sections) => symtab[k].size = sections[s].size
  BY <1>1, <1>2, <1>3, <1>4 DEF Covered
<1>6. SectionOf(<<".text", symtab[k].name>>)' = s
  BY <1>1, <1>3 DEF SectionOf
<1>7. Before(SectionOf(<<".text", symtab[k].name>>), LabelLine(symbols[symtab[k].name].a))' = n
  <2>1. PICK i : i = LabelLine(symbols[x].a)
    OBVIOUS
  <2>2. LabelLine(symbols[symtab[k].name].a)' = i
    BY <1>1, <2>1 DEF LabelLine
  <2> QED
    BY <1>4, <1>6, <2>1, <2>2 DEF Before
<1>8. Offset(Before(SectionOf(<<".text", symtab[k].name>>), LabelLine(symbols[symtab[k].name].a)) - 1)'
         = Offset(n - 1) /\ Unit' = Unit
  BY <1>7 DEF Offset, Unit
<1> QED
  BY <1>2, <1>5, <1>6, <1>8

\* The other steps.
LEMMA SaveCovers ==
  ASSUME TypeInv, LandInv, CoverInv, Save
  PROVE  CoverInv'
<1>1. stage = "save" /\ stage' = "done" /\ UNCHANGED <<src, sections, labels, symbols, sizeLabel, symtab>>
  BY GoesOn DEF Save, scanned, tables
<1>2. SymbolsFrom(Len(src.lines))' /\ PlacesFrom(Len(src.lines))' /\ LinesInOrder' /\ EndsInside' /\ AllMarked'
  BY <1>1, IdleMarks
<1>3. IsSymtab'
  BY <1>1 DEF CoverInv, IsSymtab
<1>4. Covered => Covered'
  BY <1>1, CoveredSame
<1>5. CodeOnly' /\ KernelsSized' => CodeOnly /\ KernelsSized
  BY <1>1, LinesSame, BehindSame
<1> QED
  BY <1>1, <1>2, <1>3, <1>4, <1>5 DEF CoverInv

LEMMA FailCovers ==
  ASSUME CoverInv, Throw
  PROVE  CoverInv'
<1>1. stage' = "failed" /\ src' = src /\ sections' = sections
  BY ThrowFails DEF Fail
<1>2. LinesInOrder'
  BY <1>1 DEF CoverInv, LinesInOrder
<1> QED
  BY <1>1, <1>2 DEF CoverInv

LEMMA InitCovers ==
  ASSUME Init
  PROVE  CoverInv
<1>1. DOMAIN sections = {} /\ DOMAIN labels = {} /\ DOMAIN symbols = {}
  BY NoneIsSeq DEF Init
<1>2. stage = "scan" /\ next - 1 = 0
  BY DEF Init
<1>3. SizesFrom(0) /\ SymbolsFrom(0) /\ PlacesFrom(0) /\ OrderFrom(0) /\ LinesInOrder
  BY <1>1 DEF SizesFrom, SymbolsFrom, PlacesFrom, OrderFrom, LinesInOrder
<1> QED
  BY <1>2, <1>3 DEF CoverInv

LEMMA ParseCovers ==
  ASSUME Parse
  PROVE  CoverInv'
<1>1. PICK f \in Again : Restart(f)
  BY DEF Parse
<1>2. DOMAIN sections' = {} /\ DOMAIN labels' = {} /\ DOMAIN symbols' = {}
  BY <1>1, NoneIsSeq DEF Restart
<1>3. stage' = "scan" /\ next' - 1 = 0
  BY <1>1 DEF Restart
<1>4. SizesFrom(0)' /\ SymbolsFrom(0)' /\ PlacesFrom(0)' /\ OrderFrom(0)' /\ LinesInOrder'
  BY <1>2 DEF SizesFrom, SymbolsFrom, PlacesFrom, OrderFrom, LinesInOrder
<1>5. /\ SizesFrom(next - 1)' <=> SizesFrom(0)'
      /\ SymbolsFrom(next - 1)' <=> SymbolsFrom(0)'
      /\ PlacesFrom(next - 1)' <=> PlacesFrom(0)'
      /\ OrderFrom(next - 1)' <=> OrderFrom(0)'
  BY <1>3 DEF SizesFrom, SymbolsFrom, PlacesFrom, OrderFrom
<1> QED
  BY <1>3, <1>4, <1>5 DEF CoverInv

LEMMA StutterCovers ==
  ASSUME TypeInv, LandInv, CoverInv, UNCHANGED vars
  PROVE  CoverInv'
<1>1. /\ src' = src /\ stage' = stage /\ next' = next /\ sections' = sections /\ symbols' = symbols
      /\ labels' = labels /\ sizeLabel' = sizeLabel /\ symtab' = symtab
  BY DEF vars, scanned, tables
<1>2. SameLines /\ (\A l \in DOMAIN labels : SameLabel(l)) /\ LinesInOrder'
  <2>1. SameLines
    BY <1>1, UnchangedWorked, WorkedLines
  <2>2. \A l \in DOMAIN labels : SameLabel(l)
    BY <1>1 DEF SameLabel
  <2>3. LinesInOrder'
    BY <1>1 DEF CoverInv, LinesInOrder
  <2> QED
    BY <2>1, <2>2, <2>3
<1>3. \A l \in DOMAIN labels : stage # "failed" => labels[l].sec \in DOMAIN sections
  <2>1. CASE stage = "scan"
    BY <2>1 DEF LandInv, LabelsFrom
  <2>2. CASE stage \notin {"scan", "failed"}
    BY <2>2 DEF LandInv, LabelsFrom
  <2> QED
    BY <2>1, <2>2
<1>4. PICK n \in Nat, N \in Nat : n = next - 1 /\ N = Len(src.lines)
  BY LinesTyped DEF TypeInv
<1>5. (next - 1)' = n /\ Len(src.lines)' = N
  BY <1>1, <1>4
<1>6. ASSUME stage # "failed", NEW m \in Nat
      PROVE  /\ (PlacesFrom(m) => PlacesFrom(m)') /\ (OrderFrom(m) => OrderFrom(m)')
             /\ (SizesFrom(m) => SizesFrom(m)') /\ (SymbolsFrom(m) => SymbolsFrom(m)')
  BY <1>1, <1>2, <1>3, <1>6, PlacesKept, OrderKept, SizesKept, SymbolsKept
<1>7. CASE stage \in {"scan", "gather"}
  <2>1. /\ stage = "scan" => SizesFrom(n) /\ SymbolsFrom(n) /\ PlacesFrom(n) /\ OrderFrom(n)
        /\ stage = "gather" => SizesFrom(N) /\ SymbolsFrom(N) /\ PlacesFrom(N) /\ OrderFrom(N)
    BY <1>4 DEF CoverInv
  <2>2. /\ stage = "scan" => SizesFrom(n)' /\ SymbolsFrom(n)' /\ PlacesFrom(n)' /\ OrderFrom(n)'
        /\ stage = "gather" => SizesFrom(N)' /\ SymbolsFrom(N)' /\ PlacesFrom(N)' /\ OrderFrom(N)'
    BY <1>6, <1>7, <2>1
  <2>3. /\ stage = "scan" => SizesFrom(next - 1)' /\ SymbolsFrom(next - 1)' /\ PlacesFrom(next - 1)' /\ OrderFrom(next - 1)'
        /\ stage = "gather" => /\ SizesFrom(Len(src.lines))' /\ SymbolsFrom(Len(src.lines))'
                               /\ PlacesFrom(Len(src.lines))' /\ OrderFrom(Len(src.lines))'
    BY <2>2, <1>5 DEF SizesFrom, SymbolsFrom, PlacesFrom, OrderFrom
  <2> QED
    BY <1>1, <1>2, <1>7, <2>3 DEF CoverInv
<1>8. CASE stage = "failed"
  BY <1>1, <1>2, <1>8 DEF CoverInv
<1>9. CASE stage \notin {"scan", "gather", "failed"}
  <2>1. /\ SymbolsFrom(Len(src.lines))' /\ PlacesFrom(Len(src.lines))' /\ EndsInside' /\ AllMarked'
        /\ \A m : FilledTo(m)' <=> FilledTo(m)
    BY <1>1, <1>9, IdleMarks
  <2>2. FilledTo(next - 1) => FilledTo(next - 1)'
    BY <1>1 DEF FilledTo
  <2>3. FilledTo(Len(sections)) => FilledTo(Len(sections))'
    BY <1>1 DEF FilledTo
  <2>4. IsSymtab => IsSymtab'
    BY <1>1 DEF IsSymtab
  <2>5. Covered => Covered'
    BY <1>1, CoveredSame
  <2>6. CodeOnly' /\ KernelsSized' => CodeOnly /\ KernelsSized
    BY <1>1, LinesSame, BehindSame
  <2> QED
    BY <1>1, <1>2, <1>9, <2>1, <2>2, <2>3, <2>4, <2>5, <2>6 DEF CoverInv
<1> QED
  BY <1>7, <1>8, <1>9

LEMMA NextCovers ==
  ASSUME TypeInv, LandInv, CoverInv, [Next]_vars
  PROVE  CoverInv'
<1>1. CASE Scan
  BY <1>1, SectionCovers, DirectiveCovers, LabelCovers, CodeCovers, SizeCovers, ScanEndCovers DEF Scan
<1>2. CASE Evaluate
  BY <1>2, GatherCovers, TablesCover, FixupCovers, IdleCovers DEF Evaluate
<1>3. CASE Kernels
  BY <1>3, KernelCovers, IdleCovers, CountsCover DEF Kernels
<1>4. CASE BuildRelocations
  BY <1>4, RelocationsCover
<1>5. CASE Layout
  BY <1>5, FirstCovers, LayoutCovers, SkipCovers, LayoutEndCovers, SegmentsCovered DEF Layout
<1>6. CASE UpdateSymtab \/ Save
  BY <1>6, SymtabCovers, SaveCovers
<1>7. CASE Throw
  BY <1>7, FailCovers
<1>8. CASE Parse
  BY <1>8, ParseCovers
<1>9. CASE UNCHANGED vars
  BY <1>9, StutterCovers
<1> QED
  BY <1>1, <1>2, <1>3, <1>4, <1>5, <1>6, <1>7, <1>8, <1>9 DEF Next, Work

\* Of every file whose text sections hold instructions only, and whose .size of
\* a kernel is that from its label, at the start of its section, to a label
\* behind everything in it (any label, where no section follows): the symbol is
\* of value 0, and of the size up to that label, the section's with its padding
\* where a section follows.  That is the work of four passes: the scan takes down
\* .size (dirSize), gatherTextSectionSizeLabel picks the label at the end of a
\* section, the layout moves it with the padding (updateSectionPadding), and
\* updateSymtab evaluates the .size.
THEOREM SymbolsCover == Spec => [](CodeOnly /\ KernelsSized => SymbolsCoverKernels)
<1>1. ASSUME Init PROVE TypeInv /\ LandInv /\ CoverInv
  BY <1>1, InitTyped, InitLands, InitCovers
<1>2. ASSUME TypeInv /\ LandInv /\ CoverInv, [Next]_vars PROVE (TypeInv /\ LandInv /\ CoverInv)'
  BY <1>2, NextTyped, NextLands, NextCovers
<1>3. ASSUME TypeInv /\ LandInv /\ CoverInv PROVE CodeOnly /\ KernelsSized => SymbolsCoverKernels
  <2> SUFFICES ASSUME CodeOnly, KernelsSized, stage = "done" PROVE Covered
    BY DEF Covered, SymbolsCoverKernels
  <2> QED
    BY <1>3 DEF CoverInv
<1> QED
  BY <1>1, <1>2, <1>3, PTL DEF Spec

-----------------------------------------------------------------------------
(* The relocations.                                                        *)

\* The numbers of a set in their order: each is there once.
LEMMA InOrderOnce ==
  ASSUME NEW T \in SUBSET Nat, IsFiniteSet(T)
  PROVE  /\ \A k, m \in DOMAIN InOrder(T) : InOrder(T)[k] = InOrder(T)[m] => k = m
         /\ \A i \in T : \E k \in DOMAIN InOrder(T) : InOrder(T)[k] = i
<1> DEFINE q == InOrder(T)
           n == Cardinality(T)
<1>1. n \in Nat /\ DOMAIN q = 1..n /\ \A k \in 1..n : q[k] \in T
  BY InOrderIn
<1>2. ASSUME NEW k \in 1..n PROVE Cardinality(Below(T, q[k])) = k - 1
  BY EveryExists DEF InOrder, Below, HasNth
<1>3. \A i \in T : Below(T, i) \in SUBSET T /\ IsFiniteSet(Below(T, i)) /\ Cardinality(Below(T, i)) \in Nat
  BY FS_Subset, FS_CardinalityType DEF Below
<1>4. ASSUME NEW i \in T, NEW j \in T, i < j PROVE Cardinality(Below(T, i)) < Cardinality(Below(T, j))
  <2>1. i \notin Below(T, i) /\ Below(T, i) \cup {i} \subseteq Below(T, j)
    <3>1. i \in Nat /\ j \in Nat /\ i \notin Below(T, i)
      BY DEF Below
    <3>2. \A x \in Below(T, i) \cup {i} : x \in T /\ x < j
      <4> SUFFICES ASSUME NEW x \in T, x < i \/ x = i PROVE x < j
        BY DEF Below
      <4>1. x \in Nat
        OBVIOUS
      <4> QED
        BY <4>1, <3>1, <1>4
    <3> QED
      BY <3>1, <3>2 DEF Below
  <2>2. Cardinality(Below(T, i) \cup {i}) = Cardinality(Below(T, i)) + 1
    BY <1>3, <2>1, FS_AddElement
  <2>3. Cardinality(Below(T, i) \cup {i}) <= Cardinality(Below(T, j))
    BY <1>3, <2>1, FS_Subset
  <2> QED
    BY <1>3, <2>2, <2>3
<1> HIDE DEF q
<1>5. \A k, m \in 1..n : q[k] = q[m] => k = m
  <2> SUFFICES ASSUME NEW k \in 1..n, NEW m \in 1..n, q[k] = q[m] PROVE k = m
    OBVIOUS
  <2>1. k - 1 = m - 1
    BY <1>2
  <2> QED
    BY <2>1
<1>6. ASSUME NEW i \in T PROVE \E k \in 1..n : q[k] = i
  <2> DEFINE c == Cardinality(Below(T, i))
  <2>1. c \in Nat /\ c < n
    BY <1>3, FS_AddElement, FS_Subset, <1>1 DEF Below
  <2>2. c + 1 \in 1..n /\ (c + 1) - 1 = c
    BY <1>1, <2>1
  <2>3. PICK j \in T : j = q[c + 1]
    BY <1>1, <2>2
  <2>4. Cardinality(Below(T, j)) = c
    <3> HIDE DEF c
    <3> QED
      BY <1>2, <2>2, <2>3
  <2>5. ~(i < j) /\ ~(j < i)
    BY <1>4, <2>1, <2>4
  <2>6. i = j
    BY <2>5
  <2> QED
    BY <2>2, <2>3, <2>6
<1> QED
  BY <1>1, <1>5, <1>6 DEF q

\* So are the elements of a sequence at some places.
LEMMA ElementsAtIs ==
  ASSUME NEW s, NEW T \in SUBSET Nat, IsFiniteSet(T)
  PROVE  /\ IsSeq(ElementsAt(s, T)) /\ DOMAIN ElementsAt(s, T) = DOMAIN InOrder(T)
         /\ \A k \in DOMAIN InOrder(T) : ElementsAt(s, T)[k] = s[InOrder(T)[k]] /\ InOrder(T)[k] \in T
         /\ \A i \in T : \E k \in DOMAIN InOrder(T) : InOrder(T)[k] = i
         /\ \A k, m \in DOMAIN InOrder(T) : InOrder(T)[k] = InOrder(T)[m] => k = m
<1>1. ElementsAt(s, T) = [k \in DOMAIN InOrder(T) |-> s[InOrder(T)[k]]]
  BY DEF ElementsAt
<1>2. IsSeq(ElementsAt(s, T))
  BY ElementsAtType, SeqIsSeq
<1>3. \A k \in DOMAIN InOrder(T) : InOrder(T)[k] \in T
  BY InOrderIn
<1> QED
  BY <1>1, <1>2, <1>3, InOrderOnce

LEMMA ReverseIs ==
  ASSUME NEW s, IsSeq(s)
  PROVE  /\ DOMAIN Reverse(s) = DOMAIN s
         /\ \A k \in DOMAIN s : Reverse(s)[k] = s[(Len(s) - k) + 1] /\ (Len(s) - k) + 1 \in DOMAIN s
<1>1. Len(s) \in Nat /\ DOMAIN s = 1..Len(s)
  BY IsSeqDomain
<1> QED
  BY <1>1 DEF Reverse

LEMMA JoinIs ==
  ASSUME NEW r, IsSeq(r), NEW q, IsSeq(q)
  PROVE  /\ DOMAIN (r \o q) = 1..(Len(r) + Len(q)) /\ DOMAIN r = 1..Len(r) /\ DOMAIN q = 1..Len(q)
         /\ Len(r) \in Nat /\ Len(q) \in Nat
         /\ \A k \in DOMAIN r : (r \o q)[k] = r[k]
         /\ \A k \in DOMAIN q : (r \o q)[Len(r) + k] = q[k]
<1> DEFINE A == {r[k] : k \in DOMAIN r}
           B == {q[k] : k \in DOMAIN q}
<1>1. r \in Seq(A) /\ q \in Seq(B)
  BY DEF IsSeq
<1> HIDE DEF A, B
<1>2. r \in Seq(A \cup B) /\ q \in Seq(A \cup B)
  BY <1>1, SeqMonotonic
<1>3. Len(r) \in Nat /\ Len(q) \in Nat /\ DOMAIN r = 1..Len(r) /\ DOMAIN q = 1..Len(q)
  BY IsSeqDomain
<1>4. /\ Len(r \o q) = Len(r) + Len(q) /\ r \o q \in Seq(A \cup B)
      /\ \A k \in 1..(Len(r) + Len(q)) : (r \o q)[k] = IF k <= Len(r) THEN r[k] ELSE q[k - Len(r)]
  BY <1>2, ConcatProperties
<1>5. DOMAIN (r \o q) = 1..(Len(r) + Len(q))
  BY <1>4, LenProperties
<1>6. ASSUME NEW k \in DOMAIN q PROVE (r \o q)[Len(r) + k] = q[k]
  BY <1>3, <1>4
<1>7. ASSUME NEW k \in DOMAIN r PROVE (r \o q)[k] = r[k]
  <2>1. k \in 1..(Len(r) + Len(q)) /\ k <= Len(r)
    BY <1>3
  <2> QED
    BY <2>1, <1>4
<1> QED
  BY <1>3, <1>5, <1>6, <1>7

\* Instructions are at offsets of their own.
LEMMA OffsetOnce == \A i, j \in Nat : Offset(i) = Offset(j) => i = j
<1> SUFFICES ASSUME NEW i \in Nat, NEW j \in Nat, Offset(i) = Offset(j) PROVE i = j
  OBVIOUS
<1>1. CASE src.grouped
  <2>1. 8 * (i \div 3 + 1) + 8 * i = 8 * (j \div 3 + 1) + 8 * j
    BY <1>1 DEF Offset, Six!Offset
  <2> QED
    BY <2>1, Z3
<1>2. CASE ~src.grouped
  BY <1>2 DEF Offset, Seven!Offset
<1> QED
  BY <1>1, <1>2

\* A relocation section is that of one section.
LEMMA RelNamesOneOf ==
  ASSUME NEW g \in RelHeads, NEW h \in RelHeads, NEW m \in Seq(STRING), NEW n \in Seq(STRING), <<g>> \o m = <<h>> \o n
  PROVE  m = n
<1> DEFINE S == STRING \cup RelHeads
<1>1. m \in Seq(S) /\ n \in Seq(S)
  BY SeqMonotonic
<1>2. <<g>> \in Seq(S) /\ Len(<<g>>) = 1 /\ <<h>> \in Seq(S) /\ Len(<<h>>) = 1
  <2>1. g \in S /\ h \in S
    OBVIOUS
  <2> HIDE DEF S
  <2> QED
    BY <2>1
<1> HIDE DEF S
<1>3. /\ Len(<<g>> \o m) = 1 + Len(m) /\ Len(<<h>> \o n) = 1 + Len(n)
      /\ \A k \in 1..(1 + Len(m)) : (<<g>> \o m)[k] = IF k <= 1 THEN <<g>>[k] ELSE m[k - 1]
      /\ \A k \in 1..(1 + Len(n)) : (<<h>> \o n)[k] = IF k <= 1 THEN <<h>>[k] ELSE n[k - 1]
  BY <1>1, <1>2, ConcatProperties
<1>4. Len(m) \in Nat /\ Len(n) \in Nat /\ Len(m) = Len(n)
  <2>1. Len(m) \in Nat /\ Len(n) \in Nat
    BY <1>1, LenProperties
  <2> QED
    BY <2>1, <1>3
<1>5. ASSUME NEW k \in 1..Len(m) PROVE m[k] = n[k]
  <2>1. k + 1 \in 1..(1 + Len(m)) /\ ~(k + 1 <= 1) /\ (k + 1) - 1 = k
    BY <1>4
  <2> QED
    BY <2>1, <1>3, <1>4
<1> QED
  BY <1>1, <1>4, <1>5, SeqEqual

LEMMA EntriesMapped ==
  ASSUME TypeInv, EntriesBuilt, NEW t \in DOMAIN sections
  PROVE  \E q : EntryMap(q, t)
<1> DEFINE T == {j \in DOMAIN rels : RelSection(rels[j]) = sections[t].name}
           o == InOrder(T)
           l == ElementsAt(rels, T)
           n == Len(l)
           q == [e \in DOMAIN o |-> o[(n - e) + 1]]
<1>1. T \in SUBSET Nat /\ IsFiniteSet(T)
  BY IsSeqDomain, FS_Subset DEF TypeInv, RelsTyped
<1>2. sections[t].entries = Reverse(l)
  BY DEF EntriesBuilt, RelsOf
<1>3. \A j : j \in T <=> j \in DOMAIN rels /\ RelSection(rels[j]) = sections[t].name
  OBVIOUS
<1> HIDE DEF T
<1>4. /\ IsSeq(l) /\ DOMAIN l = DOMAIN o
      /\ \A k \in DOMAIN o : l[k] = rels[o[k]] /\ o[k] \in T
      /\ \A i \in T : \E k \in DOMAIN o : o[k] = i
      /\ \A k, m \in DOMAIN o : o[k] = o[m] => k = m
  BY <1>1, ElementsAtIs
<1> HIDE DEF o, l
<1>5. n \in Nat /\ DOMAIN o = 1..n
  BY <1>4, IsSeqDomain
<1>6. /\ DOMAIN Reverse(l) = 1..n
      /\ \A e \in 1..n : Reverse(l)[e] = l[(n - e) + 1] /\ (n - e) + 1 \in 1..n
  BY <1>4, <1>5, ReverseIs
<1> HIDE DEF n
<1>7. ASSUME NEW e \in 1..n PROVE q[e] \in T /\ Reverse(l)[e] = rels[q[e]]
  BY <1>4, <1>5, <1>6
<1>8. ASSUME NEW j \in T PROVE \E e \in 1..n : q[e] = j
  <2>1. PICK k \in 1..n : o[k] = j
    BY <1>4, <1>5
  <2>2. (n - k) + 1 \in 1..n /\ (n - ((n - k) + 1)) + 1 = k
    BY <1>5
  <2> QED
    BY <2>1, <2>2, <1>5
<1>9. ASSUME NEW d \in 1..n, NEW e \in 1..n, q[d] = q[e] PROVE d = e
  <2>1. (n - d) + 1 = (n - e) + 1
    BY <1>4, <1>5, <1>6, <1>9
  <2> QED
    BY <2>1, <1>5
<1>10. DOMAIN q = 1..n
  BY <1>5
<1> HIDE DEF q
<1>11. EntryMap(q, t)
  BY <1>2, <1>3, <1>6, <1>7, <1>8, <1>9, <1>10 DEF EntryMap
<1> QED
  BY <1>11

LEMMA EntriesForIs ==
  ASSUME NEW s, NEW at
  PROVE  /\ \A p \in EntriesFor(s, at) : \E t, e : p = <<t, e>> /\ IsFor(t, e, s, at)
         /\ \A t, e : IsFor(t, e, s, at) => <<t, e>> \in EntriesFor(s, at)
<1> DEFINE U == {u \in DOMAIN sections : sections[u].name \in {<<".rel">> \o sections[s].name, <<".rela">> \o sections[s].name}}
           E(t) == {<<t, e>> : e \in {i \in DOMAIN sections[t].entries : sections[t].entries[i].at = at}}
<1>1. \A p : p \in EntriesFor(s, at) <=> \E t \in U : p \in E(t)
  BY DEF EntriesFor
<1>2. \A t : t \in U <=> t \in DOMAIN sections /\ \E h \in RelHeads : sections[t].name = <<h>> \o sections[s].name
  BY DEF RelHeads
<1>3. \A t, p : p \in E(t) <=> \E e \in DOMAIN sections[t].entries : p = <<t, e>> /\ sections[t].entries[e].at = at
  OBVIOUS
<1> HIDE DEF U, E
<1>4. ASSUME NEW p \in EntriesFor(s, at) PROVE \E t, e : p = <<t, e>> /\ IsFor(t, e, s, at)
  <2>1. PICK t \in U : p \in E(t)
    BY <1>1
  <2>2. PICK e \in DOMAIN sections[t].entries : p = <<t, e>> /\ sections[t].entries[e].at = at
    BY <2>1, <1>3
  <2>3. IsFor(t, e, s, at)
    BY <2>1, <2>2, <1>2 DEF IsFor
  <2> QED
    BY <2>2, <2>3
<1>5. ASSUME NEW t, NEW e, IsFor(t, e, s, at) PROVE <<t, e>> \in EntriesFor(s, at)
  <2>1. t \in U
    BY <1>5, <1>2 DEF IsFor
  <2>2. <<t, e>> \in E(t)
    BY <1>5, <1>3 DEF IsFor
  <2> QED
    BY <2>1, <2>2, <1>1
<1> QED
  BY <1>4, <1>5

LEMMA RelSectionIs ==
  ASSUME TypeInv, NEW j \in DOMAIN rels
  PROVE  /\ rels[j].sec \in DOMAIN sections /\ sections[rels[j].sec].name \in Seq(STRING)
         /\ \E h \in RelHeads : RelSection(rels[j]) = <<h>> \o sections[rels[j].sec].name
  BY DEF TypeInv, RelsTyped, SectionsTyped, IsSection, RelSection, RelHeads

\* The place of an entry.
LEMMA EntryPlace ==
  ASSUME TypeInv, EntriesBuilt, NEW s \in DOMAIN sections, NEW at, NEW p \in EntriesFor(s, at)
  PROVE  \E t \in DOMAIN sections : \E q : EntryMap(q, t) /\
           \E e \in DOMAIN q : p = <<t, e>> /\ q[e] \in RelsAt(s, at)
<1>1. PICK t, e : p = <<t, e>> /\ IsFor(t, e, s, at)
  BY EntriesForIs
<1>2. /\ t \in DOMAIN sections /\ e \in DOMAIN sections[t].entries /\ sections[t].entries[e].at = at
      /\ \E h \in RelHeads : sections[t].name = <<h>> \o sections[s].name
  BY <1>1 DEF IsFor
<1>3. PICK q : EntryMap(q, t)
  BY <1>2, EntriesMapped
<1>4. PICK j : j = q[e]
  OBVIOUS
<1>5. e \in DOMAIN q /\ j \in DOMAIN rels /\ RelSection(rels[j]) = sections[t].name /\ rels[j].at = at
  BY <1>2, <1>3, <1>4 DEF EntryMap
<1>6. rels[j].sec = s
  <2>1. PICK h \in RelHeads : sections[t].name = <<h>> \o sections[s].name
    BY <1>2
  <2>2. PICK g \in RelHeads : RelSection(rels[j]) = <<g>> \o sections[rels[j].sec].name
    BY <1>5, RelSectionIs
  <2>3. sections[s].name \in Seq(STRING) /\ sections[rels[j].sec].name \in Seq(STRING) /\ rels[j].sec \in DOMAIN sections
    BY <1>5, RelSectionIs DEF TypeInv, SectionsTyped, IsSection
  <2>4. sections[rels[j].sec].name = sections[s].name
    BY <2>1, <2>2, <2>3, <1>5, RelNamesOneOf
  <2> QED
    BY <2>3, <2>4 DEF TypeInv, SectionsTyped
<1>7. j \in RelsAt(s, at)
  BY <1>5, <1>6 DEF RelsAt
<1> QED
  BY <1>1, <1>2, <1>3, <1>4, <1>5, <1>7

LEMMA RelHasEntry ==
  ASSUME TypeInv, EntriesBuilt, NEW j \in DOMAIN rels, NEW t \in DOMAIN sections, RelSection(rels[j]) = sections[t].name,
         NEW q, EntryMap(q, t), NEW e \in DOMAIN q, q[e] = j
  PROVE  <<t, e>> \in EntriesFor(rels[j].sec, rels[j].at) /\ Entry(<<t, e>>) = rels[j]
<1>1. e \in DOMAIN sections[t].entries /\ sections[t].entries[e] = rels[j]
  BY DEF EntryMap
<1>2. \E h \in RelHeads : sections[t].name = <<h>> \o sections[rels[j].sec].name
  BY RelSectionIs
<1>3. IsFor(t, e, rels[j].sec, rels[j].at)
  BY <1>1, <1>2 DEF IsFor
<1> QED
  BY <1>1, <1>3, EntriesForIs DEF Entry

LEMMA OneEntry ==
  ASSUME TypeInv, EntriesBuilt, NEW s \in DOMAIN sections, NEW at, NEW j \in DOMAIN rels, RelsAt(s, at) = {j}
  PROVE  \E p \in EntriesFor(s, at) : EntriesFor(s, at) = {p} /\ Entry(p) = rels[j]
<1>1. rels[j].sec = s /\ rels[j].at = at
  BY DEF RelsAt
<1>2. PICK t \in DOMAIN sections : sections[t].name = RelSection(rels[j])
  BY DEF EntriesBuilt, HasSection
<1>3. PICK q : EntryMap(q, t)
  BY EntriesMapped
<1>4. PICK e \in DOMAIN q : q[e] = j
  BY <1>2, <1>3 DEF EntryMap
<1>5. PICK p : p = <<t, e>> /\ p \in EntriesFor(s, at) /\ Entry(p) = rels[j]
  <2>1. RelSection(rels[j]) = sections[t].name
    BY <1>2
  <2>2. <<t, e>> \in EntriesFor(rels[j].sec, rels[j].at) /\ Entry(<<t, e>>) = rels[j]
    BY <2>1, <1>3, <1>4, RelHasEntry
  <2> QED
    BY <2>2, <1>1
<1>6. ASSUME NEW x \in EntriesFor(s, at) PROVE x = p
  <2>1. PICK u \in DOMAIN sections : \E r : EntryMap(r, u) /\ \E d \in DOMAIN r : x = <<u, d>> /\ r[d] \in RelsAt(s, at)
    BY EntryPlace
  <2>2. PICK r : EntryMap(r, u) /\ \E d \in DOMAIN r : x = <<u, d>> /\ r[d] \in RelsAt(s, at)
    BY <2>1
  <2>3. PICK d \in DOMAIN r : x = <<u, d>> /\ r[d] = j
    BY <2>2
  <2>4. sections[u].name = RelSection(rels[j]) /\ sections[u].entries[d] = rels[j]
    BY <2>2, <2>3 DEF EntryMap
  <2>5. u = t
    BY <2>4, <1>2 DEF TypeInv, SectionsTyped
  <2>6. d \in DOMAIN q
    BY <2>2, <2>3, <2>5, <1>3 DEF EntryMap
  <2>7. q[d] \in RelsAt(s, at)
    <3>1. q[d] \in DOMAIN rels /\ rels[q[d]] = rels[j]
      BY <2>4, <2>5, <2>6, <1>3 DEF EntryMap
    <3> QED
      BY <3>1, <1>1 DEF RelsAt
  <2>8. d = e
    BY <2>6, <2>7, <1>3, <1>4 DEF EntryMap
  <2> QED
    BY <2>3, <2>5, <2>8, <1>5
<1> QED
  BY <1>5, <1>6

\* What a plain reference adds is its number.
LEMMA PlainNumber ==
  ASSUME NEW e, e.op = "" \/ e.op = "+" \/ e.op = "-", IsPlain(e)
  PROVE  Number(e) = Addend(e)
  BY Zenon DEF IsPlain, Number, Addend, Second

\* Relocations of one place each, and their entries: the same references.
LEMMA SharedPlace ==
  ASSUME TypeInv, EntriesBuilt, NEW s \in DOMAIN sections, NEW a, NEW t \in DOMAIN sections, NEW b,
         NEW p, p \in EntriesFor(s, a), p \in EntriesFor(t, b)
  PROVE  s = t /\ a = b
<1>1. PICK u \in DOMAIN sections : \E q : EntryMap(q, u) /\ \E e \in DOMAIN q : p = <<u, e>> /\ q[e] \in RelsAt(s, a)
  BY EntryPlace
<1>2. PICK v \in DOMAIN sections : \E q : EntryMap(q, v) /\ \E e \in DOMAIN q : p = <<v, e>> /\ q[e] \in RelsAt(t, b)
  BY EntryPlace
<1>3. PICK q : EntryMap(q, u) /\ \E e \in DOMAIN q : p = <<u, e>> /\ q[e] \in RelsAt(s, a)
  BY <1>1
<1>4. PICK r : EntryMap(r, v) /\ \E e \in DOMAIN r : p = <<v, e>> /\ r[e] \in RelsAt(t, b)
  BY <1>2
<1>5. PICK e \in DOMAIN q : p = <<u, e>> /\ q[e] \in RelsAt(s, a)
  BY <1>3
<1>6. PICK d \in DOMAIN r : p = <<v, d>> /\ r[d] \in RelsAt(t, b)
  BY <1>4
<1>7. u = v /\ e = d
  BY <1>5, <1>6
<1>8. rels[q[e]] = rels[r[d]]
  BY <1>3, <1>4, <1>7 DEF EntryMap
<1> QED
  BY <1>5, <1>6, <1>8 DEF RelsAt

\* The reference of an entry is the one its relocation is from.
LEMMA EntryHasRef ==
  ASSUME TypeInv, EntriesBuilt, RelsFrom(Len(fixups), Len(sections)), NEW t \in DOMAIN sections, NEW e \in DOMAIN sections[t].entries
  PROVE  \/ \E f \in DataRefs : <<t, e>> \in DataEntries(f)
         \/ \E s \in Texts : \E k \in CodeRefs(s) : <<t, e>> \in CodeEntries(s, k)
<1>1. PICK q : EntryMap(q, t)
  BY EntriesMapped
<1>2. PICK j : j = q[e]
  OBVIOUS
<1>3. e \in DOMAIN q /\ j \in DOMAIN rels /\ RelSection(rels[j]) = sections[t].name
  BY <1>1, <1>2 DEF EntryMap
<1>4. <<t, e>> \in EntriesFor(rels[j].sec, rels[j].at)
  BY <1>1, <1>2, <1>3, RelHasEntry
<1>5. FromData(rels[j], Len(fixups)) \/ FromCode(rels[j], Len(sections))
  BY <1>3 DEF RelsFrom
<1>6. CASE FromData(rels[j], Len(fixups))
  BY <1>4, <1>6 DEF FromData, DataEntries
<1>7. CASE FromCode(rels[j], Len(sections))
  BY <1>4, <1>7 DEF FromCode, CodeEntries
<1> QED
  BY <1>5, <1>6, <1>7

LEMMA DataRefsComplete ==
  ASSUME TypeInv, EntriesBuilt, DataRelsFrom(Len(fixups)), NumbersFrom(Len(fixups)), PlainRefs, NEW f \in DataRefs
  PROVE  \E p \in DataEntries(f) :
         /\ DataEntries(f) = {p}
         /\ Entry(p).sym = SymIdx(fixups[f].expr.a)
         /\ Symbolic(fixups[f]) =>
              VarValue(fixups[f].expr.a) + sections[fixups[f].sec].items[fixups[f].at].num = Value(fixups[f].expr)
<1>1. f \in DOMAIN fixups /\ f <= Len(fixups)
  BY IsSeqDomain DEF TypeInv, FixupsTyped, DataRefs
<1>2. PICK x : x = fixups[f]
  OBVIOUS
<1>3. x.sec \in DOMAIN sections /\ IsExpr(x.expr)
  BY <1>1, <1>2, Zenon DEF TypeInv, FixupsTyped
<1>4. PICK j \in DOMAIN rels : RelsAt(x.sec, x.at) = {j} /\ rels[j].sym = SymIdx(x.expr.a)
  BY <1>1, <1>2 DEF DataRelsFrom
<1>5. PICK p \in EntriesFor(x.sec, x.at) : EntriesFor(x.sec, x.at) = {p} /\ Entry(p) = rels[j]
  BY <1>3, <1>4, OneEntry
<1>6. ASSUME Symbolic(x) PROVE VarValue(x.expr.a) + sections[x.sec].items[x.at].num = Value(x.expr)
  <2>1. IsPlain(x.expr) /\ ~IsInfo(sections[x.sec].name)
    BY <1>1, <1>2, <1>6 DEF PlainRefs
  <2>2. sections[x.sec].items[x.at].num = Number(x.expr)
    BY <1>1, <1>2, <1>6, <2>1 DEF NumbersFrom
  <2>3. Number(x.expr) = Addend(x.expr)
    <3>1. x.expr.op = "" \/ x.expr.op = "+" \/ x.expr.op = "-"
      BY <1>3 DEF IsExpr
    <3> QED
      BY <3>1, <2>1, PlainNumber, Zenon
  <2> QED
    BY <2>2, <2>3 DEF Value
<1>7. DataEntries(f) = EntriesFor(x.sec, x.at)
  BY <1>2 DEF DataEntries
<1> QED
  BY <1>2, <1>4, <1>5, <1>6, <1>7

LEMMA CodeRefsComplete ==
  ASSUME TypeInv, EntriesBuilt, CodeRelsFrom(Len(sections)), PlainRefs, NEW s \in Texts, NEW k \in CodeRefs(s)
  PROVE  \E p \in CodeEntries(s, k) :
         /\ CodeEntries(s, k) = {p}
         /\ Entry(p).sym = SymIdx(CodeLines(s)[k].expr.a)
         /\ VarValue(CodeLines(s)[k].expr.a) + Entry(p).add = Value(CodeLines(s)[k].expr)
<1>1. s \in DOMAIN sections /\ s <= Len(sections)
  BY IsSeqDomain DEF TypeInv, SectionsTyped, Texts
<1>2. PICK x : x = CodeLines(s)[k]
  OBVIOUS
<1>3. PICK j \in DOMAIN rels : RelsAt(s, Offset(k - 1)) = {j} /\ IsRelOf(rels[j], x)
  BY <1>1, <1>2 DEF CodeRelsFrom
<1>4. PICK p \in EntriesFor(s, Offset(k - 1)) : EntriesFor(s, Offset(k - 1)) = {p} /\ Entry(p) = rels[j]
  BY <1>1, <1>3, OneEntry
<1>5. PlainRef(x)
  BY <1>2 DEF PlainRefs
<1>6. Number(x.expr) = Addend(x.expr)
  BY <1>5, Zenon, PlainNumber DEF PlainRef
<1>7. Entry(p).sym = SymIdx(x.expr.a) /\ VarValue(x.expr.a) + Entry(p).add = Value(x.expr)
  BY <1>3, <1>4, <1>5, <1>6 DEF IsRelOf, Value
<1> QED
  BY <1>2, <1>4, <1>7 DEF CodeEntries

\* The invariant says of an assembled file what RelocationsComplete does.
LEMMA DoneRefs ==
  ASSUME TypeInv, RefInv, CodeOnly, PlainRefs
  PROVE  RelocationsComplete
<1> SUFFICES ASSUME stage = "done" PROVE RelocationsComplete
  BY DEF RelocationsComplete
<1>1. /\ EntriesBuilt /\ RelsFrom(Len(fixups), Len(sections)) /\ NumbersFrom(Len(fixups)) /\ FixupsApart
      /\ DataRelsFrom(Len(fixups)) /\ CodeRelsFrom(Len(sections))
  BY DEF RefInv, RefParts, Related, RelsFrom
<1>2. ASSUME NEW f \in DataRefs, NEW g \in DataRefs, DataEntries(f) = DataEntries(g) PROVE f = g
  <2>1. PICK p : p \in DataEntries(f) /\ p \in DataEntries(g)
    BY <1>1, <1>2, DataRefsComplete
  <2>2. f \in DOMAIN fixups /\ g \in DOMAIN fixups /\ f \in Nat /\ g \in Nat
    BY IsSeqDomain DEF TypeInv, FixupsTyped, DataRefs
  <2>3. fixups[f].sec \in DOMAIN sections /\ fixups[g].sec \in DOMAIN sections
    BY <2>2 DEF TypeInv, FixupsTyped
  <2>4. fixups[f].sec = fixups[g].sec /\ fixups[f].at = fixups[g].at
    BY <1>1, <2>1, <2>3, SharedPlace DEF DataEntries
  <2>5. fixups[f].len >= 4 /\ fixups[g].len >= 4
    BY DEF DataRefs, HeaderRef, Named, Symbolic
  <2> QED
    BY <1>1, <2>2, <2>4, <2>5 DEF FixupsApart
<1>3. \A f \in DataRefs : \E p \in DataEntries(f) :
         /\ DataEntries(f) = {p}
         /\ Entry(p).sym = SymIdx(fixups[f].expr.a)
         /\ Symbolic(fixups[f]) =>
              VarValue(fixups[f].expr.a) + sections[fixups[f].sec].items[fixups[f].at].num = Value(fixups[f].expr)
  BY <1>1, DataRefsComplete
<1>4. \A s \in Texts : \A k \in CodeRefs(s) : \E p \in CodeEntries(s, k) :
         /\ CodeEntries(s, k) = {p}
         /\ Entry(p).sym = SymIdx(CodeLines(s)[k].expr.a)
         /\ VarValue(CodeLines(s)[k].expr.a) + Entry(p).add = Value(CodeLines(s)[k].expr)
  BY <1>1, CodeRefsComplete
<1>5. \A t \in DOMAIN sections : \A e \in DOMAIN sections[t].entries :
         \/ \E f \in DataRefs : <<t, e>> \in DataEntries(f)
         \/ \E s \in Texts : \E k \in CodeRefs(s) : <<t, e>> \in CodeEntries(s, k)
  BY <1>1, EntryHasRef
<1> QED
  BY <1>2, <1>3, <1>4, <1>5 DEF RelocationsComplete

LEMMA SymsSame ==
  ASSUME SameSyms
  PROVE  \A x : (IsSym(x)' <=> IsSym(x)) /\ SymIdx(x)' = SymIdx(x)
<1> SUFFICES ASSUME NEW x PROVE (IsSym(x)' <=> IsSym(x)) /\ SymIdx(x)' = SymIdx(x)
  OBVIOUS
<1>1. IsSym(x)' <=> IsSym(x)
  BY DEF SameSyms, IsSym
<1> DEFINE c == CHOOSE k \in DOMAIN symtab : symtab[k].name = x
<1>2. c' = c
  BY DEF SameSyms
<1>3. SymIdx(x) = IF IsSym(x) THEN c - 1 ELSE 0
  BY DEF SymIdx
<1>4. SymIdx(x)' = IF IsSym(x)' THEN c' - 1 ELSE 0
  BY DEF SymIdx
<1> HIDE DEF c
<1> QED
  BY <1>1, <1>2, <1>3, <1>4

LEMMA LabelsSame ==
  ASSUME LabelsOfBefore
  PROVE  \A s, line : Local(s, line)' <=> Local(s, line)
<1> SUFFICES ASSUME NEW s, NEW line PROVE Local(s, line)' <=> Local(s, line)
  OBVIOUS
<1>1. PICK x : x = line.expr.a
  OBVIOUS
<1>2. HasLabel(x)' <=> HasLabel(x)
  BY DEF LabelsOfBefore, SameLabel, HasLabel
<1>3. (CHOOSE l \in DOMAIN labels : labels[l].name = x)' = CHOOSE l \in DOMAIN labels : labels[l].name = x
  BY DEF LabelsOfBefore, SameLabel
<1>4. ASSUME HasLabel(x) PROVE LabelAt(x)'.sec = LabelAt(x).sec
  <2>1. PICK l \in DOMAIN labels : l = CHOOSE k \in DOMAIN labels : labels[k].name = x
    BY <1>4 DEF HasLabel
  <2>2. LabelAt(x) = labels[l] /\ LabelAt(x)' = labels'[l]
    BY <2>1, <1>3 DEF LabelAt
  <2> QED
    BY <2>1, <2>2 DEF LabelsOfBefore, SameLabel
<1> QED
  BY <1>1, <1>2, <1>4 DEF Local

LEMMA RefsSame ==
  ASSUME TypeInv, Worked, src' = src, fixups' = fixups, LabelsOfBefore, SameSyms
  PROVE  SameRefs
<1>1. SameLines /\ DOMAIN sections' = DOMAIN sections
  BY WorkedLines
<1>2. \A x : (IsSym(x)' <=> IsSym(x)) /\ SymIdx(x)' = SymIdx(x)
  BY SymsSame
<1>3. \A i : Offset(i)' = Offset(i)
  BY LinesSame
<1>4. Texts' = Texts
  BY <1>1 DEF Texts, IsText, SameLines
<1>5. DataRefs' = DataRefs
  BY <1>2 DEF DataRefs, HeaderRef, Named, Symbolic
<1>6. ASSUME NEW s \in DOMAIN sections PROVE CodeLines(s)' = CodeLines(s) /\ CodeRefs(s)' = CodeRefs(s)
  BY TargetsSame, LabelsSame DEF CodeRefs
<1>7. \A s \in DOMAIN sections : sections'[s].name = sections[s].name
  BY <1>1 DEF SameLines
<1> QED
  BY <1>1, <1>2, <1>3, <1>4, <1>5, <1>6, <1>7 DEF SameRefs

\* The relocations, the numbers and the entries that are kept with them.
LEMMA RelsKept ==
  ASSUME TypeInv, SameRefs, rels' = rels, NEW m, NEW n, RelsFrom(m, n)
  PROVE  RelsFrom(m, n)'
<1>1. \A s, at : RelsAt(s, at)' = RelsAt(s, at)
  BY DEF RelsAt
<1>2. DataRelsFrom(m)'
  BY <1>1 DEF RelsFrom, DataRelsFrom, SameRefs
<1>3. CodeRelsFrom(n)'
  <2> SUFFICES ASSUME NEW s \in Texts, s <= n, NEW k \in CodeRefs(s)
               PROVE  \E j \in DOMAIN rels' : RelsAt(s, Offset(k - 1))' = {j} /\ IsRelOf(rels[j], CodeLines(s)[k])'
    BY DEF CodeRelsFrom, SameRefs, Texts
  <2>1. PICK x : x = CodeLines(s)[k]
    OBVIOUS
  <2>2. PICK j \in DOMAIN rels : RelsAt(s, Offset(k - 1)) = {j} /\ IsRelOf(rels[j], x)
    BY <2>1 DEF RelsFrom, CodeRelsFrom
  <2>3. (CodeLines(s)[k])' = x
    BY <2>1 DEF SameRefs, Texts
  <2>4. IsRelOf(rels[j], CodeLines(s)[k])'
    BY <2>2, <2>3 DEF IsRelOf, PlainRef, Number, IsPlain, SameRefs
  <2>5. RelsAt(s, Offset(k - 1))' = {j}
    <3>1. PICK a : a = Offset(k - 1)
      OBVIOUS
    <3>2. RelsAt(s, Offset(k - 1))' = RelsAt(s, a)'
      BY <3>1 DEF RelsAt, SameRefs
    <3> QED
      BY <3>1, <3>2, <2>2, <1>1
  <2> QED
    BY <2>4, <2>5
<1>4. ASSUME NEW j \in DOMAIN rels PROVE FromData(rels[j], m)' \/ FromCode(rels[j], n)'
  <2>1. FromData(rels[j], m) \/ FromCode(rels[j], n)
    BY DEF RelsFrom
  <2>2. FromData(rels[j], m) => FromData(rels[j], m)'
    BY DEF FromData, SameRefs
  <2>3. FromCode(rels[j], n) => FromCode(rels[j], n)'
    BY DEF FromCode, SameRefs, Texts
  <2> QED
    BY <2>1, <2>2, <2>3
<1> QED
  BY <1>2, <1>3, <1>4 DEF RelsFrom

LEMMA NumbersKept ==
  ASSUME TypeInv, SameRefs, NEW m, NumbersFrom(m),
         \A s \in DOMAIN sections : ~IsInfo(sections[s].name) /\ ~IsText(sections[s].name) => sections'[s].items = sections[s].items,
         FixupsApart
  PROVE  NumbersFrom(m)'
<1> SUFFICES ASSUME NEW f \in DOMAIN fixups, f <= m, Symbolic(fixups[f])', IsPlain(fixups[f].expr),
                    ~IsInfo(sections[fixups[f].sec].name)'
             PROVE  (sections[fixups[f].sec].items[fixups[f].at].num)' = Number(fixups[f].expr)
  BY DEF NumbersFrom, SameRefs, Number, IsPlain
<1>1. PICK x : x = fixups[f]
  OBVIOUS
<1>2. fixups'[f] = x
  BY <1>1 DEF SameRefs
<1>3. Symbolic(x)
  BY <1>2 DEF Symbolic, SameRefs
<1>4. x.sec \in DOMAIN sections
  BY <1>1 DEF TypeInv, FixupsTyped
<1>5. sections'[x.sec].name = sections[x.sec].name /\ ~IsInfo(sections[x.sec].name)
  BY <1>2, <1>4 DEF SameRefs, IsInfo
<1>6. ~IsText(sections[x.sec].name)
  BY <1>1 DEF FixupsApart
<1>7. sections[x.sec].items[x.at].num = Number(x.expr)
  BY <1>1, <1>3, <1>5 DEF NumbersFrom
<1> QED
  BY <1>1, <1>2, <1>4, <1>5, <1>6, <1>7

LEMMA ApartKept ==
  ASSUME TypeInv, SameRefs, FixupsApart
  PROVE  FixupsApart'
<1>1. \A f \in DOMAIN fixups : fixups[f].sec \in DOMAIN sections
  BY DEF TypeInv, FixupsTyped
<1> QED
  BY <1>1 DEF FixupsApart, SameRefs, IsText

LEMMA BuiltKept ==
  ASSUME TypeInv, SameRefs, rels' = rels, EntriesBuilt, \A t \in DOMAIN sections : sections'[t].entries = sections[t].entries
  PROVE  EntriesBuilt'
<1>1. \A j \in DOMAIN rels : rels[j].sec \in DOMAIN sections
  BY DEF TypeInv, RelsTyped
<1>2. \A j \in DOMAIN rels : RelSection(rels[j])' = RelSection(rels[j])
  BY <1>1 DEF RelSection, SameRefs
<1>3. \A x : HasSection(x)' <=> HasSection(x)
  BY DEF HasSection, SameRefs
<1>4. ASSUME NEW j \in DOMAIN rels PROVE HasSection(RelSection(rels[j]))'
  <2>1. PICK x : x = RelSection(rels[j])
    OBVIOUS
  <2>2. HasSection(x)
    BY <2>1 DEF EntriesBuilt
  <2>3. RelSection(rels[j])' = x
    BY <2>1, <1>2
  <2> QED
    BY <2>2, <2>3, <1>3 DEF HasSection
<1>5. ASSUME NEW t \in DOMAIN sections PROVE RelsOf(t)' = RelsOf(t)
  BY <1>2 DEF SameRefs, RelsOf
<1>6. ASSUME NEW t \in DOMAIN sections PROVE sections'[t].entries = Reverse(RelsOf(t))'
  BY <1>5 DEF EntriesBuilt
<1> QED
  BY <1>4, <1>6 DEF EntriesBuilt, SameRefs

\* As many fixups and sections by another count.
LEMMA RelsUpTo ==
  ASSUME NEW m, NEW n, NEW p, NEW q, RelsFrom(m, n),
         \A f \in DataRefs : f <= m <=> f <= p, \A s \in Texts : s <= n <=> s <= q
  PROVE  RelsFrom(p, q)
<1>1. DataRelsFrom(p) /\ CodeRelsFrom(q)
  BY DEF RelsFrom, DataRelsFrom, CodeRelsFrom
<1>2. \A r : (FromData(r, m) => FromData(r, p)) /\ (FromCode(r, n) => FromCode(r, q))
  BY DEF FromData, FromCode
<1> QED
  BY <1>1, <1>2 DEF RelsFrom

LEMMA NumbersUpTo ==
  ASSUME NEW m, NEW p, NumbersFrom(m), \A f \in DOMAIN fixups : f <= p => f <= m
  PROVE  NumbersFrom(p)
  BY DEF NumbersFrom

\* The counts are in DOMAINs of sequences.
LEMMA RefCounts ==
  ASSUME TypeInv
  PROVE  /\ next \in Nat \ {0} /\ Len(fixups) \in Nat /\ DOMAIN fixups = 1..Len(fixups)
         /\ Len(sections) \in Nat /\ DOMAIN sections = 1..Len(sections)
         /\ DataRefs \subseteq DOMAIN fixups /\ Texts \subseteq DOMAIN sections
  BY IsSeqDomain DEF TypeInv, SectionsTyped, FixupsTyped, DataRefs, Texts

LEMMA RelsNext ==
  ASSUME NEW m, NEW n, NEW STATE p, NEW STATE q, p' = m, q' = n, RelsFrom(m, n)'
  PROVE  RelsFrom(p, q)'
  BY DEF RelsFrom, DataRelsFrom, CodeRelsFrom, FromData, FromCode

\* The passes behind the fixups, but for the kernels that are assembled.
LEMMA PassRefs ==
  ASSUME TypeInv, RefParts, Worked, UNCHANGED <<src, fixups, rels>>, LabelsOfBefore, SameSyms, GoOn \/ Stay,
         stage \in {"kernels", "regcounts", "relocations", "layout", "segments", "symtab", "save"},
         \A s \in DOMAIN sections : ~IsInfo(sections[s].name) /\ ~IsText(sections[s].name) => sections'[s].items = sections[s].items,
         stage = "kernels" /\ Stay => next \in DOMAIN sections /\ ~IsText(sections[next].name),
         stage = "kernels" /\ GoOn => next > Len(sections),
         stage = "relocations" => EntriesBuilt',
         stage \in {"layout", "segments", "symtab", "save"} => \A t \in DOMAIN sections : sections'[t].entries = sections[t].entries
  PROVE  RefParts'
<1>1. SameRefs
  BY RefsSame
<1>2. FixupsApart'
  BY <1>1, ApartKept DEF RefParts
<1>3. PICK F \in Nat, N \in Nat : F = Len(fixups) /\ N = Len(sections)
  BY RefCounts
<1>4. Len(fixups)' = F /\ Len(sections)' = N
  BY <1>3, WorkedLen
<1>5. NumbersFrom(Len(fixups))'
  BY <1>3, <1>1, <1>2, NumbersKept DEF RefParts, Related, NumbersFrom
<1>6. stage' = "kernels" => RelsFrom(Len(fixups), next - 1)'
  <2> SUFFICES ASSUME stage' = "kernels" PROVE RelsFrom(Len(fixups), next - 1)'
    OBVIOUS
  <2>1. stage = "kernels" /\ Stay
    BY GoesOn DEF Stay
  <2>2. PICK n : n = next - 1
    OBVIOUS
  <2>3. next \in Nat \ {0} /\ (next - 1)' = next
    BY <2>1, RefCounts DEF Stay
  <2>4. RelsFrom(F, n)
    BY <2>1, <2>2, <1>3 DEF RefParts
  <2>5. PICK c : c = next
    OBVIOUS
  <2>6. RelsFrom(F, c)
    <3>1. \A s \in Texts : s <= n <=> s <= c
      <4> SUFFICES ASSUME NEW s \in Texts PROVE s <= n <=> s <= c
        OBVIOUS
      <4>1. s \in Nat /\ s # c
        BY <2>1, <2>5, RefCounts DEF Texts
      <4> QED
        BY <4>1, <2>2, <2>3, <2>5
    <3> QED
      BY <3>1, <2>4, RelsUpTo
  <2>7. RelsFrom(F, c)'
    BY <2>6, <1>1, RelsKept
  <2> QED
    BY <2>3, <2>5, <2>7, <1>3, RelsNext
<1>7. stage' \in Related => RelsFrom(Len(fixups), Len(sections))'
  <2> SUFFICES ASSUME stage' \in Related PROVE RelsFrom(Len(fixups), Len(sections))'
    OBVIOUS
  <2>1. RelsFrom(F, N)
    <3>1. CASE stage \in Related
      BY <3>1, <1>3 DEF RefParts
    <3>2. CASE stage = "kernels"
      <4>1. GoOn /\ next > N
        BY <3>2, <1>3 DEF Stay, Related
      <4>2. PICK n : n = next - 1
        OBVIOUS
      <4>3. RelsFrom(F, n)
        BY <4>2, <3>2, <1>3 DEF RefParts
      <4>4. \A s \in Texts : s <= n <=> s <= N
        BY <4>1, <4>2, <1>3, RefCounts
      <4> QED
        BY <4>3, <4>4, RelsUpTo
    <3> QED
      BY <3>1, <3>2 DEF Related
  <2>2. RelsFrom(F, N)'
    BY <2>1, <1>1, RelsKept
  <2> QED
    BY <2>2, <1>3, <1>4, RelsNext
<1>8. stage' \in {"layout", "segments", "symtab", "save", "done"} => EntriesBuilt'
  <2>1. CASE stage = "relocations"
    BY <2>1
  <2>2. CASE stage \in {"layout", "segments", "symtab", "save"}
    BY <2>2, <1>1, BuiltKept DEF RefParts
  <2>3. CASE stage \in {"kernels", "regcounts"}
    BY <2>3, GoesOn DEF Stay
  <2> QED
    BY <2>1, <2>2, <2>3
<1>9. stage' \in Related \cup {"kernels"}
  BY GoesOn DEF Stay, Related
<1> QED
  BY <1>2, <1>5, <1>6, <1>7, <1>8, <1>9 DEF RefParts, Related

\* The passes that leave the sections.
LEMMA SameSymtab ==
  ASSUME symtab' = symtab
  PROVE  SameSyms
  BY DEF SameSyms

LEMMA IdleRefs ==
  ASSUME TypeInv, RefParts, UNCHANGED <<src, fixups, rels, sections, labels>>, SameSyms, GoOn \/ Stay,
         stage \in {"kernels", "regcounts", "layout", "segments", "symtab", "save"},
         stage = "kernels" /\ Stay => next \in DOMAIN sections /\ ~IsText(sections[next].name),
         stage = "kernels" /\ GoOn => next > Len(sections)
  PROVE  RefParts'
<1>1. Worked /\ LabelsOfBefore
  BY UnchangedWorked, SameLabels
<1> QED
  BY <1>1, PassRefs

LEMMA SkipRefs ==
  ASSUME TypeInv, RefParts, SkipSection \/ KernelsEnd
  PROVE  RefParts'
<1>1. UNCHANGED <<src, fixups, rels, sections, labels>> /\ symtab' = symtab /\ stage = "kernels"
  BY DEF SkipSection, KernelsEnd, scanned, tables
<1>2. SameSyms
  BY <1>1, SameSymtab
<1>3. CASE SkipSection
  BY <1>3, RefCounts, <1>1, GoesOn, <1>2, IdleRefs DEF SkipSection, Stay
<1>4. CASE KernelsEnd
  <2>1. GoOn /\ next > Len(sections)
    BY <1>4 DEF KernelsEnd
  <2>2. ~Stay
    BY <2>1, <1>1, GoesOn DEF Stay
  <2> QED
    BY <2>1, <2>2, <1>1, <1>2, IdleRefs
<1> QED
  BY <1>3, <1>4

LEMMA LeaveRefs ==
  ASSUME TypeInv, RefParts, SkipNull \/ LayoutEnd \/ LocateSegments \/ Save
  PROVE  RefParts'
<1>1. /\ UNCHANGED <<src, fixups, rels, sections, labels>> /\ symtab' = symtab
      /\ stage \in {"layout", "segments", "save"} /\ (GoOn \/ Stay)
  BY DEF SkipNull, LayoutEnd, LocateSegments, Save, scanned, tables
<1> QED
  BY <1>1, SameSymtab, IdleRefs

LEMMA SymtabRefs ==
  ASSUME TypeInv, CoverInv, RefParts, UpdateSymtab
  PROVE  RefParts'
<1>1. UNCHANGED <<src, fixups, rels, sections, labels>> /\ stage = "symtab" /\ GoOn
  BY DEF UpdateSymtab, scanned
<1>2. IsSymtab
  BY <1>1 DEF CoverInv
<1>3. SameSyms
  <2>1. DOMAIN symtab' = DOMAIN symtab
    BY DEF UpdateSymtab
  <2>2. ASSUME NEW k \in DOMAIN symtab PROVE symtab'[k].name = symtab[k].name
    <3>1. PICK e, u, v : e = symtab[k] /\ u = LabelAt(symtab[k].name).at /\ v = Value(symbols[symtab[k].name])
      OBVIOUS
    <3>2. symtab'[k] = e \/ symtab'[k] = [e EXCEPT !.value = u, !.size = v]
      BY <3>1, Zenon DEF UpdateSymtab
    <3>3. DOMAIN e = {"name", "value", "size"}
      BY <3>1, <1>2 DEF IsSymtab
    <3> QED
      BY <3>1, <3>2, <3>3
  <2> QED
    BY <2>1, <2>2 DEF SameSyms
<1> QED
  BY <1>1, <1>3, IdleRefs

\* Two fields of sections that one new section keeps.
LEMMA OneSameItems ==
  ASSUME NEW c \in DOMAIN sections, NEW e, e.items = sections[c].items, e.entries = sections[c].entries,
         sections' = [sections EXCEPT ![c] = e]
  PROVE  \A s \in DOMAIN sections : sections'[s].items = sections[s].items /\ sections'[s].entries = sections[s].entries
<1>1. \A s \in DOMAIN sections : sections'[s] = IF s = c THEN e ELSE sections[s]
  OBVIOUS
<1> QED
  BY <1>1

LEMMA FirstRefs ==
  ASSUME TypeInv, RefParts, LayoutFirstSection
  PROVE  RefParts'
<1> DEFINE e == [sections[next] EXCEPT !.at = end.file, !.mem = end.mem]
<1>1. next \in DOMAIN sections /\ Worked
  BY LayoutFirstIs
<1>2. sections' = [sections EXCEPT ![next] = e]
  BY <1>1 DEF LayoutFirstSection, Place
<1>3. e.items = sections[next].items /\ e.entries = sections[next].entries
  BY <1>1 DEF TypeInv, SectionsTyped, IsSection, SectionFields
<1> HIDE DEF e
<1>4. \A s \in DOMAIN sections : sections'[s].items = sections[s].items /\ sections'[s].entries = sections[s].entries
  BY <1>1, <1>2, <1>3, OneSameItems
<1>5. Stay /\ stage = "layout" /\ UNCHANGED <<src, fixups, rels, labels>> /\ symtab' = symtab
  BY DEF LayoutFirstSection, scanned, tables
<1>6. LabelsOfBefore /\ SameSyms
  BY <1>5, SameLabels, SameSymtab
<1> QED
  BY <1>1, <1>4, <1>5, <1>6, PassRefs

LEMMA LayoutRefs ==
  ASSUME TypeInv, LandInv, RefParts, LayoutSection
  PROVE  RefParts'
<1> DEFINE p == next - 1
           al == AlignFor(next)
           u == Padded(p, al)
           e == [sections[next] EXCEPT !.at = end.file + FilePad(p, al), !.mem = end.mem + MemPad(p, al)]
<1>1. /\ stage = "layout" /\ next <= Len(sections) /\ Previous(next) # 0 /\ Stay
      /\ UNCHANGED <<src, fixups, rels>> /\ symtab' = symtab
  BY DEF LayoutSection, tables
<1>2. /\ p \in DOMAIN sections /\ next \in DOMAIN sections /\ Previous(next) = p /\ p # next
      /\ FilePad(p, al) \in Nat /\ MemPad(p, al) \in Nat
  <2>1. next \in Nat
    BY DEF TypeInv
  <2> QED
    BY <2>1, <1>1, LayoutAt
<1>3. Worked /\ LabelsOfBefore /\ SameSyms
  <2>1. labels' = PadLabel(p, al)
    BY <1>2 DEF LayoutSection
  <2> QED
    BY <2>1, <1>1, LayoutSectionIs, PaddedLabel, SameSymtab
<1>4. /\ u.items = sections[p].items /\ u.entries = sections[p].entries
      /\ e.items = sections[next].items /\ e.entries = sections[next].entries
  <2>1. DOMAIN sections[p] = SectionFields /\ DOMAIN sections[next] = SectionFields
    BY <1>2 DEF TypeInv, SectionsTyped, IsSection
  <2> HIDE DEF p, al
  <2>2. e.items = sections[next].items /\ e.entries = sections[next].entries
    BY <2>1 DEF SectionFields
  <2>3. u.items = sections[p].items /\ u.entries = sections[p].entries
    BY <2>1 DEF Padded, SectionFields
  <2> QED
    BY <2>2, <2>3
<1>5. sections' = [[sections EXCEPT ![p] = u] EXCEPT ![next] = e]
  <2>1. sections' = [[sections EXCEPT ![p] = u] EXCEPT ![next].at = end.file + FilePad(p, al), ![next].mem = end.mem + MemPad(p, al)]
    BY <1>2 DEF LayoutSection, Place
  <2> HIDE DEF p, al, u
  <2> QED
    BY <2>1, <1>2
<1> HIDE DEF p, al, u, e
<1>6. \A s \in DOMAIN sections : sections'[s].items = sections[s].items /\ sections'[s].entries = sections[s].entries
  BY <1>2, <1>5, <1>4
<1> QED
  BY <1>1, <1>3, <1>6, PassRefs

LEMMA CountsRefs ==
  ASSUME TypeInv, RefParts, CountRegs
  PROVE  RefParts'
<1> DEFINE t == SectionOf(<<".nv.info">>)
           f == SetAttrs(t, SetRegCount(AttrsOf(t), RegNums))
<1>1. stage = "regcounts" /\ HasSection(<<".nv.info">>) /\ sections' = [sections EXCEPT ![t] = f]
  BY DEF CountRegs
<1>2. t \in DOMAIN sections /\ IsInfo(sections[t].name)
  BY <1>1, SectionIs DEF IsInfo
<1>3. GoOn /\ UNCHANGED <<src, fixups, rels, labels>> /\ symtab' = symtab
  BY DEF CountRegs, scanned, tables
<1> HIDE DEF t, f
<1>4. \A s \in DOMAIN sections : ~IsInfo(sections[s].name) => sections'[s].items = sections[s].items
  BY <1>1, <1>2
<1>5. Worked /\ LabelsOfBefore /\ SameSyms
  BY <1>3, CountsWorked, SameLabels, SameSymtab
<1> QED
  BY <1>1, <1>3, <1>4, <1>5, PassRefs

LEMMA RelocationsRefs ==
  ASSUME TypeInv, RefParts, BuildRelocations
  PROVE  RefParts'
<1> DEFINE u(s) == [sections[s] EXCEPT !.entries = Reverse(RelsOf(s))]
           e(s) == Emit(u(s), EntriesSize(RelsOf(s)))
<1>1. stage = "relocations" /\ RelocationsGood /\ sections' = [s \in DOMAIN sections |-> e(s)]
  BY DEF BuildRelocations
<1>2. GoOn /\ UNCHANGED <<src, fixups, rels, labels>> /\ symtab' = symtab
  BY DEF BuildRelocations, scanned, tables
<1>3. ASSUME NEW s \in DOMAIN sections PROVE e(s).items = sections[s].items /\ e(s).entries = Reverse(RelsOf(s))
  <2> DEFINE w == sections[s]
             v == u(s)
  <2>1. DOMAIN w = SectionFields
    BY DEF TypeInv, SectionsTyped, IsSection
  <2>2. v = [w EXCEPT !.entries = Reverse(RelsOf(s))] /\ e(s) = Emit(v, EntriesSize(RelsOf(s)))
    OBVIOUS
  <2> HIDE DEF v, w, e
  <2>3. DOMAIN v = SectionFields /\ v.items = w.items /\ v.entries = Reverse(RelsOf(s))
    BY <2>1, <2>2 DEF SectionFields
  <2>4. e(s).items = v.items /\ e(s).entries = v.entries
    BY <2>2, <2>3, EmitIs DEF SectionFields
  <2> QED
    BY <2>3, <2>4 DEF w
<1> HIDE DEF e
<1>4. \A s \in DOMAIN sections : sections'[s].items = sections[s].items /\ sections'[s].entries = Reverse(RelsOf(s))
  BY <1>1, <1>3
<1>5. Worked /\ LabelsOfBefore /\ SameSyms
  BY <1>2, BuildRelocationsWorked, SameLabels, SameSymtab
<1>6. SameRefs
  BY <1>2, <1>5, RefsSame
<1>7. EntriesBuilt'
  <2>1. \A j \in DOMAIN rels : rels[j].sec \in DOMAIN sections
    BY DEF TypeInv, RelsTyped
  <2>2. \A j \in DOMAIN rels : RelSection(rels[j])' = RelSection(rels[j])
    BY <1>2, <1>6, <2>1 DEF RelSection, SameRefs
  <2>3. \A x : HasSection(x)' <=> HasSection(x)
    BY <1>6 DEF HasSection, SameRefs
  <2>4. ASSUME NEW j \in DOMAIN rels PROVE HasSection(RelSection(rels[j]))'
    <3>1. PICK x : x = RelSection(rels[j])
      OBVIOUS
    <3>2. HasSection(x)
      BY <3>1, <1>1 DEF RelocationsGood
    <3>3. RelSection(rels[j])' = x
      BY <3>1, <2>2
    <3> QED
      BY <3>2, <3>3, <2>3 DEF HasSection
  <2>5. ASSUME NEW t \in DOMAIN sections PROVE RelsOf(t)' = RelsOf(t)
    BY <2>2, <1>2, <1>6 DEF SameRefs, RelsOf
  <2> QED
    BY <1>2, <1>4, <1>6, <2>4, <2>5 DEF EntriesBuilt, SameRefs
<1> QED
  BY <1>1, <1>2, <1>4, <1>5, <1>7, PassRefs

\* The relocations of a kernel: one of each reference, each at its instruction.
LEMMA RefRelIs ==
  ASSUME NEW s, NEW line, NEW at
  PROVE  LET r == RefRel(s, line, at) IN r.sec = s /\ r.at = at /\ IsRelOf(r, line)
<1> DEFINE r == RefRel(s, line, at)
<1>1. r.sec = s /\ r.at = at /\ r.sym = SymIdx(line.expr.a)
  BY DEF RefRel, Rel, Rela
<1>2. ASSUME PlainRef(line) PROVE r.add = Number(line.expr)
  <2>1. CASE line.expr.op = ""
    BY <2>1 DEF RefRel, Rel, Number
  <2>2. CASE line.expr.op # ""
    <3>1. line.expr.op = "+" /\ line.ref \in {"lo", "hi"} /\ line.expr.b = ""
      BY <1>2, <2>2 DEF PlainRef, IsPlain
    <3>2. r.add = Second(line.expr)
      BY <2>2, <3>1 DEF RefRel, Rela, Rel
    <3>3. Second(line.expr) = line.expr.n
      BY <3>1 DEF Second
    <3>4. Number(line.expr) = line.expr.n
      BY <3>1 DEF Number
    <3> QED
      BY <3>2, <3>3, <3>4
  <2> QED
    BY <2>1, <2>2
<1> HIDE DEF r
<1>3. IsRelOf(r, line)
  BY <1>1, <1>2 DEF IsRelOf
<1> QED
  BY <1>1, <1>3 DEF r

LEMMA KernelRelsAre ==
  ASSUME TypeInv, NEW s \in DOMAIN sections
  PROVE  LET q == RefRels(s, CodeLines(s)) IN
         /\ IsSeq(q)
         /\ \E at : /\ DOMAIN at = DOMAIN q
                    /\ \A i \in DOMAIN q : at[i] \in CodeRefs(s) /\ q[i] = RefRel(s, CodeLines(s)[at[i]], Offset(at[i] - 1))
                    /\ \A k \in CodeRefs(s) : \E i \in DOMAIN q : at[i] = k
                    /\ \A i, j \in DOMAIN q : at[i] = at[j] => i = j
<1> DEFINE c == CodeLines(s)
           T == {k \in DOMAIN c : c[k].ref # "none" /\ ~Local(s, c[k])}
           at == InOrder(T)
           q == RefRels(s, c)
<1>1. IsSeq(c)
  BY CodeLinesType
<1>2. T \in SUBSET Nat /\ IsFiniteSet(T)
  BY <1>1, IsSeqDomain, FS_Subset
<1>3. IsSeq(q)
  BY <1>1, RefRelsType
<1>4. T = CodeRefs(s)
  BY DEF CodeRefs
<1>5. q = [i \in DOMAIN at |-> RefRel(s, c[at[i]], Offset(at[i] - 1))]
  BY DEF RefRels
<1> HIDE DEF T, c
<1>6. /\ \A i \in DOMAIN at : at[i] \in T
      /\ \A k \in T : \E i \in DOMAIN at : at[i] = k
      /\ \A i, j \in DOMAIN at : at[i] = at[j] => i = j
  BY <1>2, InOrderIn, InOrderOnce
<1> HIDE DEF at, q
<1>7. DOMAIN q = DOMAIN at
  BY <1>5
<1> QED
  BY <1>3, <1>4, <1>5, <1>6, <1>7 DEF q, c

LEMMA RelsJoin ==
  ASSUME TypeInv, SameRefs, NEW m, NEW n \in Nat, NEW s \in Texts, s = n + 1, RelsFrom(m, n), FixupsApart,
         rels' = rels \o RefRels(s, CodeLines(s))
  PROVE  RelsFrom(m, s)'
<1> DEFINE q == RefRels(s, CodeLines(s))
           L == Len(rels)
<1>1. IsSeq(rels) /\ s \in DOMAIN sections
  BY DEF TypeInv, RelsTyped, Texts
<1>2. PICK at : /\ DOMAIN at = DOMAIN q
                /\ \A i \in DOMAIN q : at[i] \in CodeRefs(s) /\ q[i] = RefRel(s, CodeLines(s)[at[i]], Offset(at[i] - 1))
                /\ \A k \in CodeRefs(s) : \E i \in DOMAIN q : at[i] = k
                /\ \A i, j \in DOMAIN q : at[i] = at[j] => i = j
  BY <1>1, KernelRelsAre
<1>3. \A i \in DOMAIN q : q[i].sec = s /\ q[i].at = Offset(at[i] - 1) /\ IsRelOf(q[i], CodeLines(s)[at[i]])
  BY <1>2, RefRelIs
<1>4. IsSeq(q)
  BY <1>1, KernelRelsAre
<1>5. CodeRefs(s) \subseteq Nat \ {0}
  BY <1>1, CodeLinesType, IsSeqDomain DEF CodeRefs
<1> HIDE DEF q
<1>6. /\ L \in Nat /\ Len(q) \in Nat /\ DOMAIN rels = 1..L /\ DOMAIN q = 1..Len(q) /\ DOMAIN rels' = 1..(L + Len(q))
      /\ \A j \in DOMAIN rels : rels'[j] = rels[j]
      /\ \A i \in DOMAIN q : rels'[L + i] = q[i]
  BY <1>1, <1>4, JoinIs DEF q
<1> HIDE DEF L
<1>7. /\ \A j \in DOMAIN rels : j \in DOMAIN rels'
      /\ \A i \in DOMAIN q : L + i \in DOMAIN rels' /\ L + i \notin DOMAIN rels
      /\ \A j \in DOMAIN rels' : j \in DOMAIN rels \/ \E i \in DOMAIN q : j = L + i
  <2>1. ASSUME NEW j \in DOMAIN rels' PROVE j \in DOMAIN rels \/ \E i \in DOMAIN q : j = L + i
    <3>1. j \in 1..L \/ (j - L \in 1..Len(q) /\ j = L + (j - L))
      BY <1>6
    <3> QED
      BY <3>1, <1>6
  <2> QED
    BY <2>1, <1>6
<1>8. ASSUME NEW f \in DataRefs PROVE f \in DOMAIN fixups /\ fixups[f].sec # s /\ fixups'[f] = fixups[f]
  <2>1. f \in DOMAIN fixups
    BY RefCounts
  <2> QED
    BY <2>1 DEF FixupsApart, Texts, SameRefs
<1>9. ASSUME NEW j \in DOMAIN rels PROVE rels[j].sec # s
  <2>1. CASE FromData(rels[j], m)
    BY <2>1, <1>8 DEF FromData
  <2>2. CASE FromCode(rels[j], n)
    BY <2>2 DEF FromCode
  <2> QED
    BY <2>1, <2>2 DEF RelsFrom
<1>10. ASSUME NEW t, t # s, NEW a PROVE RelsAt(t, a)' = RelsAt(t, a)
  <2>1. \A j : j \in RelsAt(t, a)' <=> j \in RelsAt(t, a)
    BY <1>3, <1>6, <1>7, <1>10 DEF RelsAt
  <2> QED
    BY <2>1
<1>11. DataRelsFrom(m)'
  <2> SUFFICES ASSUME NEW f \in DataRefs, f <= m
               PROVE  \E j \in DOMAIN rels' : RelsAt(fixups[f].sec, fixups[f].at)' = {j} /\ rels'[j].sym = SymIdx(fixups[f].expr.a)'
    BY DEF DataRelsFrom, SameRefs
  <2>1. PICK x : x = fixups[f]
    OBVIOUS
  <2>2. fixups'[f] = x /\ x.sec # s
    BY <2>1, <1>8
  <2>3. PICK j \in DOMAIN rels : RelsAt(x.sec, x.at) = {j} /\ rels[j].sym = SymIdx(x.expr.a)
    BY <2>1 DEF RelsFrom, DataRelsFrom
  <2>4. RelsAt(fixups[f].sec, fixups[f].at)' = RelsAt(x.sec, x.at)' /\ SymIdx(fixups[f].expr.a)' = SymIdx(x.expr.a)'
    BY <2>2 DEF RelsAt, SymIdx, IsSym
  <2>5. RelsAt(x.sec, x.at)' = {j} /\ SymIdx(x.expr.a)' = SymIdx(x.expr.a)
    BY <2>2, <2>3, <1>10 DEF SameRefs
  <2>6. j \in DOMAIN rels' /\ rels'[j] = rels[j]
    BY <1>6, <1>7
  <2> QED
    BY <2>3, <2>4, <2>5, <2>6
<1>12. CodeRelsFrom(s)'
  <2> SUFFICES ASSUME NEW t \in Texts, t <= s, NEW k \in CodeRefs(t)
               PROVE  \E j \in DOMAIN rels' : RelsAt(t, Offset(k - 1))' = {j} /\ IsRelOf(rels[j], CodeLines(t)[k])'
    BY DEF CodeRelsFrom, SameRefs, Texts
  <2>1. PICK x : x = CodeLines(t)[k]
    OBVIOUS
  <2>2. PICK a : a = Offset(k - 1)
    OBVIOUS
  <2>3. (CodeLines(t)[k])' = x
    BY <2>1 DEF SameRefs, Texts
  <2>4. RelsAt(t, Offset(k - 1))' = RelsAt(t, a)'
    BY <2>2 DEF RelsAt, SameRefs
  <2>5. \E j \in DOMAIN rels' : RelsAt(t, a)' = {j} /\ IsRelOf(rels'[j], x)
    <3>1. CASE t = s
      <4>1. PICK i \in DOMAIN q : at[i] = k
        BY <3>1, <1>2
      <4>2. L + i \in DOMAIN rels' /\ rels'[L + i] = q[i]
        BY <1>6, <1>7
      <4>3. q[i].sec = t /\ q[i].at = a /\ IsRelOf(q[i], x)
        BY <4>1, <3>1, <2>1, <2>2, <1>3
      <4>4. ASSUME NEW j \in RelsAt(t, a)' PROVE j = L + i
        <5>1. j \in DOMAIN rels' /\ rels'[j].sec = s /\ rels'[j].at = a
          BY <3>1 DEF RelsAt
        <5>2. PICK h \in DOMAIN q : j = L + h
          BY <5>1, <1>6, <1>7, <1>9
        <5>3. Offset(at[h] - 1) = Offset(k - 1)
          BY <5>1, <5>2, <1>3, <1>6, <2>2
        <5>4. at[h] \in Nat \ {0} /\ k \in Nat \ {0}
          BY <3>1, <1>2, <1>5
        <5>5. at[h] - 1 \in Nat /\ k - 1 \in Nat
          BY <5>4
        <5>6. at[h] - 1 = k - 1
          BY <5>3, <5>5, OffsetOnce
        <5>7. at[h] = at[i]
          BY <5>4, <5>6, <4>1
        <5> QED
          BY <5>2, <5>7, <1>2
      <4>5. L + i \in RelsAt(t, a)'
        BY <4>2, <4>3 DEF RelsAt
      <4>6. RelsAt(t, a)' = {L + i}
        BY <4>4, <4>5
      <4> QED
        BY <4>2, <4>3, <4>6
    <3>2. CASE t # s
      <4>1. t <= n
        <5>1. t \in Nat /\ s \in Nat
          BY RefCounts
        <5> QED
          BY <5>1, <3>2
      <4>2. PICK j \in DOMAIN rels : RelsAt(t, a) = {j} /\ IsRelOf(rels[j], x)
        BY <4>1, <2>1, <2>2 DEF RelsFrom, CodeRelsFrom
      <4>3. RelsAt(t, a)' = {j} /\ j \in DOMAIN rels' /\ rels'[j] = rels[j]
        BY <4>2, <3>2, <1>6, <1>7, <1>10
      <4> QED
        BY <4>2, <4>3
    <3> QED
      BY <3>1, <3>2
  <2>6. PICK j \in DOMAIN rels' : RelsAt(t, a)' = {j} /\ IsRelOf(rels'[j], x)
    BY <2>5
  <2>7. IsRelOf(rels[j], CodeLines(t)[k])'
    BY <2>3, <2>6 DEF IsRelOf, PlainRef, Number, IsPlain, SameRefs
  <2> QED
    BY <2>4, <2>6, <2>7
<1>13. ASSUME NEW j \in DOMAIN rels' PROVE FromData(rels[j], m)' \/ FromCode(rels[j], s)'
  <2>1. CASE j \in DOMAIN rels
    <3>1. PICK r : r = rels[j] /\ r = rels'[j]
      BY <2>1, <1>6
    <3>2. FromData(r, m) \/ FromCode(r, n)
      BY <2>1, <3>1 DEF RelsFrom
    <3>3. FromData(r, m) => FromData(rels[j], m)'
      BY <3>1, <1>8 DEF FromData, SameRefs
    <3>4. FromCode(r, n) => FromCode(rels[j], s)'
      <4>1. ASSUME NEW t \in Texts, t <= n PROVE t <= s
        <5>1. t \in Nat
          BY RefCounts
        <5> QED
          BY <5>1, <4>1
      <4> QED
        BY <3>1, <4>1 DEF FromCode, SameRefs, Texts
    <3> QED
      BY <3>2, <3>3, <3>4
  <2>2. CASE j \notin DOMAIN rels
    <3>1. PICK i \in DOMAIN q : j = L + i
      BY <2>2, <1>7
    <3>2. rels'[j].sec = s /\ at[i] \in CodeRefs(s) /\ rels'[j].at = Offset(at[i] - 1)
      BY <3>1, <1>2, <1>3, <1>6
    <3>3. s <= s
      BY RefCounts
    <3>4. FromCode(rels[j], s)'
      BY <3>2, <3>3, <1>1 DEF FromCode, SameRefs
    <3> QED
      BY <3>4
  <2> QED
    BY <2>1, <2>2
<1> QED
  BY <1>11, <1>12, <1>13 DEF RelsFrom

\* The step of the kernels: the relocations of one kernel behind those before.
LEMMA KernelItems ==
  ASSUME TypeInv, ParseKernel
  PROVE  \A s \in DOMAIN sections : ~IsInfo(sections[s].name) /\ ~IsText(sections[s].name) => sections'[s].items = sections[s].items
<1> DEFINE t == SectionOf(InfoOf(next))
<1>1. next \in DOMAIN sections /\ IsText(sections[next].name)
  BY KernelAssembled
<1>2. HasSection(InfoOf(next))
  BY DEF ParseKernel, KernelGood
<1>3. t \in DOMAIN sections /\ IsInfo(sections[t].name)
  BY <1>2, SectionIs DEF IsInfo, InfoOf
<1>4. PICK e, f : sections' = [sections EXCEPT ![next] = e, ![t] = f]
  BY DEF ParseKernel, Assemble
<1> HIDE DEF t
<1>5. \A x \in DOMAIN sections : x # next /\ x # t => sections'[x] = sections[x]
  BY <1>4
<1> QED
  BY <1>1, <1>3, <1>5

LEMMA KernelRefs ==
  ASSUME TypeInv, RefParts, ParseKernel
  PROVE  RefParts'
<1>1. stage = "kernels" /\ stage' = "kernels" /\ next' = next + 1 /\ UNCHANGED <<src, labels, fixups>> /\ symtab' = symtab
  BY DEF ParseKernel, Stay, scanned, tables
<1>2. Worked /\ next \in DOMAIN sections /\ IsText(sections[next].name)
  BY KernelAssembled
<1>3. SameRefs
  BY <1>1, <1>2, SameLabels, SameSymtab, RefsSame
<1>4. FixupsApart /\ FixupsApart'
  BY <1>3, ApartKept DEF RefParts
<1>5. PICK F \in Nat : F = Len(fixups)
  BY RefCounts
<1>6. PICK s \in Texts, n \in Nat : s = next /\ n = next - 1
  BY <1>2, RefCounts DEF Texts
<1>7. s = n + 1
  BY <1>6, RefCounts
<1>8. RelsFrom(F, n)
  BY <1>1, <1>5, <1>6 DEF RefParts
<1>9. rels' = rels \o RefRels(s, CodeLines(s))
  BY <1>6 DEF ParseKernel, Assemble
<1>10. RelsFrom(F, s)'
  BY <1>3, <1>4, <1>7, <1>8, <1>9, RelsJoin
<1>11. Len(fixups)' = F /\ (next - 1)' = s
  BY <1>1, <1>5, <1>6, <1>7
<1>12. RelsFrom(Len(fixups), next - 1)'
  BY <1>10, <1>11, RelsNext
<1>13. NumbersFrom(Len(fixups))'
  <2>1. NumbersFrom(F)
    BY <1>1, <1>5 DEF RefParts
  <2>2. NumbersFrom(F)'
    BY <2>1, <1>3, <1>4, KernelItems, NumbersKept
  <2> QED
    BY <2>2, <1>11 DEF NumbersFrom
<1> QED
  BY <1>1, <1>4, <1>12, <1>13 DEF RefParts, Related

\* A fixup is evaluated: its number is put in its place, and nothing else is.
LEMMA PlaceWritten ==
  ASSUME NEW t, DOMAIN t = SectionFields, HasNumbers(t.items), NEW d \in DOMAIN t.items, NEW v,
         NEW e, e = [t EXCEPT !.items[d].num = v]
  PROVE  /\ DOMAIN e.items = DOMAIN t.items /\ e.items[d].num = v
         /\ \A b \in DOMAIN t.items : b # d => e.items[b] = t.items[b]
<1> DEFINE w == t.items
           i == [w EXCEPT ![d] = [w[d] EXCEPT !.num = v]]
<1>1. e.items = i
  BY DEF SectionFields
<1>2. DOMAIN w[d] = {"head", "num"}
  BY DEF HasNumbers
<1> HIDE DEF w
<1>3. i[d].num = v /\ DOMAIN i = DOMAIN w /\ \A b \in DOMAIN w : b # d => i[b] = w[b]
  <2>1. d \in DOMAIN w
    BY DEF w
  <2> QED
    BY <1>2, <2>1
<1> HIDE DEF i
<1> QED
  BY <1>1, <1>3 DEF w

LEMMA FixupItems ==
  ASSUME TypeInv, FixupsHeld, EvalFixup, NEW f, f = fixups[next], f.at \in DOMAIN sections[f.sec].items
  PROVE  /\ \A s \in DOMAIN sections : s # f.sec => sections'[s].items = sections[s].items
         /\ DOMAIN sections'[f.sec].items = DOMAIN sections[f.sec].items
         /\ \A b \in DOMAIN sections[f.sec].items : b # f.at => sections'[f.sec].items[b] = sections[f.sec].items[b]
         /\ Symbolic(f) => sections'[f.sec].items[f.at].num = Written(f)
<1>1. f.sec \in DOMAIN sections
  BY FixupIn
<1>2. PICK t, v : t = sections[f.sec] /\ v = Written(f)
  OBVIOUS
<1>3. PICK e : e = [t EXCEPT !.items[f.at].num = v]
  OBVIOUS
<1>4. DOMAIN t = SectionFields /\ HasNumbers(t.items)
  BY <1>1, <1>2 DEF TypeInv, SectionsTyped, IsSection
<1>5. /\ DOMAIN e.items = DOMAIN t.items /\ e.items[f.at].num = v
      /\ \A b \in DOMAIN t.items : b # f.at => e.items[b] = t.items[b]
  <2>1. PICK d \in DOMAIN t.items : d = f.at
    BY <1>2
  <2>2. e = [t EXCEPT !.items[d].num = v]
    BY <1>3, <2>1
  <2>3. /\ DOMAIN e.items = DOMAIN t.items /\ e.items[d].num = v
        /\ \A b \in DOMAIN t.items : b # d => e.items[b] = t.items[b]
    BY <1>4, <2>2, PlaceWritten
  <2> QED
    BY <2>1, <2>3
<1>6. \/ sections' = sections /\ (HeaderRef(f) \/ Named(f))
      \/ sections' = [sections EXCEPT ![f.sec] = e]
  BY <1>2, <1>3, Zenon DEF EvalFixup
<1>7. CASE sections' = sections /\ (HeaderRef(f) \/ Named(f))
  <2>1. ~Symbolic(f)
    BY <1>7 DEF HeaderRef, Named, Symbolic
  <2> QED
    BY <1>7, <2>1
<1>8. CASE sections' = [sections EXCEPT ![f.sec] = e]
  BY <1>1, <1>8, <1>2, <1>5
<1> QED
  BY <1>6, <1>7, <1>8

\* The relocations with the one of a fixup.
LEMMA FixupJoins ==
  ASSUME TypeInv, SameRefs, FixupsApart, NEW n \in Nat, NEW c \in DataRefs, c = n + 1, RelsFrom(n, 0),
         NEW r, r.sec = fixups[c].sec, r.at = fixups[c].at, r.sym = SymIdx(fixups[c].expr.a), rels' = Append(rels, r)
  PROVE  RelsFrom(c, 0)'
<1>1. PICK j0 : j0 = Len(rels) + 1
  OBVIOUS
<1>2. /\ DOMAIN rels' = DOMAIN rels \cup {j0} /\ j0 \notin DOMAIN rels /\ rels'[j0] = r
      /\ \A j \in DOMAIN rels : rels'[j] = rels[j]
  BY <1>1, AppendIs DEF TypeInv, RelsTyped
<1>3. c \in DOMAIN fixups /\ fixups' = fixups /\ fixups[c].len >= 4
  BY RefCounts DEF SameRefs, DataRefs, HeaderRef, Named, Symbolic
<1>4. PICK x : x = fixups[c]
  OBVIOUS
<1>5. ASSUME NEW g \in DataRefs, g <= n PROVE ~(fixups[g].sec = x.sec /\ fixups[g].at = x.at)
  <2>1. g \in DOMAIN fixups /\ g \in Nat /\ fixups[g].len >= 4
    BY RefCounts DEF DataRefs, HeaderRef, Named, Symbolic
  <2>2. g < c
    BY <1>5, <2>1
  <2>3. fixups[g].sec = x.sec => fixups[g].at + fixups[g].len <= x.at
    BY <1>3, <1>4, <2>1, <2>2 DEF FixupsApart
  <2>4. fixups[g].at \in Nat /\ fixups[g].len \in Nat /\ x.at \in Nat
    BY <1>3, <1>4, <2>1 DEF FixupsApart
  <2> QED
    BY <2>1, <2>3, <2>4
<1>6. ASSUME NEW j \in DOMAIN rels PROVE FromData(rels[j], n)
  <2>1. ~FromCode(rels[j], 0)
    BY RefCounts DEF FromCode
  <2> QED
    BY <2>1 DEF RelsFrom
<1>7. ASSUME NEW j \in DOMAIN rels PROVE ~(rels[j].sec = x.sec /\ rels[j].at = x.at)
  BY <1>5, <1>6 DEF FromData
<1>8. DataRelsFrom(c)'
  <2> SUFFICES ASSUME NEW g \in DataRefs, g <= c
               PROVE  \E j \in DOMAIN rels' : RelsAt(fixups[g].sec, fixups[g].at)' = {j} /\ rels'[j].sym = SymIdx(fixups[g].expr.a)'
    BY DEF DataRelsFrom, SameRefs
  <2>1. PICK y : y = fixups[g]
    OBVIOUS
  <2>2. RelsAt(fixups[g].sec, fixups[g].at)' = RelsAt(y.sec, y.at)' /\ SymIdx(fixups[g].expr.a)' = SymIdx(y.expr.a)
    <3>1. fixups'[g] = y
      BY <1>3, <2>1
    <3>2. SymIdx(fixups[g].expr.a)' = SymIdx(y.expr.a)'
      BY <3>1 DEF SymIdx, IsSym
    <3> QED
      BY <3>1, <3>2 DEF RelsAt, SameRefs
  <2>3. CASE g = c
    BY <2>1, <2>3, <1>2, <1>4, <1>7, <2>2 DEF RelsAt
  <2>4. CASE g # c
    <3>1. g <= n
      <4>1. g \in DOMAIN fixups /\ DOMAIN fixups \subseteq Nat
        BY RefCounts, IsSeqDomain DEF TypeInv, FixupsTyped
      <4> QED
        BY <4>1, <2>4
    <3>2. PICK j \in DOMAIN rels : RelsAt(y.sec, y.at) = {j} /\ rels[j].sym = SymIdx(y.expr.a)
      BY <3>1, <2>1 DEF RelsFrom, DataRelsFrom
    <3>3. ~(y.sec = x.sec /\ y.at = x.at)
      BY <3>1, <2>1, <1>5
    <3>4. \A i : i \in RelsAt(y.sec, y.at)' <=> i \in RelsAt(y.sec, y.at)
      BY <3>3, <1>2, <1>4 DEF RelsAt
    <3>5. RelsAt(y.sec, y.at)' = {j} /\ rels'[j] = rels[j] /\ j \in DOMAIN rels'
      BY <3>2, <3>4, <1>2
    <3> QED
      BY <3>2, <3>5, <2>2
  <2> QED
    BY <2>3, <2>4
<1>9. CodeRelsFrom(0)'
  BY RefCounts DEF CodeRelsFrom, SameRefs
<1>10. ASSUME NEW j \in DOMAIN rels' PROVE FromData(rels[j], c)'
  <2>1. CASE j = j0
    <3>1. c <= c
      OBVIOUS
    <3> QED
      BY <2>1, <3>1, <1>2, <1>3 DEF FromData, SameRefs
  <2>2. CASE j # j0
    <3>1. PICK g \in DataRefs : g <= n /\ rels[j].sec = fixups[g].sec /\ rels[j].at = fixups[g].at
      BY <2>2, <1>2, <1>6 DEF FromData
    <3>2. g <= c
      <4>1. g \in Nat
        BY RefCounts
      <4> QED
        BY <4>1, <3>1
    <3> QED
      BY <3>1, <3>2, <2>2, <1>2, <1>3 DEF FromData, SameRefs
  <2> QED
    BY <2>1, <2>2
<1> QED
  BY <1>8, <1>9, <1>10 DEF RelsFrom

LEMMA FixupRels ==
  ASSUME TypeInv, SameRefs, FixupsApart, EvalFixup, NEW n \in Nat, NEW c \in DOMAIN fixups, c = n + 1, c = next, RelsFrom(n, 0)
  PROVE  RelsFrom(c, 0)'
<1>1. PICK f : f = fixups[c]
  OBVIOUS
<1>2. rels' = IF HeaderRef(f) \/ Named(f) \/ Symbolic(f) THEN Append(rels, Rel(f.sec, f.at, f.expr.a, RelType(f))) ELSE rels
  BY <1>1, Zenon DEF EvalFixup
<1>3. CASE c \in DataRefs
  <2>1. PICK r : r = Rel(f.sec, f.at, f.expr.a, RelType(f))
    OBVIOUS
  <2>2. r.sec = f.sec /\ r.at = f.at /\ r.sym = SymIdx(f.expr.a)
    BY <2>1 DEF Rel
  <2>3. rels' = Append(rels, r)
    BY <1>1, <1>2, <1>3, <2>1 DEF DataRefs
  <2> QED
    BY <1>1, <1>3, <2>2, <2>3, FixupJoins
<1>4. CASE c \notin DataRefs
  <2>1. rels' = rels
    BY <1>1, <1>2, <1>4 DEF DataRefs
  <2>2. ASSUME NEW g \in DataRefs PROVE g <= n <=> g <= c
    <3>1. g \in Nat /\ g # c
      BY <1>4, RefCounts
    <3> QED
      BY <3>1
  <2>3. RelsFrom(c, 0)
    BY <2>2, RelsUpTo
  <2> QED
    BY <2>1, <2>3, RelsKept
<1> QED
  BY <1>3, <1>4

LEMMA FixupNumbers ==
  ASSUME TypeInv, SameRefs, FixupsApart, FixupsHeld, EvalFixup,
         NEW n \in Nat, NEW c \in DOMAIN fixups, c = n + 1, c = next, NumbersFrom(n)
  PROVE  NumbersFrom(c)' /\ FixupsHeld'
<1>1. PICK f : f = fixups[c]
  OBVIOUS
<1>2. f.sec \in DOMAIN sections /\ f.at \in DOMAIN sections[f.sec].items /\ IsExpr(f.expr)
  BY <1>1 DEF FixupsHeld, TypeInv, FixupsTyped
<1>3. /\ \A s \in DOMAIN sections : s # f.sec => sections'[s].items = sections[s].items
      /\ DOMAIN sections'[f.sec].items = DOMAIN sections[f.sec].items
      /\ \A b \in DOMAIN sections[f.sec].items : b # f.at => sections'[f.sec].items[b] = sections[f.sec].items[b]
      /\ Symbolic(f) => sections'[f.sec].items[f.at].num = Written(f)
  BY <1>1, <1>2, FixupItems
<1>4. fixups' = fixups /\ \A s \in DOMAIN sections : sections'[s].name = sections[s].name
  BY DEF SameRefs
<1>5. \A g \in DOMAIN fixups : fixups[g].sec \in DOMAIN sections /\ fixups[g].at \in DOMAIN sections[fixups[g].sec].items
  BY DEF FixupsHeld, TypeInv, FixupsTyped
<1>6. FixupsHeld'
  BY <1>3, <1>4, <1>5 DEF FixupsHeld
<1>7. ASSUME NEW g \in DOMAIN fixups, g <= c, Symbolic(fixups[g])', IsPlain(fixups[g].expr), ~IsInfo(sections[fixups[g].sec].name)'
      PROVE  (sections[fixups[g].sec].items[fixups[g].at].num)' = Number(fixups[g].expr)
  <2>1. PICK x : x = fixups[g]
    OBVIOUS
  <2>2. fixups'[g] = x /\ x.sec \in DOMAIN sections /\ x.at \in DOMAIN sections[x.sec].items
    BY <2>1, <1>4, <1>5
  <2>3. Symbolic(x) /\ IsPlain(x.expr) /\ ~IsInfo(sections[x.sec].name)
    BY <1>7, <2>1, <2>2, <1>4 DEF Symbolic, SameRefs, IsInfo
  <2>4. CASE g = c
    <3>1. sections'[x.sec].items[x.at].num = Written(x)
      BY <2>1, <2>3, <2>4, <1>1, <1>3
    <3>2. Written(x) = Addend(x.expr)
      BY <2>3, Zenon DEF Written, Symbolic
    <3>3. x.expr.op = "" \/ x.expr.op = "+" \/ x.expr.op = "-"
      BY <2>1, <2>4, <1>1, <1>2 DEF IsExpr
    <3>4. Number(x.expr) = Addend(x.expr)
      BY <2>3, <3>3, PlainNumber
    <3> QED
      BY <2>1, <2>2, <3>1, <3>2, <3>4
  <2>5. CASE g # c
    <3>1. g \in Nat /\ g <= n /\ g < c
      <4>1. g \in Nat
        BY RefCounts
      <4> QED
        BY <4>1, <1>7, <2>5
    <3>2. sections[x.sec].items[x.at].num = Number(x.expr)
      BY <2>1, <2>3, <3>1 DEF NumbersFrom
    <3>3. x.sec = f.sec => x.at # f.at
      <4>1. x.at \in Nat /\ x.len \in Nat /\ f.at \in Nat
        BY <2>1, <1>1 DEF FixupsApart
      <4>2. x.sec = f.sec => x.at + x.len <= f.at
        BY <2>1, <1>1, <3>1 DEF FixupsApart
      <4>3. x.len >= 4
        BY <2>3 DEF Symbolic
      <4> QED
        BY <4>1, <4>2, <4>3
    <3>4. sections'[x.sec].items[x.at] = sections[x.sec].items[x.at]
      BY <2>2, <3>3, <1>3
    <3> QED
      BY <2>1, <2>2, <3>2, <3>4
  <2> QED
    BY <2>4, <2>5
<1>8. NumbersFrom(c)'
  BY <1>4, <1>7 DEF NumbersFrom, IsPlain, Number
<1> QED
  BY <1>6, <1>8

LEMMA FixupRefs ==
  ASSUME TypeInv, RefParts, EvalFixup
  PROVE  RefParts'
<1>1. stage = "fixups" /\ next <= Len(fixups) /\ stage' = "fixups" /\ next' = next + 1 /\ UNCHANGED <<src, fixups, labels>> /\ symtab' = symtab
  BY DEF EvalFixup, Stay, scanned, tables
<1>2. SameRefs
  BY <1>1, FixupWorked, SameLabels, SameSymtab, RefsSame
<1>3. FixupsApart /\ FixupsHeld /\ FixupsApart'
  BY <1>1, <1>2, ApartKept DEF RefParts
<1>4. PICK c \in DOMAIN fixups, n \in Nat : c = next /\ n = next - 1
  BY <1>1, RefCounts
<1>5. c = n + 1 /\ (next - 1)' = c
  BY <1>1, <1>4, RefCounts
<1>6. RelsFrom(n, 0) /\ NumbersFrom(n)
  BY <1>1, <1>4 DEF RefParts
<1>7. RelsFrom(c, 0)'
  BY <1>2, <1>3, <1>4, <1>5, <1>6, FixupRels
<1>8. NumbersFrom(c)' /\ FixupsHeld'
  BY <1>2, <1>3, <1>4, <1>5, <1>6, FixupNumbers
<1>9. RelsFrom(next - 1, 0)'
  <2>1. 0' = 0
    OBVIOUS
  <2> QED
    BY <1>5, <1>7, <2>1, RelsNext
<1>10. NumbersFrom(next - 1)'
  BY <1>5, <1>8 DEF NumbersFrom
<1> QED
  BY <1>1, <1>3, <1>8, <1>9, <1>10 DEF RefParts, Related

\* The passes from the scan to the fixups.
LEMMA FixupsKept ==
  ASSUME UNCHANGED <<sections, fixups>>
  PROVE  (FixupsApart => FixupsApart') /\ (FixupsWithin => FixupsWithin') /\ (FixupsHeld => FixupsHeld')
  BY DEF FixupsApart, FixupsWithin, FixupsHeld, IsText

LEMMA GatherRefs ==
  ASSUME RefParts, Gather
  PROVE  RefParts'
<1>1. stage = "gather" /\ stage' = "tables" /\ UNCHANGED <<sections, fixups, rels>>
  BY GoesOn DEF Gather, scanned
<1> QED
  BY <1>1, FixupsKept DEF RefParts, Related

LEMMA ScanEndRefs ==
  ASSUME RefParts, ScanEnd
  PROVE  RefParts'
<1>1. stage = "scan" /\ stage' = "gather" /\ UNCHANGED <<sections, fixups, rels>>
  BY GoesOn DEF ScanEnd, scanned
<1> QED
  BY <1>1, FixupsKept DEF RefParts, Related

LEMMA TablesRefs ==
  ASSUME TypeInv, RefParts, BuildTables
  PROVE  RefParts'
<1>1. stage = "tables" /\ stage' = "fixups" /\ next' = 1 /\ UNCHANGED <<sections, fixups, rels>>
  BY GoesOn DEF BuildTables, scanned
<1>2. DOMAIN rels' = {}
  BY <1>1, NoneIsSeq DEF RefParts
<1>3. /\ \A f \in DataRefs' : ~(f <= 0)
      /\ \A f \in DOMAIN fixups' : ~(f <= 0)
      /\ \A s \in Texts' : ~(s <= 0)
  <2>1. DataRefs' \subseteq DOMAIN fixups /\ Texts' \subseteq DOMAIN sections
    BY <1>1 DEF DataRefs, Texts
  <2>2. PICK F \in Nat, N \in Nat : DOMAIN fixups = 1..F /\ DOMAIN sections = 1..N
    BY RefCounts
  <2>3. (\A k \in 1..F : ~(k <= 0)) /\ (\A k \in 1..N : ~(k <= 0))
    OBVIOUS
  <2> QED
    BY <2>1, <2>2, <2>3, <1>1
<1>4. RelsFrom(0, 0)'
  BY <1>2, <1>3 DEF RelsFrom, DataRelsFrom, CodeRelsFrom
<1>5. NumbersFrom(0)'
  BY <1>3 DEF NumbersFrom
<1>6. (next - 1)' = 0
  BY <1>1
<1>7. RelsFrom(next - 1, 0)'
  <2>1. 0' = 0
    OBVIOUS
  <2> QED
    BY <1>4, <1>6, <2>1, RelsNext
<1>8. NumbersFrom(next - 1)'
  BY <1>5, <1>6 DEF NumbersFrom
<1> QED
  BY <1>1, <1>7, <1>8, FixupsKept DEF RefParts, Related

LEMMA FixupsEndRefs ==
  ASSUME TypeInv, RefParts, FixupsEnd
  PROVE  RefParts'
<1>1. /\ stage = "fixups" /\ stage' = "kernels" /\ next' = 1 /\ next > Len(fixups)
      /\ UNCHANGED <<src, sections, fixups, labels, rels>> /\ symtab' = symtab
  BY GoesOn DEF FixupsEnd, scanned, tables
<1>2. SameRefs
  BY <1>1, UnchangedWorked, SameLabels, SameSymtab, RefsSame
<1>3. PICK F \in Nat, n \in Nat : F = Len(fixups) /\ n = next - 1
  <2>1. Len(fixups) \in Nat /\ next - 1 \in Nat
    BY RefCounts
  <2> QED
    BY <2>1
<1>4. RelsFrom(n, 0) /\ NumbersFrom(n) /\ FixupsApart
  BY <1>1, <1>3 DEF RefParts
<1>5. \A f \in DOMAIN fixups : f <= n /\ f <= F
  BY <1>1, <1>3, RefCounts
<1>6. RelsFrom(F, 0)
  <2>1. \A f \in DataRefs : f <= n <=> f <= F
    BY <1>5, RefCounts
  <2> QED
    BY <2>1, <1>4, RelsUpTo
<1>7. NumbersFrom(F)
  BY <1>4, <1>5, NumbersUpTo
<1>8. RelsFrom(F, 0)' /\ NumbersFrom(F)' /\ FixupsApart'
  BY <1>1, <1>2, <1>4, <1>6, <1>7, RelsKept, NumbersKept, ApartKept
<1>9. Len(fixups)' = F /\ (next - 1)' = 0
  BY <1>1, <1>3
<1>10. RelsFrom(Len(fixups), next - 1)'
  BY <1>8, <1>9, RelsNext
<1>11. NumbersFrom(Len(fixups))'
  BY <1>8, <1>9 DEF NumbersFrom
<1> QED
  BY <1>1, <1>8, <1>10, <1>11 DEF RefParts, Related

\* What stays of a fixup when its section goes on and keeps what it holds.
LEMMA FixupStays ==
  ASSUME TypeInv, FixupsApart, FixupsWithin, FixupsHeld, NEW f \in DOMAIN fixups,
         \A s \in DOMAIN sections :
           /\ sections'[s].name = sections[s].name
           /\ ~IsText(sections[s].name) =>
                /\ sections'[s].pos \in Nat /\ sections'[s].pos >= sections[s].pos
                /\ DOMAIN sections[s].items \subseteq DOMAIN sections'[s].items
  PROVE  /\ fixups[f].at \in Nat /\ fixups[f].len \in Nat /\ ~IsText(sections'[fixups[f].sec].name)
         /\ fixups[f].at + fixups[f].len <= sections[fixups[f].sec].pos
         /\ fixups[f].at + fixups[f].len <= sections'[fixups[f].sec].pos
         /\ fixups[f].at \in DOMAIN sections'[fixups[f].sec].items
<1>1. PICK x : x = fixups[f]
  OBVIOUS
<1>2. x.sec \in DOMAIN sections /\ sections[x.sec].pos \in Nat
  BY <1>1 DEF TypeInv, FixupsTyped, SectionsTyped, IsSection
<1>3. ~IsText(sections[x.sec].name) /\ x.at \in Nat /\ x.len \in Nat
  BY <1>1 DEF FixupsApart
<1>4. x.at + x.len <= sections[x.sec].pos /\ x.at \in DOMAIN sections[x.sec].items
  BY <1>1 DEF FixupsWithin, FixupsHeld
<1>5. PICK u \in Nat, w \in Nat : u = sections[x.sec].pos /\ w = sections'[x.sec].pos /\ w >= u
  BY <1>2, <1>3
<1>6. x.at + x.len <= w
  BY <1>3, <1>4, <1>5
<1>7. sections'[x.sec].name = sections[x.sec].name /\ x.at \in DOMAIN sections'[x.sec].items
  BY <1>2, <1>3, <1>4
<1> QED
  BY <1>1, <1>3, <1>4, <1>5, <1>6, <1>7 DEF IsText

\* A line of the scan that makes no fixup: the sections hold what they held and
\* their cursors, but for code, stay or go on.
LEMMA LineRefs ==
  ASSUME TypeInv, RefParts, stage = "scan", stage' = "scan", fixups' = fixups, rels' = rels,
         \A s \in DOMAIN sections :
           /\ sections'[s].name = sections[s].name
           /\ ~IsText(sections[s].name) =>
                /\ sections'[s].pos \in Nat /\ sections'[s].pos >= sections[s].pos
                /\ sections'[s].items = sections[s].items
  PROVE  RefParts'
<1>1. FixupsApart /\ FixupsWithin /\ FixupsHeld
  BY DEF RefParts
<1>2. ASSUME NEW f \in DOMAIN fixups
      PROVE  /\ fixups'[f] = fixups[f] /\ ~IsText(sections'[fixups[f].sec].name)
             /\ fixups[f].at + fixups[f].len <= sections'[fixups[f].sec].pos
             /\ fixups[f].at \in DOMAIN sections'[fixups[f].sec].items
  BY <1>1, FixupStays
<1>3. FixupsApart'
  BY <1>1, <1>2 DEF FixupsApart, IsText
<1>4. FixupsWithin' /\ FixupsHeld'
  BY <1>2 DEF FixupsWithin, FixupsHeld
<1> QED
  BY <1>3, <1>4 DEF RefParts, Related

LEMMA OneLineRefs ==
  ASSUME TypeInv, RefParts, stage = "scan", Stay, fixups' = fixups, rels' = rels,
         NEW c \in DOMAIN sections, NEW e, sections' = [sections EXCEPT ![c] = e], e.name = sections[c].name, e.pos \in Nat,
         ~IsText(sections[c].name) => e.pos >= sections[c].pos /\ e.items = sections[c].items
  PROVE  RefParts'
<1>1. \A s \in DOMAIN sections : sections'[s] = IF s = c THEN e ELSE sections[s]
  OBVIOUS
<1>2. \A s \in DOMAIN sections : sections[s].pos \in Nat /\ sections[s].pos >= sections[s].pos
  BY DEF TypeInv, SectionsTyped, IsSection
<1>3. stage' = "scan"
  BY DEF Stay
<1> QED
  BY <1>1, <1>2, <1>3, LineRefs

LEMMA EmitPos ==
  ASSUME NEW t, DOMAIN t = SectionFields, t.pos \in Nat, NEW n \in Nat, NEW e, e = Emit(t, n)
  PROVE  e.name = t.name /\ e.items = t.items /\ e.pos \in Nat /\ e.pos >= t.pos
<1>1. e.pos = t.pos + n /\ e.name = t.name /\ e.items = t.items
  BY EmitIs DEF SectionFields
<1> QED
  BY <1>1

LEMMA AlignRefs ==
  ASSUME TypeInv, RefParts, Align
  PROVE  RefParts'
<1> DEFINE t == sections[cur]
           n == Aligned(t.pos, Line.n) - t.pos
           e == IF t.pos # 0 THEN Emit(t, n)
                ELSE IF t.align = 0 THEN [t EXCEPT !.align = Line.n] ELSE t
<1>1. stage = "scan" /\ next <= Len(src.lines) /\ Line.op = "align" /\ cur # 0
  BY DEF Align, Scanning, Accepted
<1>2. cur \in DOMAIN sections /\ IsSection(t)
  BY <1>1, CurIs
<1>3. Line.n \in Alignments
  BY <1>1, ScannedLine DEF IsLine
<1>4. t.pos \in Nat /\ DOMAIN t = SectionFields
  BY <1>2 DEF IsSection
<1>5. n \in Nat
  BY <1>3, <1>4, AlignedUp
<1>6. sections' = [sections EXCEPT ![cur] = e]
  BY DEF Align
<1>7. e.name = t.name /\ e.items = t.items /\ e.pos \in Nat /\ e.pos >= t.pos
  <2> HIDE DEF t, n
  <2>1. CASE t.pos # 0
    BY <2>1, <1>4, <1>5, EmitPos
  <2>2. CASE t.pos = 0 /\ t.align = 0
    <3>1. e = [t EXCEPT !.align = Line.n]
      BY <2>2
    <3> QED
      BY <3>1, <1>4 DEF SectionFields
  <2>3. CASE t.pos = 0 /\ t.align # 0
    BY <2>3, <1>4
  <2> QED
    BY <2>1, <2>2, <2>3
<1>8. fixups' = fixups /\ rels' = rels /\ Stay
  BY DEF Align, scanned
<1> HIDE DEF e
<1> QED
  BY <1>1, <1>2, <1>6, <1>7, <1>8, OneLineRefs

LEMMA ZeroRefs ==
  ASSUME TypeInv, RefParts, Zero
  PROVE  RefParts'
<1> DEFINE t == sections[cur]
           e == Emit(t, Line.n)
<1>1. stage = "scan" /\ next <= Len(src.lines) /\ Line.op = "zero" /\ cur # 0
  BY DEF Zero, Scanning, Accepted
<1>2. cur \in DOMAIN sections /\ IsSection(t)
  BY <1>1, CurIs
<1>3. Line.n \in Nat
  BY <1>1, ScannedLine DEF IsLine
<1>4. sections' = [sections EXCEPT ![cur] = e]
  BY DEF Zero
<1>5. t.pos \in Nat /\ DOMAIN t = SectionFields
  BY <1>2 DEF IsSection
<1>6. e.name = t.name /\ e.items = t.items /\ e.pos \in Nat /\ e.pos >= t.pos
  <2> HIDE DEF t
  <2> QED
    BY <1>3, <1>5, EmitPos
<1>7. fixups' = fixups /\ rels' = rels /\ Stay
  BY DEF Zero, scanned
<1> HIDE DEF e
<1> QED
  BY <1>1, <1>2, <1>4, <1>6, <1>7, OneLineRefs

LEMMA CodeStepRefs ==
  ASSUME TypeInv, RefParts, Code
  PROVE  RefParts'
<1> DEFINE t == sections[cur]
           u == [t EXCEPT !.pos = Offset(insIndex)]
           e == Emit(u, Unit)
<1>1. stage = "scan" /\ next <= Len(src.lines) /\ Line.op = "code" /\ cur # 0 /\ IsText(t.name)
  BY DEF Code, Scanning, Accepted
<1>2. cur \in DOMAIN sections /\ IsSection(t)
  BY <1>1, CurIs
<1>3. Offset(insIndex) \in Nat /\ Unit \in Nat
  BY OffsetType, UnitType DEF TypeInv
<1>4. sections' = [sections EXCEPT ![cur] = e]
  BY DEF Code
<1>5. e.name = t.name /\ e.pos \in Nat
  <2>1. DOMAIN t = SectionFields
    BY <1>2 DEF IsSection
  <2> HIDE DEF t
  <2>2. DOMAIN u = SectionFields /\ u.pos \in Nat /\ u.name = t.name
    BY <2>1, <1>3 DEF SectionFields
  <2> HIDE DEF u
  <2> QED
    BY <2>2, <1>3, EmitPos
<1>6. fixups' = fixups /\ rels' = rels /\ Stay
  BY DEF Code
<1> HIDE DEF e
<1> QED
  BY <1>1, <1>2, <1>4, <1>5, <1>6, OneLineRefs

LEMMA SameSectionsRefs ==
  ASSUME TypeInv, RefParts, Label \/ OffsetLabel \/ Size \/ Segment
  PROVE  RefParts'
<1>1. stage = "scan" /\ Stay /\ UNCHANGED <<sections, fixups, rels>>
  BY DEF Label, OffsetLabel, Size, Segment, Scanning
<1>2. stage' = "scan"
  BY <1>1 DEF Stay
<1>3. \A s \in DOMAIN sections : sections[s].pos \in Nat /\ sections[s].pos >= sections[s].pos
  BY DEF TypeInv, SectionsTyped, IsSection
<1> QED
  BY <1>1, <1>2, <1>3, LineRefs

LEMMA SectionRefs ==
  ASSUME TypeInv, RefParts, Section
  PROVE  RefParts'
<1>1. stage = "scan" /\ Stay /\ fixups' = fixups /\ rels' = rels
  BY DEF Section, Scanning
<1>2. stage' = "scan"
  BY <1>1 DEF Stay
<1>3. PICK q : OneOpened(q)
  BY SectionOpened
<1>4. \A s \in DOMAIN sections : sections[s].pos \in Nat /\ sections[s].pos >= sections[s].pos
  BY DEF TypeInv, SectionsTyped, IsSection
<1> QED
  BY <1>1, <1>2, <1>3, <1>4, LineRefs DEF OneOpened

\* A datum is put at the cursor, behind the data before it; its fixup is there.
LEMMA DataPut ==
  ASSUME NEW t, NEW u, DOMAIN u = SectionFields, u.name = t.name, u.pos = t.pos, t.pos \in Nat, NEW n \in Nat,
         NEW d, d \in DOMAIN u.items, DOMAIN t.items \subseteq DOMAIN u.items, NEW e, e = Emit(u, n)
  PROVE  /\ e.name = t.name /\ e.pos = t.pos + n
         /\ d \in DOMAIN e.items /\ DOMAIN t.items \subseteq DOMAIN e.items
<1>1. e.name = u.name /\ e.items = u.items /\ e.pos = u.pos + n
  BY EmitIs DEF SectionFields
<1> QED
  BY <1>1

LEMMA DataDoes ==
  ASSUME TypeInv, Data
  PROVE  /\ stage = "scan" /\ stage' = "scan" /\ rels' = rels /\ cur \in DOMAIN sections /\ Line.len \in Nat /\ Pos \in Nat
         /\ \A s \in DOMAIN sections :
              /\ sections'[s].name = sections[s].name /\ sections'[s].pos \in Nat /\ sections'[s].pos >= sections[s].pos
              /\ DOMAIN sections[s].items \subseteq DOMAIN sections'[s].items
         /\ sections'[cur].pos = Pos + Line.len /\ Pos \in DOMAIN sections'[cur].items
         /\ \/ fixups' = fixups
            \/ \E f : f.sec = cur /\ f.at = Pos /\ f.len = Line.len /\ fixups' = Append(fixups, f)
<1> DEFINE t == sections[cur]
           v == [head |-> Line.head, num |-> Line.n]
           e == Emit([t EXCEPT !.items = Put(t.items, Pos, v)], Line.len)
           f == [sec |-> cur, at |-> Pos, len |-> Line.len, form |-> Line.form, expr |-> Line.expr]
<1>1. stage = "scan" /\ next <= Len(src.lines) /\ Line.op = "data" /\ cur # 0 /\ Stay /\ rels' = rels
  BY DEF Data, Scanning, Accepted
<1>2. cur \in DOMAIN sections /\ IsSection(t)
  BY <1>1, CurIs
<1>3. Line.len \in Nat
  BY <1>1, ScannedLine DEF IsLine
<1>4. sections' = [sections EXCEPT ![cur] = e]
  BY DEF Data
<1>5. DOMAIN t = SectionFields /\ t.pos \in Nat /\ Pos = t.pos
  BY <1>2 DEF IsSection, Pos
<1>6. fixups' = fixups \/ fixups' = Append(fixups, f)
  BY DEF Data
<1>7. f.sec = cur /\ f.at = Pos /\ f.len = Line.len
  OBVIOUS
<1> HIDE DEF t, v, f
<1>8. e.name = t.name /\ e.pos = t.pos + Line.len /\ Pos \in DOMAIN e.items /\ DOMAIN t.items \subseteq DOMAIN e.items
  <2>1. PICK i : i = Put(t.items, Pos, v)
    OBVIOUS
  <2>2. PICK u : u = [t EXCEPT !.items = i]
    OBVIOUS
  <2>3. e = Emit(u, Line.len)
    BY <2>1, <2>2
  <2>4. Pos \in DOMAIN i /\ DOMAIN t.items \subseteq DOMAIN i
    BY <2>1 DEF Put
  <2>5. DOMAIN u = SectionFields /\ u.name = t.name /\ u.pos = t.pos /\ u.items = i
    BY <2>2, <1>5 DEF SectionFields
  <2> HIDE DEF e
  <2> QED
    BY <2>3, <2>4, <2>5, <1>3, <1>5, DataPut
<1> HIDE DEF e
<1>9. \A s \in DOMAIN sections : sections'[s] = IF s = cur THEN e ELSE sections[s]
  BY <1>4
<1>10. e.pos \in Nat /\ e.pos >= t.pos
  BY <1>3, <1>5, <1>8
<1>11. ASSUME NEW s \in DOMAIN sections
       PROVE  /\ sections'[s].name = sections[s].name /\ sections'[s].pos \in Nat /\ sections'[s].pos >= sections[s].pos
              /\ DOMAIN sections[s].items \subseteq DOMAIN sections'[s].items
  <2>1. CASE s = cur
    BY <2>1, <1>2, <1>8, <1>9, <1>10 DEF t
  <2>2. CASE s # cur
    <3>1. sections[s].pos \in Nat
      BY DEF TypeInv, SectionsTyped, IsSection
    <3> QED
      BY <3>1, <2>2, <1>9
  <2> QED
    BY <2>1, <2>2
<1>12. stage' = "scan"
  BY <1>1 DEF Stay
<1>13. \/ fixups' = fixups
       \/ \E g : g.sec = cur /\ g.at = Pos /\ g.len = Line.len /\ fixups' = Append(fixups, g)
  BY <1>6, <1>7
<1>14. sections'[cur].pos = Pos + Line.len /\ Pos \in DOMAIN sections'[cur].items
  BY <1>2, <1>5, <1>8, <1>9
<1> QED
  BY <1>1, <1>2, <1>3, <1>5, <1>11, <1>12, <1>13, <1>14

LEMMA DataRefsStep ==
  ASSUME TypeInv, LandInv, CodeOnly, RefParts, Data
  PROVE  RefParts'
<1>1. /\ stage = "scan" /\ stage' = "scan" /\ rels' = rels /\ cur \in DOMAIN sections /\ Line.len \in Nat /\ Pos \in Nat
      /\ \A s \in DOMAIN sections :
           /\ sections'[s].name = sections[s].name /\ sections'[s].pos \in Nat /\ sections'[s].pos >= sections[s].pos
           /\ DOMAIN sections[s].items \subseteq DOMAIN sections'[s].items
      /\ sections'[cur].pos = Pos + Line.len /\ Pos \in DOMAIN sections'[cur].items
  BY DataDoes
<1>2. ~IsText(sections[cur].name)
  <2>1. next <= Len(src.lines) /\ Line.op = "data" /\ cur # 0
    BY DEF Data, Scanning, Accepted
  <2> QED
    BY <2>1, <1>1, TextLine
<1>3. FixupsApart /\ FixupsWithin /\ FixupsHeld /\ rels = <<>>
  BY <1>1 DEF RefParts
<1>4. ASSUME NEW g \in DOMAIN fixups
      PROVE  /\ fixups[g].at \in Nat /\ fixups[g].len \in Nat /\ ~IsText(sections'[fixups[g].sec].name)
             /\ fixups[g].at + fixups[g].len <= sections'[fixups[g].sec].pos
             /\ fixups[g].at \in DOMAIN sections'[fixups[g].sec].items
             /\ fixups[g].sec = cur => fixups[g].at + fixups[g].len <= Pos
  BY <1>1, <1>3, FixupStays DEF Pos
<1>5. FixupsApart' /\ FixupsWithin' /\ FixupsHeld'
  <2>1. CASE fixups' = fixups
    BY <2>1, <1>3, <1>4 DEF FixupsApart, FixupsWithin, FixupsHeld, IsText
  <2>2. CASE \E f : f.sec = cur /\ f.at = Pos /\ f.len = Line.len /\ fixups' = Append(fixups, f)
    <3>1. PICK f : f.sec = cur /\ f.at = Pos /\ f.len = Line.len /\ fixups' = Append(fixups, f)
      BY <2>2
    <3>2. PICK F \in Nat : F = Len(fixups) /\ DOMAIN fixups = 1..F
      BY RefCounts
    <3>3. PICK c \in Nat : c = F + 1
      BY <3>2
    <3>4. /\ DOMAIN fixups' = DOMAIN fixups \cup {c} /\ fixups'[c] = f
          /\ \A g \in DOMAIN fixups : fixups'[g] = fixups[g]
      BY <3>1, <3>2, <3>3, AppendIs DEF TypeInv, FixupsTyped
    <3>5. \A g \in DOMAIN fixups : g \in Nat /\ g < c
      BY <3>2, <3>3
    <3>6. ~IsText(sections'[cur].name) /\ f.at + f.len <= sections'[cur].pos /\ f.at \in DOMAIN sections'[cur].items
      BY <1>1, <3>1, <1>2 DEF IsText
    <3>7. FixupsApart'
      <4>1. ASSUME NEW g \in DOMAIN fixups'
            PROVE  fixups'[g].at \in Nat /\ fixups'[g].len \in Nat /\ ~IsText(sections'[fixups'[g].sec].name)
        BY <3>1, <3>4, <3>6, <1>1, <1>4
      <4>2. ASSUME NEW g \in DOMAIN fixups', NEW h \in DOMAIN fixups', g < h, fixups'[g].sec = fixups'[h].sec
            PROVE  fixups'[g].at + fixups'[g].len <= fixups'[h].at
        <5>1. g \in DOMAIN fixups
          <6>1. g = c => ~(g < h)
            BY <3>4, <3>5
          <6> QED
            BY <6>1, <4>2, <3>4
        <5>2. CASE h = c
          BY <5>1, <5>2, <4>2, <3>1, <3>4, <1>4
        <5>3. CASE h # c
          BY <5>1, <5>3, <4>2, <3>4, <1>3 DEF FixupsApart
        <5> QED
          BY <5>2, <5>3
      <4> QED
        BY <4>1, <4>2 DEF FixupsApart, IsText
    <3>8. FixupsWithin' /\ FixupsHeld'
      BY <3>1, <3>4, <3>6, <1>4 DEF FixupsWithin, FixupsHeld
    <3> QED
      BY <3>7, <3>8
  <2> QED
    BY <2>1, <2>2, DataDoes
<1> QED
  BY <1>1, <1>3, <1>5 DEF RefParts, Related

\* The first state, a file parsed again, a mistake.
LEMMA EmptyRefs ==
  ASSUME DOMAIN fixups = {}, stage = "scan", rels = <<>>
  PROVE  RefParts
  BY DEF RefParts, FixupsApart, FixupsWithin, FixupsHeld, Related

LEMMA InitRefs ==
  ASSUME Init
  PROVE  RefInv
<1>1. DOMAIN fixups = {} /\ stage = "scan" /\ rels = <<>>
  BY NoneIsSeq DEF Init
<1> QED
  BY <1>1, EmptyRefs DEF RefInv

LEMMA ParseRefs ==
  ASSUME Parse
  PROVE  RefParts'
<1>1. PICK f \in Again : Restart(f)
  BY DEF Parse
<1>2. DOMAIN fixups' = {} /\ stage' = "scan" /\ rels' = <<>>
  BY <1>1, NoneIsSeq DEF Restart
<1> QED
  BY <1>2 DEF RefParts, FixupsApart, FixupsWithin, FixupsHeld, Related

LEMMA FailRefs ==
  ASSUME RefParts, Throw
  PROVE  RefParts'
<1>1. stage' = "failed" /\ UNCHANGED <<sections, fixups>>
  BY ThrowFails DEF Fail, scanned
<1> QED
  BY <1>1, FixupsKept DEF RefParts, Related

LEMMA StutterRefs ==
  ASSUME TypeInv, RefParts, UNCHANGED vars
  PROVE  RefParts'
<1>1. /\ stage' = stage /\ next' = next /\ UNCHANGED <<src, sections, fixups, labels, rels>> /\ symtab' = symtab
  BY DEF vars, scanned, tables
<1>2. SameRefs
  BY <1>1, UnchangedWorked, SameLabels, SameSymtab, RefsSame
<1>3. (FixupsApart => FixupsApart') /\ (FixupsWithin => FixupsWithin') /\ (FixupsHeld => FixupsHeld')
  BY <1>1, FixupsKept
<1>4. PICK n, F, N : n = next - 1 /\ F = Len(fixups) /\ N = Len(sections)
  OBVIOUS
<1>5. (next - 1)' = n /\ Len(fixups)' = F /\ Len(sections)' = N
  BY <1>1, <1>4
<1>6. RelsFrom(next - 1, 0) => RelsFrom(next - 1, 0)'
  BY <1>1, <1>2, <1>4, RelsKept, <1>5, RelsNext
<1>7. RelsFrom(Len(fixups), next - 1) => RelsFrom(Len(fixups), next - 1)'
  <2>1. RelsFrom(Len(fixups), next - 1) => RelsFrom(F, n)'
    BY <1>1, <1>2, <1>4, RelsKept
  <2> QED
    BY <1>5, <2>1, RelsNext
<1>8. RelsFrom(Len(fixups), Len(sections)) => RelsFrom(Len(fixups), Len(sections))'
  <2>1. RelsFrom(Len(fixups), Len(sections)) => RelsFrom(F, N)'
    BY <1>1, <1>2, <1>4, RelsKept
  <2> QED
    BY <1>5, <2>1, RelsNext
<1>9. /\ FixupsApart /\ NumbersFrom(next - 1) => NumbersFrom(next - 1)'
      /\ FixupsApart /\ NumbersFrom(Len(fixups)) => NumbersFrom(Len(fixups))'
  <2>1. ASSUME NEW m, NumbersFrom(m), FixupsApart PROVE NumbersFrom(m)'
    BY <1>1, <1>2, <2>1, NumbersKept
  <2>2. FixupsApart /\ NumbersFrom(next - 1) => NumbersFrom(n)'
    BY <2>1, <1>4
  <2>3. FixupsApart /\ NumbersFrom(Len(fixups)) => NumbersFrom(F)'
    BY <2>1, <1>4
  <2> QED
    BY <1>5, <2>2, <2>3 DEF NumbersFrom
<1>10. EntriesBuilt => EntriesBuilt'
  BY <1>1, <1>2, BuiltKept
<1> QED
  BY <1>1, <1>3, <1>6, <1>7, <1>8, <1>9, <1>10 DEF RefParts, Related

\* Every step keeps what the references rest on.
LEMMA WorkRefs ==
  ASSUME TypeInv, LandInv, CoverInv, CodeOnly, RefParts, Work
  PROVE  RefParts'
<1>1. CASE Scan
  BY <1>1, SectionRefs, AlignRefs, DataRefsStep, ZeroRefs, CodeStepRefs, SameSectionsRefs, ScanEndRefs DEF Scan
<1>2. CASE Evaluate
  BY <1>2, GatherRefs, TablesRefs, FixupRefs, FixupsEndRefs DEF Evaluate
<1>3. CASE Kernels
  BY <1>3, KernelRefs, SkipRefs, CountsRefs DEF Kernels
<1>4. CASE BuildRelocations
  BY <1>4, RelocationsRefs
<1>5. CASE Layout
  BY <1>5, FirstRefs, LayoutRefs, LeaveRefs DEF Layout
<1>6. CASE UpdateSymtab \/ Save
  BY <1>6, SymtabRefs, LeaveRefs
<1>7. CASE Throw
  BY <1>7, FailRefs
<1> QED
  BY <1>1, <1>2, <1>3, <1>4, <1>5, <1>6, <1>7 DEF Work

LEMMA WorkSrc ==
  ASSUME Work
  PROVE  src' = src
<1>1. CASE Scan
  BY <1>1 DEF Scan, Section, Align, Data, Zero, Label, OffsetLabel, Code, Size, Segment, ScanEnd
<1>2. CASE Evaluate \/ Kernels
  BY <1>2 DEF Evaluate, Gather, BuildTables, EvalFixup, FixupsEnd, Kernels, ParseKernel, SkipSection, KernelsEnd, CountRegs
<1>3. CASE BuildRelocations \/ Layout \/ UpdateSymtab \/ Save
  BY <1>3 DEF BuildRelocations, Layout, LayoutFirstSection, LayoutSection, SkipNull, LayoutEnd, LocateSegments, UpdateSymtab, Save
<1>4. CASE Throw
  BY <1>4, ThrowFails DEF Fail
<1> QED
  BY <1>1, <1>2, <1>3, <1>4 DEF Work

LEMMA NextRefs ==
  ASSUME TypeInv, LandInv, CoverInv, RefInv, [Next]_vars
  PROVE  RefInv'
<1> SUFFICES ASSUME CodeOnly' PROVE RefParts'
  BY DEF RefInv
<1>1. CASE Work
  <2>1. CodeOnly
    BY <1>1, WorkSrc, LinesSame
  <2> QED
    BY <2>1, <1>1, WorkRefs DEF RefInv
<1>2. CASE Parse
  BY <1>2, ParseRefs
<1>3. CASE UNCHANGED vars
  <2>1. CodeOnly
    BY <1>3, LinesSame DEF vars
  <2> QED
    BY <2>1, <1>3, StutterRefs DEF RefInv
<1> QED
  BY <1>1, <1>2, <1>3 DEF Next

\* Of every file whose text sections hold instructions only, and whose references
\* are a symbol or a symbol and a number: each reference to a symbol, from data
\* (evalFixups) or from an instruction (evalInstructionFixup), has one entry, of
\* that symbol and with that number, in the relocation section of its section,
\* and no entry is of anything else.  That is the work of four passes: the scan
\* puts data one behind the other (emitTypedBytes), the fixups and the kernels
\* make the relocations, one at a place, and buildRelocationSections sorts them
\* by the names of their sections.
THEOREM RelocationsAreComplete == Spec => [](CodeOnly /\ PlainRefs => RelocationsComplete)
<1>1. ASSUME Init PROVE TypeInv /\ LandInv /\ CoverInv /\ RefInv
  BY <1>1, InitTyped, InitLands, InitCovers, InitRefs
<1>2. ASSUME TypeInv /\ LandInv /\ CoverInv /\ RefInv, [Next]_vars PROVE (TypeInv /\ LandInv /\ CoverInv /\ RefInv)'
  BY <1>2, NextTyped, NextLands, NextCovers, NextRefs
<1>3. ASSUME TypeInv /\ LandInv /\ CoverInv /\ RefInv PROVE CodeOnly /\ PlainRefs => RelocationsComplete
  BY <1>3, DoneRefs
<1> QED
  BY <1>1, <1>2, <1>3, PTL DEF Spec

=============================================================================
