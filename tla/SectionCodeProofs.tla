-------------------------- MODULE SectionCodeProofs --------------------------
(***************************************************************************)
(* The layout of sections for fields of any width and kernels of any       *)
(* length: what is merged into a section is split from it, instruction by  *)
(* instruction, so storing other control codes changes nothing else.       *)
(* And the fields of one control code, for every code and every text.      *)
(***************************************************************************)
EXTENDS SectionCode, TLAPS

\* The offset of an instruction leads back to its index.
THEOREM OffsetsInvert == \A i \in Nat : Index(Offset(i)) = i
<1> SUFFICES ASSUME NEW i \in Nat PROVE Index(Offset(i)) = i
  OBVIOUS
<1>1. CASE ~Grouped
  <2>1. (16 * i) \div 16 = i
    BY SMT
  <2> QED
    BY <1>1, <2>1 DEF Index, Offset
<1>2. CASE Grouped
  <2>1. PICK q \in Nat, r \in 0..2 : i = 3 * q + r /\ i \div 3 = q
    <3>1. i \div 3 \in Nat /\ i % 3 \in 0..2 /\ i = 3 * (i \div 3) + (i % 3)
      BY SMT
    <3> QED
      BY <3>1
  <2>2. Offset(i) = 8 * (4 * q + (r + 1))
    BY <1>2, <2>1, SMT DEF Offset
  <2>3. (8 * (4 * q + (r + 1))) \div 8 = 4 * q + (r + 1)
    BY <2>1, SMT
  <2>4. (4 * q + (r + 1)) % 4 = r + 1 /\ (4 * q + (r + 1)) \div 4 = q
    BY <2>1, SMT
  <2> QED
    BY <1>2, <2>1, <2>2, <2>3, <2>4, SMT DEF Index
<1> QED
  BY <1>1, <1>2

-----------------------------------------------------------------------------
\* Arithmetic of fields.

LEMMA DivMod ==
  ASSUME NEW K \in Nat \ {0}, NEW q \in Nat, NEW s \in Nat, s < K
  PROVE  (s + K * q) % K = s /\ (s + K * q) \div K = q
  BY SMTT(30)

LEMMA ModSmall ==
  ASSUME NEW K \in Nat \ {0}, NEW s \in Nat, s < K
  PROVE  s % K = s
  BY SMTT(30)

\* Two fields beside one another stay below the product of their sizes.
LEMMA FieldBound ==
  ASSUME NEW K \in Nat \ {0}, NEW N \in Nat \ {0}, NEW q \in Nat, q < N, NEW s \in Nat, s < K
  PROVE  s + K * q \in Nat /\ s + K * q < K * N /\ K * N \in Nat \ {0}
<1>1. q + 1 <= N
  BY SMT
<1>2. K * (q + 1) <= K * N
  BY <1>1, SMTT(30)
<1>3. K * (q + 1) = K * q + K /\ K * q \in Nat
  BY SMTT(30)
<1>4. K * N \in Nat
  BY SMT
<1> QED
  BY <1>2, <1>3, <1>4, SMT

\* The sizes and what they make.
LEMMA Sizes ==
  /\ CtrlSize \in Nat \ {0} /\ ReuseSize \in Nat \ {0} /\ InsSize \in Nat \ {0}
  /\ LowSize \in Nat \ {0} /\ HighSize \in Nat \ {0}
  /\ Slot \in Nat \ {0}
  BY SizeAssumption, SMT DEF Slot

\* What an instruction puts into the control word, and what comes back.
LEMMA MixedFields ==
  ASSUME Grouped, NEW i, IsIns(i), NEW c \in Ctrls
  PROVE  /\ Mixed(i, c) \in Nat /\ Mixed(i, c) < Slot
         /\ Mixed(i, c) % CtrlSize = c
         /\ (i % InsSize) + InsSize * (CtrlSize * (Mixed(i, c) \div CtrlSize)) = i
<1>1. PICK a \in 0..(InsSize - 1), b \in 0..(ReuseSize - 1) : i = a + InsSize * (CtrlSize * b)
  BY DEF IsIns
<1>2. CtrlSize * b \in Nat /\ a \in Nat /\ a < InsSize /\ b \in Nat /\ b < ReuseSize /\ c \in Nat /\ c < CtrlSize
  BY Sizes, SMT DEF Ctrls
<1>3. i % InsSize = a /\ i \div InsSize = CtrlSize * b
  BY <1>1, <1>2, Sizes, DivMod
<1>4. Mixed(i, c) = c + CtrlSize * b
  BY <1>3 DEF Mixed
<1>5. Mixed(i, c) % CtrlSize = c /\ Mixed(i, c) \div CtrlSize = b
  BY <1>2, <1>4, Sizes, DivMod
<1>6. Mixed(i, c) \in Nat /\ Mixed(i, c) < Slot
  BY <1>2, <1>4, Sizes, FieldBound DEF Slot
<1> QED
  BY <1>1, <1>3, <1>5, <1>6

\* Each instruction finds its share of the control word.
LEMMA Shares ==
  ASSUME Grouped, NEW i0, NEW i1, NEW i2, IsIns(i0), IsIns(i1), IsIns(i2),
         NEW c0 \in Ctrls, NEW c1 \in Ctrls, NEW c2 \in Ctrls
  PROVE  /\ Share(CtrlWord(i0, i1, i2, c0, c1, c2), 0) = Mixed(i0, c0)
         /\ Share(CtrlWord(i0, i1, i2, c0, c1, c2), 1) = Mixed(i1, c1)
         /\ Share(CtrlWord(i0, i1, i2, c0, c1, c2), 2) = Mixed(i2, c2)
<1> DEFINE A == Mixed(i0, c0)
           B == Mixed(i1, c1)
           C == Mixed(i2, c2)
           S == Slot
           w == CtrlWord(i0, i1, i2, c0, c1, c2)
<1>1. A \in Nat /\ A < S /\ B \in Nat /\ B < S /\ C \in Nat /\ C < S /\ S \in Nat \ {0}
  BY MixedFields, Sizes
<1>2. w = (A + S * (B + S * C)) % (2 * S * S * S)
  BY DEF CtrlWord
<1> HIDE DEF A, B, C, S, w
<1>3. B + S * C \in Nat /\ B + S * C < S * S /\ S * S \in Nat \ {0}
  BY <1>1, FieldBound
<1>4. A + S * (B + S * C) \in Nat /\ A + S * (B + S * C) < S * (S * S) /\ S * (S * S) \in Nat \ {0}
  BY <1>1, <1>3, FieldBound
<1>5. 2 * S * S * S = 2 * (S * (S * S))
  BY <1>1, SMTT(30)
<1>6. w = A + S * (B + S * C)
  <2>1. 2 * (S * (S * S)) \in Nat \ {0} /\ A + S * (B + S * C) < 2 * (S * (S * S))
    BY <1>4, SMT
  <2> QED
    BY <1>2, <1>4, <1>5, <2>1, ModSmall
<1>7. w % S = A /\ w \div S = B + S * C
  BY <1>1, <1>3, <1>6, DivMod
<1>8. (w \div S) % S = B
  BY <1>1, <1>7, DivMod
<1>9. (w \div (S * S)) % S = C
  <2>1. w = (A + S * B) + (S * S) * C
    BY <1>1, <1>6, SMTT(30)
  <2>2. A + S * B \in Nat /\ A + S * B < S * S
    BY <1>1, FieldBound
  <2>3. w \div (S * S) = C
    BY <1>1, <1>3, <2>1, <2>2, DivMod
  <2> QED
    BY <1>1, <2>3, ModSmall
<1> QED
  BY <1>7, <1>8, <1>9 DEF Share, A, B, C, S, w

\* A double word holds an instruction around its control code.
LEMMA WideFields ==
  ASSUME ~Grouped, NEW i, IsIns(i), NEW c \in Ctrls, NEW w
  PROVE  w = (i + LowSize * c) % (LowSize * CtrlSize * HighSize) =>
           (w \div LowSize) % CtrlSize = c /\ w - LowSize * c = i /\ w % LowSize = i % LowSize
<1>0. SUFFICES ASSUME w = (i + LowSize * c) % (LowSize * CtrlSize * HighSize)
               PROVE  (w \div LowSize) % CtrlSize = c /\ w - LowSize * c = i
                      /\ w % LowSize = i % LowSize
  OBVIOUS
<1>1. PICK a \in 0..(LowSize - 1), b \in 0..(HighSize - 1) : i = a + LowSize * (CtrlSize * b)
  BY DEF IsIns
<1>2. a \in Nat /\ a < LowSize /\ b \in Nat /\ b < HighSize /\ c \in Nat /\ c < CtrlSize
  BY Sizes, SMT DEF Ctrls
<1>3. /\ c + CtrlSize * b \in Nat /\ c + CtrlSize * b < CtrlSize * HighSize
      /\ CtrlSize * HighSize \in Nat \ {0}
  BY <1>2, Sizes, FieldBound
<1>4. i + LowSize * c = a + LowSize * (c + CtrlSize * b)
  BY <1>1, <1>2, Sizes, SMTT(30)
<1>5. /\ a + LowSize * (c + CtrlSize * b) \in Nat
      /\ a + LowSize * (c + CtrlSize * b) < LowSize * (CtrlSize * HighSize)
      /\ LowSize * (CtrlSize * HighSize) \in Nat \ {0}
  BY <1>2, <1>3, Sizes, FieldBound
<1>6. LowSize * CtrlSize * HighSize = LowSize * (CtrlSize * HighSize)
  BY Sizes, SMTT(30)
<1>7. w = a + LowSize * (c + CtrlSize * b)
  BY <1>0, <1>4, <1>5, <1>6, ModSmall
<1>8. w \div LowSize = c + CtrlSize * b
  BY <1>2, <1>3, <1>7, Sizes, DivMod
<1>9. (w \div LowSize) % CtrlSize = c
  <2>1. (c + CtrlSize * b) % CtrlSize = c
    BY <1>2, Sizes, DivMod
  <2> QED
    BY <1>8, <2>1, Zenon
<1>10. w - LowSize * c = i
  BY <1>1, <1>2, <1>7, Sizes, SMTT(30)
<1>11. w % LowSize = a /\ i % LowSize = a
  <2>1. CtrlSize * b \in Nat
    BY <1>2, Sizes
  <2> QED
    BY <1>1, <1>2, <1>3, <1>7, <2>1, Sizes, DivMod
<1> QED
  BY <1>9, <1>10, <1>11

\* Codes of instructions are numbers.
LEMMA InsIsNat == \A i : IsIns(i) => i \in Nat
<1> SUFFICES ASSUME NEW i, IsIns(i) PROVE i \in Nat
  OBVIOUS
<1>1. CASE Grouped
  <2>1. PICK a \in 0..(InsSize - 1), b \in 0..(ReuseSize - 1) : i = a + InsSize * (CtrlSize * b)
    BY <1>1 DEF IsIns
  <2> QED
    BY <2>1, Sizes, SMTT(30)
<1>2. CASE ~Grouped
  <2>1. PICK a \in 0..(LowSize - 1), b \in 0..(HighSize - 1) : i = a + LowSize * (CtrlSize * b)
    BY <1>2 DEF IsIns
  <2> QED
    BY <2>1, Sizes, SMTT(30)
<1> QED
  BY <1>1, <1>2

-----------------------------------------------------------------------------
\* Lists of instructions and codes.

InsLists == {is \in Seq(Nat) : \A i \in 1..Len(is) : IsIns(is[i])}

\* A group has three instructions and four words.
LEMMA Groups ==
  ASSUME NEW n \in Nat
  PROVE  LET G == (n + 2) \div 3
         IN  /\ G \in Nat /\ n <= 3 * G
             /\ (3 * G + 2) \div 3 = G
             /\ (4 * G) \div 4 = G
  BY SMTT(30)

\* Where an instruction and its control word are.
LEMMA Place ==
  ASSUME NEW k \in Nat, NEW G \in Nat, k < 3 * G
  PROVE  \E q \in 0..(G - 1), p \in 0..2 :
            /\ k = 3 * q + p /\ k \div 3 = q /\ k % 3 = p
            /\ (4 * q) \div 4 = q /\ (4 * q) % 4 = 0
            /\ (4 * q + (p + 1)) \div 4 = q /\ (4 * q + (p + 1)) % 4 = p + 1
            /\ 4 * q + 1 \in 1..(4 * G) /\ 4 * q + p + 2 \in 1..(4 * G)
<1> DEFINE q == k \div 3
           p == k % 3
<1>1. q \in Nat /\ p \in 0..2 /\ k = 3 * q + p
  BY SMT
<1> HIDE DEF q, p
<1>2. q \in 0..(G - 1) /\ 4 * q + 1 \in 1..(4 * G) /\ 4 * q + p + 2 \in 1..(4 * G)
  BY <1>1, SMT
<1>3. /\ (4 * q) \div 4 = q /\ (4 * q) % 4 = 0
      /\ (4 * q + (p + 1)) \div 4 = q /\ (4 * q + (p + 1)) % 4 = p + 1
  BY <1>1, SMT
<1> QED
  BY <1>1, <1>2, <1>3 DEF q, p

LEMMA PadLength ==
  ASSUME NEW n \in Nat
  PROVE  PaddedLen(n) \in Nat /\ n <= PaddedLen(n) /\ PaddedLen(PaddedLen(n)) = PaddedLen(n)
<1>1. CASE Grouped
  BY <1>1, Groups DEF PaddedLen
<1>2. CASE ~Grouped
  BY <1>2 DEF PaddedLen
<1> QED
  BY <1>1, <1>2

\* The elements of a padded list, and past its end.
LEMMA PadElem ==
  ASSUME NEW S, NEW list \in Seq(S), NEW pad
  PROVE  /\ Len(Padded(list, pad)) = PaddedLen(Len(list))
         /\ \A k \in Nat : Elem(Padded(list, pad), k, pad) = Elem(list, k, pad)
<1> DEFINE n == Len(list)
           N == PaddedLen(n)
           P == Padded(list, pad)
<1>1. n \in Nat /\ N \in Nat /\ n <= N
  BY PadLength
<1>2. P = [j \in 1..N |-> Elem(list, j - 1, pad)]
  BY DEF Padded
<1> HIDE DEF P, N
<1>3. Len(P) = N
  BY <1>1, <1>2, SMT
<1>4. ASSUME NEW k \in Nat, k < N
      PROVE  Elem(P, k, pad) = Elem(list, k, pad)
  <2>1. k + 1 \in 1..N /\ (k + 1) - 1 = k
    BY <1>1, <1>4, SMT
  <2>2. P[k + 1] = Elem(list, k, pad)
    BY <1>2, <2>1
  <2> QED
    BY <1>3, <1>4, <2>2 DEF Elem
<1>5. ASSUME NEW k \in Nat, ~(k < N)
      PROVE  Elem(P, k, pad) = Elem(list, k, pad)
  <2>1. ~(k < n)
    BY <1>1, <1>5, SMT
  <2> QED
    BY <1>3, <1>5, <2>1 DEF Elem
<1> QED
  BY <1>3, <1>4, <1>5 DEF P, N

\* The assembler's padding is the padding of the merge.
LEMMA MergePadded ==
  ASSUME NEW is \in Seq(Nat), NEW cs \in Seq(Ctrls), Len(is) = Len(cs)
  PROVE  Merge(Padded(is, PadIns), Padded(cs, PadCtrl)) = Merge(is, cs)
<1>1. /\ \A k \in Nat : Elem(Padded(is, PadIns), k, PadIns) = Elem(is, k, PadIns)
      /\ \A k \in Nat : Elem(Padded(cs, PadCtrl), k, PadCtrl) = Elem(cs, k, PadCtrl)
  BY PadElem
<1>2. Len(Padded(is, PadIns)) = PaddedLen(Len(is)) /\ Len(is) \in Nat
  BY PadElem
<1>3. CASE Grouped
  <2>1. (PaddedLen(Len(is)) + 2) \div 3 = (Len(is) + 2) \div 3
    BY <1>2, <1>3, Groups DEF PaddedLen
  <2> DEFINE G == (Len(is) + 2) \div 3
             W(I(_), C(_), n) ==
               LET g == (n - 1) \div 4
                   p == (n - 1) % 4
               IN  IF p = 0 THEN CtrlWord(I(3 * g), I(3 * g + 1), I(3 * g + 2), C(3 * g), C(3 * g + 1), C(3 * g + 2))
                            ELSE I(3 * g + p - 1) % InsSize
  <2>2. ASSUME NEW n \in 1..(4 * G)
        PROVE  LET g == (n - 1) \div 4
                   p == (n - 1) % 4
               IN  /\ 3 * g \in Nat /\ 3 * g + 1 \in Nat /\ 3 * g + 2 \in Nat
                   /\ p # 0 => 3 * g + p - 1 \in Nat
    <3>1. G \in Nat
      BY <1>2, Groups
    <3> HIDE DEF G
    <3> QED
      BY <3>1, SMT
  <2> QED
    BY <1>1, <1>2, <1>3, <2>1, <2>2 DEF Merge
<1>4. CASE ~Grouped
  <2>1. ASSUME NEW S, NEW l \in Seq(S), NEW pad
        PROVE  Padded(l, pad) = l
    BY <1>4, SMT DEF Padded, PaddedLen, Elem
  <2> QED
    BY <2>1
<1> QED
  BY <1>3, <1>4

\* Splitting what was merged gives back the padded lists.
LEMMA RoundTrip ==
  ASSUME NEW is \in InsLists, NEW cs \in Seq(Ctrls), Len(is) = Len(cs)
  PROVE  /\ Split(Merge(is, cs)).ins = Padded(is, PadIns)
         /\ Split(Merge(is, cs)).ctrl = Padded(cs, PadCtrl)
<1> DEFINE M == Merge(is, cs)
           I(k) == Elem(is, k, PadIns)
           C(k) == Elem(cs, k, PadCtrl)
<1>1. is \in Seq(Nat) /\ Len(is) \in Nat /\ (\A i \in 1..Len(is) : IsIns(is[i]))
  BY DEF InsLists
<1>2. \A k \in Nat : IsIns(I(k)) /\ C(k) \in Ctrls
  <2> SUFFICES ASSUME NEW k \in Nat PROVE IsIns(I(k)) /\ C(k) \in Ctrls
    OBVIOUS
  <2>1. CASE k < Len(is)
    <3>1. k + 1 \in 1..Len(is)
      BY <1>1, <2>1, SMT
    <3>2. cs[k + 1] \in Ctrls
      BY <3>1
    <3> QED
      BY <1>1, <2>1, <3>1, <3>2 DEF Elem
  <2>2. CASE ~(k < Len(is))
    BY <2>2, SizeAssumption DEF Elem
  <2> QED
    BY <2>1, <2>2
<1>3. CASE Grouped
  <2> DEFINE G == (Len(is) + 2) \div 3
             W(q) == CtrlWord(I(3 * q), I(3 * q + 1), I(3 * q + 2), C(3 * q), C(3 * q + 1), C(3 * q + 2))
  <2>1. G \in Nat /\ (4 * G) \div 4 = G /\ PaddedLen(Len(is)) = 3 * G /\ PaddedLen(Len(cs)) = 3 * G
    BY <1>1, <1>3, Groups DEF PaddedLen
  <2>2. M = [n \in 1..(4 * G) |->
               LET g == (n - 1) \div 4
                   p == (n - 1) % 4
               IN  IF p = 0 THEN W(g) ELSE I(3 * g + p - 1) % InsSize]
    BY <1>3 DEF Merge
  <2> HIDE DEF G, W, M, I, C
  <2>3. Len(M) = 4 * G
    BY <2>1, <2>2, SMT
  <2>4. ASSUME NEW k \in 1..(3 * G)
        PROVE  LET s == Share(M[4 * ((k - 1) \div 3) + 1], (k - 1) % 3)
               IN  /\ M[4 * ((k - 1) \div 3) + ((k - 1) % 3) + 2] + InsSize * (CtrlSize * (s \div CtrlSize)) = I(k - 1)
                   /\ s % CtrlSize = C(k - 1)
    <3>1. k - 1 \in Nat /\ k - 1 < 3 * G
      BY <2>1, SMT
    <3>2. PICK q \in 0..(G - 1), p \in 0..2 :
            /\ k - 1 = 3 * q + p /\ (k - 1) \div 3 = q /\ (k - 1) % 3 = p
            /\ (4 * q) \div 4 = q /\ (4 * q) % 4 = 0
            /\ (4 * q + (p + 1)) \div 4 = q /\ (4 * q + (p + 1)) % 4 = p + 1
            /\ 4 * q + 1 \in 1..(4 * G) /\ 4 * q + p + 2 \in 1..(4 * G)
      BY <2>1, <3>1, Place
    <3>3. (4 * q + 1) - 1 = 4 * q /\ (4 * q + p + 2) - 1 = 4 * q + (p + 1) /\ p + 1 # 0
          /\ 3 * q + (p + 1) - 1 = k - 1
      BY <3>2, SMT
    <3>4. M[4 * q + 1] = W(q) /\ M[4 * q + p + 2] = I(k - 1) % InsSize
      BY <2>2, <3>2, <3>3
    <3>5. 3 * q \in Nat /\ 3 * q + 1 \in Nat /\ 3 * q + 2 \in Nat
      BY <3>2, SMT
    <3>6. Share(W(q), p) = Mixed(I(k - 1), C(k - 1))
      <4>1. /\ Share(W(q), 0) = Mixed(I(3 * q), C(3 * q))
            /\ Share(W(q), 1) = Mixed(I(3 * q + 1), C(3 * q + 1))
            /\ Share(W(q), 2) = Mixed(I(3 * q + 2), C(3 * q + 2))
        <5>1. /\ IsIns(I(3 * q)) /\ IsIns(I(3 * q + 1)) /\ IsIns(I(3 * q + 2))
              /\ C(3 * q) \in Ctrls /\ C(3 * q + 1) \in Ctrls /\ C(3 * q + 2) \in Ctrls
          BY <1>2, <3>5
        <5> QED
          BY <1>3, <5>1, Shares DEF W
      <4>2. p = 0 \/ p = 1 \/ p = 2
        BY SMT
      <4>3. p = 0 => k - 1 = 3 * q
        BY <3>2, SMT
      <4> QED
        BY <3>2, <4>1, <4>2, <4>3
    <3>7. /\ Mixed(I(k - 1), C(k - 1)) % CtrlSize = C(k - 1)
          /\ (I(k - 1) % InsSize) + InsSize * (CtrlSize * (Mixed(I(k - 1), C(k - 1)) \div CtrlSize)) = I(k - 1)
      BY <1>2, <1>3, <3>1, MixedFields
    <3> QED
      BY <3>2, <3>4, <3>6, <3>7
  <2>5. Split(M).ins = [k \in 1..(3 * G) |-> I(k - 1)] /\ Split(M).ctrl = [k \in 1..(3 * G) |-> C(k - 1)]
    BY <1>3, <2>1, <2>3, <2>4 DEF Split
  <2> QED
    BY <2>1, <2>5 DEF Padded, M, I, C
<1>4. CASE ~Grouped
  <2>1. M = [n \in 1..Len(is) |-> (is[n] + LowSize * cs[n]) % (LowSize * CtrlSize * HighSize)]
    BY <1>4 DEF Merge
  <2> HIDE DEF M
  <2>2. Len(M) = Len(is)
    BY <1>1, <2>1, SMT
  <2>3. ASSUME NEW k \in 1..Len(is)
        PROVE  /\ (M[k] \div LowSize) % CtrlSize = C(k - 1)
               /\ M[k] - LowSize * C(k - 1) = I(k - 1)
    <3>1. k - 1 \in Nat /\ k - 1 < Len(is) /\ (k - 1) + 1 = k
      BY <1>1, SMT
    <3>2. I(k - 1) = is[k] /\ C(k - 1) = cs[k] /\ cs[k] \in Ctrls
      BY <3>1 DEF Elem
    <3> QED
      BY <1>1, <1>4, <2>1, <3>2, WideFields
  <2>4. /\ Split(M).ins = [k \in 1..Len(is) |-> I(k - 1)]
        /\ Split(M).ctrl = [k \in 1..Len(is) |-> C(k - 1)]
    BY <1>4, <2>2, <2>3 DEF Split
  <2> QED
    BY <1>4, <2>4 DEF Padded, PaddedLen, M
<1> QED
  BY <1>3, <1>4

-----------------------------------------------------------------------------
\* The section through loads, corrections and stores.

PadIs == Padded(kernel.ins, PadIns)
Lists == {cs \in Seq(Ctrls) : Len(cs) = Len(PadIs)}

\* The instructions in memory are the assembled ones as soon as there are
\* any; the section is always the merge of them with some codes, and with
\* the codes in memory unless they have been corrected since the load.
IInv ==
  /\ kernel \in Kernels
  /\ stage \in {"source", "section", "loaded"}
  /\ ~thrown
  /\ stage # "source" =>
       /\ ins = PadIs
       /\ ctrl \in Lists
       /\ \E cs \in Lists : section = Merge(PadIs, cs)
  /\ stage = "section" => section = Merge(PadIs, ctrl)

\* A padded list is its own padding.
LEMMA PadTwice ==
  ASSUME NEW k \in Kernels
  PROVE  /\ Padded(k.ins, PadIns) \in InsLists
         /\ Padded(k.ctrl, PadCtrl) \in Seq(Ctrls)
         /\ Len(Padded(k.ins, PadIns)) = Len(Padded(k.ctrl, PadCtrl))
         /\ PaddedLen(Len(Padded(k.ins, PadIns))) = Len(Padded(k.ins, PadIns))
<1> DEFINE is == k.ins
           cs == k.ctrl
           N == PaddedLen(Len(is))
<1>1. /\ is \in Seq(Nat) /\ cs \in Seq(Ctrls) /\ Len(is) = Len(cs) /\ Len(is) \in Nat
      /\ \A i \in 1..Len(is) : IsIns(is[i])
  BY KernelAssumption
<1> HIDE DEF is, cs
<1>2. N \in Nat /\ PaddedLen(N) = N
  BY <1>1, PadLength
<1>3. /\ Padded(is, PadIns) = [j \in 1..N |-> Elem(is, j - 1, PadIns)]
      /\ Padded(cs, PadCtrl) = [j \in 1..N |-> Elem(cs, j - 1, PadCtrl)]
  BY <1>1 DEF Padded
<1>4. PadIns \in Nat /\ IsIns(PadIns) /\ PadCtrl \in Ctrls
  <2>1. IsIns(PadIns) /\ PadCtrl \in Ctrls
    BY SizeAssumption
  <2> QED
    BY <2>1, InsIsNat
<1>5. ASSUME NEW j \in 1..N
      PROVE  /\ Elem(is, j - 1, PadIns) \in Nat /\ IsIns(Elem(is, j - 1, PadIns))
             /\ Elem(cs, j - 1, PadCtrl) \in Ctrls
  <2>1. CASE j - 1 < Len(is)
    <3>1. j \in 1..Len(is) /\ (j - 1) + 1 = j
      BY <1>1, <1>2, <2>1, SMT
    <3>2. is[j] \in Nat /\ cs[j] \in Ctrls
      BY <1>1, <3>1
    <3> QED
      BY <1>1, <2>1, <3>1, <3>2 DEF Elem
  <2>2. CASE ~(j - 1 < Len(is))
    BY <1>1, <1>4, <2>2 DEF Elem
  <2> QED
    BY <2>1, <2>2
<1> HIDE DEF N
<1>6. /\ Padded(is, PadIns) \in Seq(Nat) /\ Len(Padded(is, PadIns)) = N
      /\ Padded(cs, PadCtrl) \in Seq(Ctrls) /\ Len(Padded(cs, PadCtrl)) = N
  BY <1>2, <1>3, <1>5
<1>7. \A i \in 1..Len(Padded(is, PadIns)) : IsIns(Padded(is, PadIns)[i])
  BY <1>3, <1>5, <1>6
<1> QED
  BY <1>2, <1>6, <1>7 DEF InsLists, is, cs

\* What is split from a section made of padded lists are those lists.
LEMMA PaddedRoundTrip ==
  ASSUME NEW is \in InsLists, NEW cs \in Seq(Ctrls), Len(is) = Len(cs),
         PaddedLen(Len(is)) = Len(is)
  PROVE  Split(Merge(is, cs)).ins = is /\ Split(Merge(is, cs)).ctrl = cs
<1>1. ASSUME NEW S, NEW l \in Seq(S), NEW pad, Len(l) = Len(is)
      PROVE  Padded(l, pad) = l
  <2>1. Len(l) \in Nat /\ PaddedLen(Len(l)) = Len(l) /\ l = [k \in 1..Len(l) |-> l[k]]
    BY <1>1
  <2>2. \A k \in 1..Len(l) : Elem(l, k - 1, pad) = l[k]
    BY <2>1, SMT DEF Elem
  <2> QED
    BY <2>1, <2>2 DEF Padded
<1>2. Padded(is, PadIns) = is /\ Padded(cs, PadCtrl) = cs
  BY <1>1 DEF InsLists
<1> QED
  BY <1>2, RoundTrip

\* All sections merged from lists of one length have one size.
LEMMA MergeLen ==
  ASSUME NEW is \in Seq(Nat), NEW cs, NEW ds
  PROVE  Len(Merge(is, cs)) = Len(Merge(is, ds))
<1>1. Len(is) \in Nat
  OBVIOUS
<1>2. CASE Grouped
  <2>1. 4 * ((Len(is) + 2) \div 3) \in Nat
    BY <1>1, SMT
  <2> QED
    BY <1>2, <2>1 DEF Merge
<1>3. CASE ~Grouped
  BY <1>1, <1>3 DEF Merge
<1> QED
  BY <1>2, <1>3

LEMMA InitIInv == Init => IInv
  BY DEF Init, IInv

LEMMA NextIInv == IInv /\ [Next]_vars => IInv'
<1> SUFFICES ASSUME IInv, [Next]_vars PROVE IInv'
  OBVIOUS
<1>0. kernel' = kernel /\ PadIs' = PadIs /\ Lists' = Lists
  BY DEF vars, Next, Assemble, Load, Correct, Store, PadIs, Lists
<1>1. /\ PadIs \in InsLists /\ PadIs \in Seq(Nat) /\ PaddedLen(Len(PadIs)) = Len(PadIs)
      /\ Padded(kernel.ctrl, PadCtrl) \in Lists
      /\ Len(PadIs) \in Nat
  <2>1. kernel \in Kernels
    BY DEF IInv
  <2> QED
    BY <2>1, PadTwice DEF PadIs, Lists, InsLists
<1>2. CASE Assemble
  <2>1. section' = Merge(PadIs, Padded(kernel.ctrl, PadCtrl))
    <3>1. kernel.ins \in Seq(Nat) /\ kernel.ctrl \in Seq(Ctrls) /\ Len(kernel.ins) = Len(kernel.ctrl)
      BY KernelAssumption DEF IInv
    <3> QED
      BY <1>2, <3>1, MergePadded DEF Assemble, PadIs
  <2>2. ins' = PadIs /\ ctrl' = Padded(kernel.ctrl, PadCtrl) /\ stage' = "section" /\ thrown' = thrown
    BY <1>2 DEF Assemble, PadIs
  <2> QED
    BY <1>0, <1>1, <2>1, <2>2 DEF IInv
<1>3. CASE Load
  <2>1. section = Merge(PadIs, ctrl) /\ ctrl \in Lists
    BY <1>3 DEF IInv, Load
  <2>2. Split(section).ins = PadIs /\ Split(section).ctrl = ctrl
    BY <1>1, <2>1, PaddedRoundTrip DEF Lists
  <2>3. /\ ins' = PadIs /\ ctrl' = ctrl /\ section' = section
        /\ stage' = "loaded" /\ thrown' = thrown
    BY <1>3, <2>2 DEF Load
  <2> QED
    BY <1>0, <2>1, <2>3 DEF IInv
<1>4. CASE Correct
  <2>1. /\ stage = "loaded" /\ UNCHANGED <<section, ins, stage, thrown>>
        /\ ctrl' \in [1..Len(ctrl) -> NewCodes]
    BY <1>4 DEF Correct
  <2>2. Len(ctrl) = Len(PadIs) /\ NewCodes \subseteq Ctrls
    BY <2>1, SizeAssumption DEF IInv, Lists
  <2>3. ctrl' \in Lists
    BY <1>1, <2>1, <2>2 DEF Lists
  <2> QED
    BY <1>0, <2>1, <2>3 DEF IInv
<1>5. CASE Store
  <2>1. stage = "loaded" /\ ins = PadIs /\ ctrl \in Lists
    BY <1>5 DEF Store, IInv
  <2>2. PICK cs \in Lists : section = Merge(PadIs, cs)
    BY <2>1 DEF IInv
  <2>3. Len(Merge(ins, ctrl)) = Len(section)
    BY <1>1, <2>1, <2>2, MergeLen
  <2>4. /\ section' = Merge(PadIs, ctrl) /\ thrown' = thrown
        /\ stage' = "section" /\ ins' = ins /\ ctrl' = ctrl
    BY <1>5, <2>1, <2>3 DEF Store
  <2> QED
    BY <1>0, <2>1, <2>4 DEF IInv
<1>6. CASE UNCHANGED vars
  BY <1>0, <1>6 DEF vars, IInv
<1> QED
  BY <1>2, <1>3, <1>4, <1>5, <1>6 DEF Next

LEMMA IInvHolds == Spec => []IInv
  BY InitIInv, NextIInv, PTL DEF Spec

\* For every layout and kernel, a section keeps the instructions that were
\* assembled into it, whatever control codes are stored.
THEOREM InstructionsAreKept == Spec => []InstructionsKept
<1>1. IInv => InstructionsKept
  <2> SUFFICES ASSUME IInv, stage # "source" PROVE Split(section).ins = PadIs
    BY DEF InstructionsKept, PadIs
  <2>1. PICK cs \in Lists : section = Merge(PadIs, cs)
    BY DEF IInv
  <2>2. PadIs \in InsLists /\ PaddedLen(Len(PadIs)) = Len(PadIs)
    BY PadTwice DEF IInv, PadIs
  <2> QED
    BY <2>1, <2>2, PaddedRoundTrip DEF Lists
<1> QED
  BY <1>1, IInvHolds, PTL

\* For every layout and kernel, the control codes of a section are the ones
\* stored last, each at its own instruction.
THEOREM CodesAreKept == Spec => []CodesKept
<1>1. IInv => CodesKept
  <2> SUFFICES ASSUME IInv, stage = "section" PROVE Split(section).ctrl = ctrl
    BY DEF CodesKept
  <2>1. section = Merge(PadIs, ctrl) /\ ctrl \in Lists
    BY DEF IInv
  <2>2. PadIs \in InsLists /\ PaddedLen(Len(PadIs)) = Len(PadIs)
    BY PadTwice DEF IInv, PadIs
  <2> QED
    BY <2>1, <2>2, PaddedRoundTrip DEF Lists
<1> QED
  BY <1>1, IInvHolds, PTL

\* For every layout and kernel, a store never changes the section's size.
THEOREM SizeIsKept == Spec => []SizeKept
<1>1. IInv => SizeKept
  BY DEF IInv, SizeKept
<1> QED
  BY <1>1, IInvHolds, PTL

\* The word at the offset of an instruction is its own.
LEMMA WordAtOffset ==
  ASSUME NEW is \in InsLists, NEW cs \in Seq(Ctrls), Len(is) = Len(cs),
         NEW i \in 1..Len(is), NEW word, word = Merge(is, cs)[Offset(i - 1) \div Unit + 1]
  PROVE  IF Grouped THEN word = is[i] % InsSize ELSE word % LowSize = is[i] % LowSize
<1>1. Len(is) \in Nat /\ i - 1 \in Nat /\ i - 1 < Len(is) /\ (i - 1) + 1 = i /\ IsIns(is[i])
  BY DEF InsLists
<1>2. CASE Grouped
  <2> DEFINE G == (Len(is) + 2) \div 3
  <2>1. G \in Nat /\ i - 1 < 3 * G
    <3>1. G \in Nat /\ Len(is) <= 3 * G
      BY <1>1, Groups
    <3> HIDE DEF G
    <3> QED
      BY <1>1, <3>1, SMT
  <2> HIDE DEF G
  <2>2. PICK q \in 0..(G - 1), p \in 0..2 :
          /\ i - 1 = 3 * q + p /\ (i - 1) \div 3 = q
          /\ (4 * q + (p + 1)) \div 4 = q /\ (4 * q + (p + 1)) % 4 = p + 1
          /\ 4 * q + p + 2 \in 1..(4 * G)
    BY <1>1, <2>1, Place
  <2>3. Offset(i - 1) \div Unit + 1 = 4 * q + p + 2
    <3>1. Offset(i - 1) = 8 * (4 * q + (p + 1))
      BY <1>2, <2>1, <2>2, SMT DEF Offset
    <3>2. (8 * (4 * q + (p + 1))) \div 8 = 4 * q + (p + 1)
      BY <2>1, <2>2, SMT
    <3> QED
      BY <1>2, <2>1, <2>2, <3>1, <3>2, SMT DEF Unit
  <2>4. /\ (4 * q + p + 2) - 1 = 4 * q + (p + 1) /\ p + 1 # 0
        /\ 3 * q + (p + 1) - 1 = i - 1
    BY <2>1, <2>2, SMT
  <2>5. Merge(is, cs)[4 * q + p + 2] = Elem(is, i - 1, PadIns) % InsSize
    BY <1>2, <2>2, <2>4 DEF Merge, G
  <2> QED
    BY <1>1, <1>2, <2>3, <2>5 DEF Elem
<1>3. CASE ~Grouped
  <2>1. Offset(i - 1) \div Unit + 1 = i
    <3>1. (16 * (i - 1)) \div 16 = i - 1
      BY <1>1, SMT
    <3> QED
      BY <1>1, <1>3, <3>1 DEF Offset, Unit
  <2>2. word = (is[i] + LowSize * cs[i]) % (LowSize * CtrlSize * HighSize) /\ cs[i] \in Ctrls
    BY <1>1, <1>3, <2>1 DEF Merge
  <2> QED
    BY <1>1, <1>3, <2>2, WideFields
<1> QED
  BY <1>2, <1>3

\* For every layout and kernel, each instruction is where its offset says, and the
\* offset leads back to it, whatever control codes have been stored.
THEOREM OffsetsAreRight == Spec => []OffsetsFind
<1>1. IInv => OffsetsFind
  <2> SUFFICES ASSUME IInv, stage # "source", NEW i \in 1..Len(kernel.ins),
                      NEW word, word = section[Offset(i - 1) \div Unit + 1]
               PROVE  /\ Index(Offset(i - 1)) = i - 1
                      /\ IF Grouped THEN word = kernel.ins[i] % InsSize
                                    ELSE word % LowSize = kernel.ins[i] % LowSize
    BY DEF OffsetsFind
  <2>1. kernel \in Kernels /\ kernel.ins \in Seq(Nat) /\ Len(kernel.ins) \in Nat
    BY KernelAssumption DEF IInv
  <2>2. PICK cs \in Lists : section = Merge(PadIs, cs)
    BY DEF IInv
  <2>3. PadIs \in InsLists
    BY <2>1, PadTwice DEF PadIs
  <2>4. Len(PadIs) = PaddedLen(Len(kernel.ins)) /\ PaddedLen(Len(kernel.ins)) \in Nat
        /\ Len(kernel.ins) <= PaddedLen(Len(kernel.ins))
    BY <2>1, PadElem, PadLength DEF PadIs
  <2>5. i \in 1..Len(PadIs) /\ i - 1 \in Nat
    BY <2>1, <2>4, SMT
  <2>6. PadIs[i] = kernel.ins[i]
    BY <2>1, <2>4, <2>5 DEF PadIs, Padded, Elem
  <2>7. Index(Offset(i - 1)) = i - 1
    BY <2>5, OffsetsInvert
  <2> QED
    BY <2>2, <2>3, <2>5, <2>6, <2>7, WordAtOffset DEF Lists
<1> QED
  BY <1>1, IInvHolds, PTL

-----------------------------------------------------------------------------
(* Splitting and merging one control code.                                 *)

CC == INSTANCE ControlCode

\* A field of N values above K values is what is left of the sum after
\* dividing by K, modulo N.
LEMMA StallField == \A hi \in Nat, v \in 0..15 : (16 * hi + v) % 16 = v
  BY SMT
LEMMA YieldField ==
  ASSUME NEW hi \in Nat, NEW v \in Nat, v < 2, NEW lo \in Nat, lo < 16
  PROVE  ((16 * (2 * hi + v) + lo) \div 16) % 2 = v
<1>1. (16 * (2 * hi + v) + lo) \div 16 = 2 * hi + v
  BY SMT
<1>2. (2 * hi + v) % 2 = v
  BY SMT
<1> QED
  BY <1>1, <1>2
LEMMA WriteField ==
  ASSUME NEW hi \in Nat, NEW v \in Nat, v < 8, NEW lo \in Nat, lo < 32
  PROVE  ((32 * (8 * hi + v) + lo) \div 32) % 8 = v
<1>1. (32 * (8 * hi + v) + lo) \div 32 = 8 * hi + v
  BY SMT
<1>2. (8 * hi + v) % 8 = v
  BY SMT
<1> QED
  BY <1>1, <1>2
LEMMA ReadField ==
  ASSUME NEW hi \in Nat, NEW v \in Nat, v < 8, NEW lo \in Nat, lo < 256
  PROVE  ((256 * (8 * hi + v) + lo) \div 256) % 8 = v
<1>1. (256 * (8 * hi + v) + lo) \div 256 = 8 * hi + v
  BY SMT
<1>2. (8 * hi + v) % 8 = v
  BY SMT
<1> QED
  BY <1>1, <1>2
LEMMA WaitField ==
  ASSUME NEW hi \in Nat, NEW v \in Nat, v < 64, NEW lo \in Nat, lo < 2048
  PROVE  ((2048 * (64 * hi + v) + lo) \div 2048) % 64 = v
<1>1. (2048 * (64 * hi + v) + lo) \div 2048 = 64 * hi + v
  BY SMT
<1>2. (64 * hi + v) % 64 = v
  BY SMT
<1> QED
  BY <1>1, <1>2

\* Splitting a merged code gives the fields back: no field reaches into
\* another as long as each keeps to its width.
THEOREM MergedSplits == \A f \in CC!Fields : CC!Merge(f) \in CC!Codes /\ CC!Split(CC!Merge(f)) = f
<1> SUFFICES ASSUME NEW f \in CC!Fields PROVE CC!Merge(f) \in CC!Codes /\ CC!Split(CC!Merge(f)) = f
  OBVIOUS
<1> DEFINE M == CC!Merge(f)
<1>1. PICK w \in 0..63, r \in 0..7, b \in 0..7, y \in 0..1, s \in 0..15 :
        f = [wait |-> w, read |-> r, write |-> b, yield |-> y, stall |-> s]
  BY Zenon DEF CC!Fields
<1>2. M = 2048 * w + 256 * r + 32 * b + 16 * y + s
  BY <1>1 DEF CC!Merge
<1> HIDE DEF M
<1>3. M \in CC!Codes
  BY <1>2, SMT DEF CC!Codes
<1>4. M % 16 = s
  <2>1. M = 16 * (128 * w + 16 * r + 2 * b + y) + s
    BY <1>2, SMT
  <2>2. 128 * w + 16 * r + 2 * b + y \in Nat
    BY SMT
  <2> QED
    BY <2>1, <2>2, StallField, Zenon
<1>5. (M \div 16) % 2 = y
  <2>1. M = 16 * (2 * (64 * w + 8 * r + b) + y) + (s)
    BY <1>2, SMT
  <2>2. 64 * w + 8 * r + b \in Nat /\ s \in Nat /\ s < 16 /\ y \in Nat /\ y < 2
    BY SMT
  <2> QED
    BY <2>1, <2>2, YieldField, Zenon
<1>6. (M \div 32) % 8 = b
  <2>1. M = 32 * (8 * (8 * w + r) + b) + (16 * y + s)
    BY <1>2, SMT
  <2>2. 8 * w + r \in Nat /\ 16 * y + s \in Nat /\ 16 * y + s < 32 /\ b \in Nat /\ b < 8
    BY SMT
  <2> QED
    BY <2>1, <2>2, WriteField, Zenon
<1>7. (M \div 256) % 8 = r
  <2>1. M = 256 * (8 * (w) + r) + (32 * b + 16 * y + s)
    BY <1>2, SMT
  <2>2. w \in Nat /\ 32 * b + 16 * y + s \in Nat /\ 32 * b + 16 * y + s < 256 /\ r \in Nat /\ r < 8
    BY SMT
  <2> QED
    BY <2>1, <2>2, ReadField, SMTT(30)
<1>8. (M \div 2048) % 64 = w
  <2>1. M = 2048 * (64 * 0 + w) + (256 * r + 32 * b + 16 * y + s)
    BY <1>2, SMT
  <2>2. /\ 256 * r + 32 * b + 16 * y + s \in Nat /\ 256 * r + 32 * b + 16 * y + s < 2048
        /\ w \in Nat /\ w < 64 /\ 0 \in Nat
    BY SMT
  <2> QED
    BY <2>1, <2>2, WaitField
<1>9. CC!Split(M) = f
  BY <1>1, <1>4, <1>5, <1>6, <1>7, <1>8, SMT DEF CC!Split
<1> QED
  BY <1>3, <1>9 DEF M

\* Division with rest, by the sizes of the fields.
LEMMA HasRest ==
  ASSUME NEW n \in Nat
  PROVE  /\ \E q \in Nat, v \in 0..15 : n = 16 * q + v
         /\ \E q \in Nat, v \in 0..1 : n = 2 * q + v
         /\ \E q \in Nat, v \in 0..7 : n = 8 * q + v
<1>1. n \div 16 \in Nat /\ n % 16 \in 0..15 /\ n = 16 * (n \div 16) + (n % 16)
  BY SMT
<1>2. n \div 2 \in Nat /\ n % 2 \in 0..1 /\ n = 2 * (n \div 2) + (n % 2)
  BY SMT
<1>3. n \div 8 \in Nat /\ n % 8 \in 0..7 /\ n = 8 * (n \div 8) + (n % 8)
  BY SMT
<1> QED
  BY <1>1, <1>2, <1>3, Zenon

\* Merging the fields of a code gives the code back.
THEOREM SplitMerges == \A c \in CC!Codes : CC!Split(c) \in CC!Fields /\ CC!Merge(CC!Split(c)) = c
<1> SUFFICES ASSUME NEW c \in CC!Codes PROVE CC!Split(c) \in CC!Fields /\ CC!Merge(CC!Split(c)) = c
  OBVIOUS
<1>1. c \in Nat /\ c < 131072
  BY DEF CC!Codes
<1>2. PICK a \in Nat, s \in 0..15 : c = 16 * a + s
  BY <1>1, HasRest
<1>3. PICK d \in Nat, y \in 0..1 : a = 2 * d + y
  BY HasRest
<1>4. PICK e \in Nat, b \in 0..7 : d = 8 * e + b
  BY HasRest
<1>5. PICK w \in Nat, r \in 0..7 : e = 8 * w + r
  BY HasRest
<1>6. w \in 0..63
  BY <1>1, <1>2, <1>3, <1>4, <1>5, SMT
<1> DEFINE f == [wait |-> w, read |-> r, write |-> b, yield |-> y, stall |-> s]
<1>7. f \in CC!Fields
  BY <1>6 DEF CC!Fields
<1>8. CC!Merge(f) = c
  BY <1>2, <1>3, <1>4, <1>5, <1>6 DEF CC!Merge
<1> QED
  BY <1>7, <1>8, MergedSplits
=============================================================================
