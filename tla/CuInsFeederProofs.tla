-------------------------- MODULE CuInsFeederProofs --------------------------
(***************************************************************************)
(* The feeder on any listing that introduces its kernels, through any      *)
(* sequence of calls.                                                      *)
(***************************************************************************)
EXTENDS CuInsFeeder, SequenceTheorems, WellFoundedInduction, TLAPS

-----------------------------------------------------------------------------
\* Sequences and what is kept of them.

\* A set of numbers has a least one.
LEMMA LeastElement ==
  ASSUME NEW T \in SUBSET Nat, T # {}
  PROVE  \E x \in T : \A y \in T : x <= y
<1>1. IsWellFoundedOn(OpToRel(<, Nat), Nat)
  BY NatLessThanWellFounded, Zenon
<1>2. PICK x \in T : \A y \in T : ~(<<y, x>> \in OpToRel(<, Nat))
  BY <1>1, WFMin, Zenon
<1>3. \A y \in T : ~(y < x)
  BY <1>2 DEF OpToRel
<1>4. QED
  BY <1>3

KeptStep(s, S, f, n) == IF n = 0 THEN <<>> ELSE IF s[n] \in S THEN Append(f[n - 1], s[n]) ELSE f[n - 1]

\* The recursion that selects has a solution.
LEMMA KeptExists ==
  ASSUME NEW s, NEW S, NEW N \in Nat
  PROVE  \E f : f = [n \in 0..N |-> KeptStep(s, S, f, n)]
<1> DEFINE T == {m \in Nat : ~\E f : f = [n \in 0..m |-> KeptStep(s, S, f, n)]}
<1> SUFFICES ASSUME T # {} PROVE FALSE
  OBVIOUS
<1>1. PICK m \in T : \A y \in T : m <= y
  BY LeastElement
<1>2. CASE m = 0
  <2> DEFINE f == [n \in 0..0 |-> <<>>]
  <2>1. f = [n \in 0..0 |-> KeptStep(s, S, f, n)]
    BY DEF KeptStep
  <2> QED
    BY <1>1, <1>2, <2>1
<1>3. CASE m # 0
  <2>1. m - 1 \in Nat /\ m - 1 \notin T /\ m \in Nat
    BY <1>1, <1>3
  <2>2. PICK f : f = [n \in 0..(m - 1) |-> KeptStep(s, S, f, n)]
    BY <2>1
  <2> DEFINE g == [n \in 0..m |-> IF n = m THEN KeptStep(s, S, f, m) ELSE f[n]]
  <2>3. ASSUME NEW n \in 0..m PROVE g[n] = KeptStep(s, S, g, n)
    <3>1. n # 0 => n - 1 \in 0..(m - 1) /\ n - 1 \in 0..m /\ n - 1 # m
      BY <2>1, SMT
    <3>2. n # 0 => g[n - 1] = f[n - 1]
      BY <3>1
    <3>3. KeptStep(s, S, g, n) = KeptStep(s, S, f, n)
      BY <3>2 DEF KeptStep
    <3>4. n # m => n \in 0..(m - 1)
      BY <2>1, SMT
    <3>5. n # m => f[n] = KeptStep(s, S, f, n)
      BY <3>4, <2>2
    <3> QED
      BY <3>3, <3>5
  <2>4. g = [n \in 0..m |-> KeptStep(s, S, g, n)]
    BY <2>3
  <2> QED
    BY <1>1, <2>4
<1> QED
  BY <1>2, <1>3

KeptOf(s, S, N) == CHOOSE f : f = [n \in 0..N |-> KeptStep(s, S, f, n)]

LEMMA KeptOfStep ==
  ASSUME NEW s, NEW S, NEW N \in Nat
  PROVE  \A n \in 0..N : KeptOf(s, S, N)[n] = KeptStep(s, S, KeptOf(s, S, N), n)
<1>1. KeptOf(s, S, N) = [n \in 0..N |-> KeptStep(s, S, KeptOf(s, S, N), n)]
  BY KeptExists DEF KeptOf
<1> QED
  BY <1>1

LEMMA KeptIs == ASSUME NEW s, NEW S PROVE Kept(s, S) = KeptOf(s, S, Len(s))[Len(s)]
  BY DEF Kept, KeptOf, KeptStep

LEMMA KeptEmpty == ASSUME NEW S PROVE Kept(<<>>, S) = <<>>
<1>1. Len(<<>>) = 0 /\ 0 \in 0..0
  OBVIOUS
<1>2. KeptOf(<<>>, S, 0)[0] = <<>>
  BY <1>1, KeptOfStep DEF KeptStep
<1> QED
  BY <1>1, <1>2, KeptIs

\* What is kept so far depends on the elements so far.
KeepsAlike(s, t, S, T, N, M) ==
  N <= M /\ (\A n \in 1..N : s[n] = t[n]) /\ (\A n \in 1..N : s[n] \in S <=> s[n] \in T)
    => KeptOf(s, S, N)[N] = KeptOf(t, T, M)[N]

LEMMA KeptSoFar == \A s, t, S, T : \A N, M \in Nat : KeepsAlike(s, t, S, T, N, M)
<1> SUFFICES ASSUME NEW s, NEW t, NEW S, NEW T, NEW N \in Nat, NEW M \in Nat, N <= M,
                    \A n \in 1..N : s[n] = t[n], \A n \in 1..N : s[n] \in S <=> s[n] \in T
             PROVE  KeptOf(s, S, N)[N] = KeptOf(t, T, M)[N]
  BY DEF KeepsAlike
<1> DEFINE B == {n \in 0..N : KeptOf(s, S, N)[n] # KeptOf(t, T, M)[n]}
<1> SUFFICES ASSUME B # {} PROVE FALSE
  BY DEF B
<1>0. B \in SUBSET Nat
  OBVIOUS
<1> HIDE DEF B
<1>1. PICK n \in B : \A y \in B : n <= y
  BY <1>0, LeastElement
<1> USE DEF B
<1>2. KeptOf(s, S, N)[n] = KeptStep(s, S, KeptOf(s, S, N), n)
  BY KeptOfStep
<1>3. n \in 0..M
  BY SMT
<1>4. KeptOf(t, T, M)[n] = KeptStep(t, T, KeptOf(t, T, M), n)
  BY <1>3, KeptOfStep
<1>5. n # 0 => n - 1 \in 0..N /\ n - 1 \notin B /\ n \in 1..N
  BY <1>1, SMT
<1>6. n # 0 => KeptOf(s, S, N)[n - 1] = KeptOf(t, T, M)[n - 1]
  BY <1>5
<1>7. KeptStep(s, S, KeptOf(s, S, N), n) = KeptStep(t, T, KeptOf(t, T, M), n)
  BY <1>5, <1>6 DEF KeptStep
<1> QED
  BY <1>1, <1>2, <1>4, <1>7

LEMMA KeptAppend ==
  ASSUME NEW A, NEW s \in Seq(A), NEW x \in A, NEW S
  PROVE  Kept(Append(s, x), S) = IF x \in S THEN Append(Kept(s, S), x) ELSE Kept(s, S)
<1> DEFINE t == Append(s, x)
           N == Len(s)
<1>1. N \in Nat /\ N + 1 \in Nat /\ Len(t) = N + 1 /\ t[N + 1] = x /\ \A n \in 1..N : s[n] = t[n]
  BY AppendProperties
<1> HIDE DEF t, N
<1>2. KeptOf(s, S, N)[N] = KeptOf(t, S, N + 1)[N]
  <2>1. KeepsAlike(s, t, S, S, N, N + 1) /\ N <= N + 1
    BY <1>1, KeptSoFar
  <2> QED
    BY <1>1, <2>1 DEF KeepsAlike
<1>3. N + 1 \in 0..(N + 1) /\ N + 1 # 0 /\ (N + 1) - 1 = N
  BY <1>1
<1>4. KeptOf(t, S, N + 1)[N + 1] = KeptStep(t, S, KeptOf(t, S, N + 1), N + 1)
  BY <1>1, <1>3, KeptOfStep
<1>5. KeptStep(t, S, KeptOf(t, S, N + 1), N + 1)
        = IF x \in S THEN Append(KeptOf(t, S, N + 1)[N], x) ELSE KeptOf(t, S, N + 1)[N]
  BY <1>1, <1>3 DEF KeptStep
<1> QED
  BY <1>1, <1>2, <1>4, <1>5, KeptIs DEF t, N

\* Sets that agree on the elements keep the same.
LEMMA KeptSame ==
  ASSUME NEW A, NEW s \in Seq(A), NEW S, NEW T, \A x \in A : x \in S <=> x \in T
  PROVE  Kept(s, S) = Kept(s, T)
<1>1. Len(s) \in Nat /\ Len(s) <= Len(s) /\ \A n \in 1..Len(s) : s[n] \in A
  BY ElementOfSeq, LenProperties
<1>2. KeepsAlike(s, s, S, T, Len(s), Len(s))
  BY <1>1, KeptSoFar
<1> QED
  BY <1>1, <1>2, KeptIs DEF KeepsAlike

\* What is kept is in the sequence and in the set.
LEMMA KeptElements ==
  ASSUME NEW A, NEW s \in Seq(A), NEW S
  PROVE  Kept(s, S) \in Seq(A \cap S)
<1> DEFINE N == Len(s)
           B == {n \in 0..N : KeptOf(s, S, N)[n] \notin Seq(A \cap S)}
<1>1. N \in Nat /\ \A n \in 1..N : s[n] \in A
  BY ElementOfSeq, LenProperties
<1>2. SUFFICES ASSUME B # {} PROVE FALSE
  BY <1>1, KeptIs
<1>0. B \in SUBSET Nat
  BY <1>1
<1> HIDE DEF B
<1>3. PICK n \in B : \A y \in B : n <= y
  BY <1>0, <1>2, LeastElement
<1> USE DEF B
<1>4. KeptOf(s, S, N)[n] = KeptStep(s, S, KeptOf(s, S, N), n)
  BY <1>1, KeptOfStep
<1>5. n = 0 => KeptOf(s, S, N)[n] \in Seq(A \cap S)
  BY <1>4, EmptySeq DEF KeptStep
<1>6. n # 0 => n - 1 \in 0..N /\ n - 1 \notin B /\ n \in 1..N
  BY <1>1, <1>3, SMT
<1>7. n # 0 => KeptOf(s, S, N)[n - 1] \in Seq(A \cap S)
  BY <1>6
<1>8. n # 0 => KeptOf(s, S, N)[n] \in Seq(A \cap S)
  BY <1>1, <1>4, <1>6, <1>7, AppendProperties DEF KeptStep
<1> QED
  BY <1>5, <1>8

\* A sequence of elements of the set is kept as it is.
LEMMA KeptWhole ==
  ASSUME NEW S, NEW s \in Seq(S)
  PROVE  Kept(s, S) = s
<1> DEFINE N == Len(s)
           B == {n \in 0..N : KeptOf(s, S, N)[n] # SubSeq(s, 1, n)}
<1>1. N \in Nat /\ \A n \in 1..N : s[n] \in S
  BY ElementOfSeq, LenProperties
<1>2. SubSeq(s, 1, N) = s
  BY SubSeqFull
<1>3. SUFFICES ASSUME B # {} PROVE FALSE
  BY <1>1, <1>2, KeptIs
<1>0. B \in SUBSET Nat
  BY <1>1
<1> HIDE DEF B
<1>4. PICK n \in B : \A y \in B : n <= y
  BY <1>0, <1>3, LeastElement
<1> USE DEF B
<1>5. KeptOf(s, S, N)[n] = KeptStep(s, S, KeptOf(s, S, N), n)
  BY <1>1, KeptOfStep
<1>6. n = 0 => KeptOf(s, S, N)[n] = SubSeq(s, 1, n)
  BY <1>5, SubSeqEmpty DEF KeptStep
<1>7. n # 0 => n - 1 \in 0..N /\ n - 1 \notin B /\ n \in 1..N
  BY <1>1, <1>4, SMT
<1>8. n # 0 => KeptOf(s, S, N)[n] = Append(SubSeq(s, 1, n - 1), s[n])
  BY <1>1, <1>5, <1>7 DEF KeptStep
<1>9. n # 0 => Append(SubSeq(s, 1, n - 1), s[n]) = SubSeq(s, 1, n)
  <2> SUFFICES ASSUME n # 0 PROVE Append(SubSeq(s, 1, n - 1), s[n]) = SubSeq(s, 1, n)
    OBVIOUS
  <2>1. SubSeq(s, 1, n) = SubSeq(s, 1, n - 1) \o <<s[n]>>
    BY <1>1, <1>7, SubSeqRecursiveSecond
  <2>2. SubSeq(s, 1, n - 1) \in Seq(S)
    BY <1>1, <1>7, SubSeqProperties
  <2> QED
    BY <1>1, <1>7, <2>1, <2>2, AppendIsConcat
<1> QED
  BY <1>4, <1>6, <1>8, <1>9

-----------------------------------------------------------------------------
\* The instructions of records, and lines in order.

Recs == [ins : Nat, code : Seq(Nat), ctrl : Nat]
Outs == [rec : Recs, func : Nat]
InsOf(recs) == [k \in 1..Len(recs) |-> recs[k].ins]
InsOut(o) == [k \in 1..Len(o) |-> o[k].rec.ins]
UpTo(n) == [k \in 1..n |-> k]

LEMMA InsOfSeq ==
  ASSUME NEW recs \in Seq(Recs)
  PROVE  InsOf(recs) \in Seq(Nat) /\ Len(InsOf(recs)) = Len(recs) /\ \A k \in 1..Len(recs) : InsOf(recs)[k] = recs[k].ins
<1>1. Len(recs) \in Nat /\ \A k \in 1..Len(recs) : recs[k] \in Recs
  BY ElementOfSeq, LenProperties
<1>2. InsOf(recs) \in [1..Len(recs) -> Nat]
  BY <1>1 DEF InsOf, Recs
<1> QED
  BY <1>1, <1>2, SeqDef, LenProperties DEF InsOf

LEMMA InsOutSeq ==
  ASSUME NEW o \in Seq(Outs)
  PROVE  InsOut(o) \in Seq(Nat) /\ Len(InsOut(o)) = Len(o) /\ \A k \in 1..Len(o) : InsOut(o)[k] = o[k].rec.ins
<1>1. Len(o) \in Nat /\ \A k \in 1..Len(o) : o[k] \in Outs
  BY ElementOfSeq, LenProperties
<1>2. InsOut(o) \in [1..Len(o) -> Nat]
  BY <1>1 DEF InsOut, Recs, Outs
<1> QED
  BY <1>1, <1>2, SeqDef, LenProperties DEF InsOut

LEMMA InsOfAppend ==
  ASSUME NEW recs \in Seq(Recs), NEW r \in Recs
  PROVE  InsOf(Append(recs, r)) = Append(InsOf(recs), r.ins)
<1> DEFINE n == Len(recs)
           a == Append(recs, r)
           b == Append(InsOf(recs), r.ins)
<1>1. a \in Seq(Recs) /\ Len(a) = n + 1 /\ a[n + 1] = r /\ (\A k \in 1..n : a[k] = recs[k]) /\ n \in Nat
  BY AppendProperties, LenProperties
<1>2. r.ins \in Nat
  BY DEF Recs
<1>3. b \in Seq(Nat) /\ Len(b) = n + 1 /\ b[n + 1] = r.ins /\ \A k \in 1..n : b[k] = recs[k].ins
  BY <1>2, InsOfSeq, AppendProperties
<1> HIDE DEF a, b, n
<1>4. InsOf(a) \in Seq(Nat) /\ Len(InsOf(a)) = n + 1 /\ \A k \in 1..(n + 1) : InsOf(a)[k] = a[k].ins
  BY <1>1, InsOfSeq
<1>5. ASSUME NEW k \in 1..(n + 1) PROVE InsOf(a)[k] = b[k]
  <2>1. k \in 1..n \/ k = n + 1
    BY <1>1
  <2> QED
    BY <2>1, <1>1, <1>3, <1>4
<1>6. InsOf(a) = b
  BY <1>3, <1>4, <1>5, SeqEqual
<1> QED
  BY <1>6 DEF a, b

LEMMA InsOutAppend ==
  ASSUME NEW o \in Seq(Outs), NEW r \in Outs
  PROVE  InsOut(Append(o, r)) = Append(InsOut(o), r.rec.ins)
<1> DEFINE n == Len(o)
           a == Append(o, r)
           b == Append(InsOut(o), r.rec.ins)
<1>1. a \in Seq(Outs) /\ Len(a) = n + 1 /\ a[n + 1] = r /\ (\A k \in 1..n : a[k] = o[k]) /\ n \in Nat
  BY AppendProperties, LenProperties
<1>2. r.rec.ins \in Nat
  BY DEF Recs, Outs
<1>3. b \in Seq(Nat) /\ Len(b) = n + 1 /\ b[n + 1] = r.rec.ins /\ \A k \in 1..n : b[k] = o[k].rec.ins
  BY <1>2, InsOutSeq, AppendProperties
<1> HIDE DEF a, b, n
<1>4. InsOut(a) \in Seq(Nat) /\ Len(InsOut(a)) = n + 1 /\ \A k \in 1..(n + 1) : InsOut(a)[k] = a[k].rec.ins
  BY <1>1, InsOutSeq
<1>5. ASSUME NEW k \in 1..(n + 1) PROVE InsOut(a)[k] = b[k]
  <2>1. k \in 1..n \/ k = n + 1
    BY <1>1
  <2> QED
    BY <2>1, <1>1, <1>3, <1>4
<1>6. InsOut(a) = b
  BY <1>3, <1>4, <1>5, SeqEqual
<1> QED
  BY <1>6 DEF a, b

\* Selecting records by their instructions is selecting the instructions.
LEMMA InsOfKept ==
  ASSUME NEW recs \in Seq(Recs), NEW Q, NEW S, \A k \in 1..Len(recs) : recs[k] \in Q <=> recs[k].ins \in S
  PROVE  InsOf(Kept(recs, Q)) = Kept(InsOf(recs), S)
<1> DEFINE N == Len(recs)
           is == InsOf(recs)
           B == {n \in 0..N : InsOf(KeptOf(recs, Q, N)[n]) # KeptOf(is, S, N)[n]}
           G == {n \in 0..N : KeptOf(recs, Q, N)[n] \notin Seq(Recs)}
<1>1. N \in Nat /\ (\A n \in 1..N : recs[n] \in Recs /\ is[n] = recs[n].ins) /\ Len(is) = N
  BY ElementOfSeq, LenProperties, InsOfSeq
<1> HIDE DEF is
<1>2. \A n \in 1..N : KeptOf(recs, Q, N)[n] = IF recs[n] \in Q THEN Append(KeptOf(recs, Q, N)[n - 1], recs[n]) ELSE KeptOf(recs, Q, N)[n - 1]
  BY <1>1, KeptOfStep DEF KeptStep
<1>3. \A n \in 1..N : KeptOf(is, S, N)[n] = IF is[n] \in S THEN Append(KeptOf(is, S, N)[n - 1], is[n]) ELSE KeptOf(is, S, N)[n - 1]
  BY <1>1, KeptOfStep DEF KeptStep
<1>4. KeptOf(recs, Q, N)[0] = <<>> /\ KeptOf(is, S, N)[0] = <<>>
  BY <1>1, KeptOfStep DEF KeptStep
<1>5. G = {}
  <2> SUFFICES ASSUME G # {} PROVE FALSE
    OBVIOUS
  <2>1. G \in SUBSET Nat
    BY <1>1
  <2> HIDE DEF G
  <2>2. PICK n \in G : \A y \in G : n <= y
    BY <2>1, LeastElement
  <2> USE DEF G
  <2>3. n # 0
    BY <1>4, EmptySeq
  <2>4. n - 1 \in 0..N /\ n - 1 \notin G /\ n \in 1..N
    BY <1>1, <2>2, <2>3, SMT
  <2>5. KeptOf(recs, Q, N)[n - 1] \in Seq(Recs) /\ recs[n] \in Recs
    BY <1>1, <2>4
  <2>6. Append(KeptOf(recs, Q, N)[n - 1], recs[n]) \in Seq(Recs)
    BY <2>5, AppendProperties
  <2>7. KeptOf(recs, Q, N)[n] \in Seq(Recs)
    BY <1>2, <2>4, <2>5, <2>6
  <2> QED
    BY <2>2, <2>7
<1>6. B = {}
  <2> SUFFICES ASSUME B # {} PROVE FALSE
    OBVIOUS
  <2>1. B \in SUBSET Nat
    BY <1>1
  <2> HIDE DEF B
  <2>2. PICK n \in B : \A y \in B : n <= y
    BY <2>1, LeastElement
  <2> USE DEF B
  <2>3. n # 0
    BY <1>4 DEF InsOf
  <2>4. n - 1 \in 0..N /\ n - 1 \notin B /\ n \in 1..N
    BY <1>1, <2>2, <2>3, SMT
  <2>5. KeptOf(recs, Q, N)[n - 1] \in Seq(Recs) /\ recs[n] \in Recs
    BY <1>1, <1>5, <2>4
  <2>6. InsOf(Append(KeptOf(recs, Q, N)[n - 1], recs[n])) = Append(InsOf(KeptOf(recs, Q, N)[n - 1]), recs[n].ins)
    BY <2>5, InsOfAppend
  <2> QED
    BY <1>1, <1>2, <1>3, <2>4, <2>6
<1> QED
  BY <1>1, <1>6, KeptIs DEF is

LEMMA ConcatIs ==
  ASSUME NEW S, NEW a \in Seq(S), NEW b \in Seq(S)
  PROVE  /\ a \o b \in Seq(S) /\ Len(a) \in Nat /\ Len(b) \in Nat /\ Len(a \o b) = Len(a) + Len(b)
         /\ \A k \in 1..Len(a \o b) : (a \o b)[k] = IF k <= Len(a) THEN a[k] ELSE b[k - Len(a)]
  BY ConcatProperties, LenProperties

LEMMA AppendConcat ==
  ASSUME NEW S, NEW a \in Seq(S), NEW b \in Seq(S), NEW x \in S
  PROVE  a \o Append(b, x) = Append(a \o b, x)
<1>1. <<x>> \in Seq(S) /\ a \o b \in Seq(S)
  BY ConcatProperties
<1>2. Append(b, x) = b \o <<x>> /\ Append(a \o b, x) = (a \o b) \o <<x>>
  BY <1>1, AppendIsConcat
<1>3. (a \o b) \o <<x>> = a \o (b \o <<x>>)
  BY <1>1, ConcatAssociative
<1> QED
  BY <1>2, <1>3

\* The first element moves from one sequence to the other.
LEMMA MoveHead ==
  ASSUME NEW S, NEW a \in Seq(S), NEW b \in Seq(S), b # <<>>
  PROVE  Append(a, Head(b)) \o Tail(b) = a \o b
<1>1. Head(b) \in S /\ Tail(b) \in Seq(S) /\ Len(b) \in Nat /\ 1 \in 1..Len(b) /\ Len(b) \in 1..Len(b)
  BY HeadTailProperties, EmptySeq, LenProperties
<1>2. b = <<Head(b)>> \o Tail(b)
  <2>1. SubSeq(b, 1, Len(b)) = <<b[1]>> \o SubSeq(b, 2, Len(b))
    <3>1. SubSeq(b, 1, Len(b)) = <<b[1]>> \o SubSeq(b, 1 + 1, Len(b))
      BY <1>1, SubSeqRecursiveFirst
    <3> QED
      BY <3>1
  <2>2. SubSeq(b, 1, Len(b)) = b /\ SubSeq(b, 2, Len(b)) = Tail(b) /\ Head(b) = b[1]
    BY SubSeqFull, TailIsSubSeq
  <2> QED
    BY <2>1, <2>2
<1>3. Append(a, Head(b)) = a \o <<Head(b)>> /\ <<Head(b)>> \in Seq(S)
  BY <1>1, AppendIsConcat
<1>4. (a \o <<Head(b)>>) \o Tail(b) = a \o (<<Head(b)>> \o Tail(b))
  BY <1>1, <1>3, ConcatAssociative
<1> QED
  BY <1>2, <1>3, <1>4

LEMMA InsOfTail ==
  ASSUME NEW recs \in Seq(Recs), recs # <<>>
  PROVE  InsOf(recs) # <<>> /\ Head(InsOf(recs)) = Head(recs).ins /\ InsOf(Tail(recs)) = Tail(InsOf(recs))
<1> DEFINE is == InsOf(recs)
           t == Tail(recs)
<1>1. is \in Seq(Nat) /\ Len(is) = Len(recs) /\ \A k \in 1..Len(recs) : is[k] = recs[k].ins
  BY InsOfSeq
<1>2. Len(recs) \in Nat /\ Len(recs) > 0 /\ t \in Seq(Recs) /\ Len(t) = Len(recs) - 1
        /\ (\A k \in 1..Len(t) : t[k] = recs[k + 1]) /\ Head(recs) = recs[1]
  BY HeadTailProperties, EmptySeq, LenProperties
<1> HIDE DEF is, t
<1>3. InsOf(t) \in Seq(Nat) /\ Len(InsOf(t)) = Len(t) /\ \A k \in 1..Len(t) : InsOf(t)[k] = t[k].ins
  BY <1>2, InsOfSeq, Zenon
<1>4. is # <<>>
  BY <1>1, <1>2, EmptySeq
<1>5. Tail(is) \in Seq(Nat) /\ Len(Tail(is)) = Len(is) - 1 /\ Head(is) = is[1]
        /\ \A k \in 1..Len(Tail(is)) : Tail(is)[k] = is[k + 1]
  BY <1>1, <1>4, HeadTailProperties
<1>6. ASSUME NEW k \in 1..Len(InsOf(t)) PROVE InsOf(t)[k] = Tail(is)[k]
  <2>1. k \in 1..Len(t) /\ k + 1 \in 1..Len(recs) /\ k \in 1..Len(Tail(is))
    BY <1>1, <1>2, <1>3, <1>5
  <2> QED
    BY <1>1, <1>2, <1>3, <1>5, <2>1
<1>7. InsOf(t) = Tail(is)
  BY <1>1, <1>2, <1>3, <1>5, <1>6, SeqEqual
<1>8. Head(is) = Head(recs).ins
  BY <1>1, <1>2, <1>5
<1> QED
  BY <1>4, <1>7, <1>8 DEF is, t

LEMMA InsOutConcat ==
  ASSUME NEW a \in Seq(Outs), NEW b \in Seq(Outs)
  PROVE  InsOut(a \o b) = InsOut(a) \o InsOut(b)
<1> DEFINE ab == a \o b
           i == InsOut(ab)
           j == InsOut(a) \o InsOut(b)
<1>1. ab \in Seq(Outs) /\ Len(a) \in Nat /\ Len(b) \in Nat /\ Len(ab) = Len(a) + Len(b)
        /\ \A k \in 1..Len(ab) : ab[k] = IF k <= Len(a) THEN a[k] ELSE b[k - Len(a)]
  BY ConcatProperties, LenProperties
<1>2. InsOut(a) \in Seq(Nat) /\ Len(InsOut(a)) = Len(a) /\ \A k \in 1..Len(a) : InsOut(a)[k] = a[k].rec.ins
  BY InsOutSeq
<1>3. InsOut(b) \in Seq(Nat) /\ Len(InsOut(b)) = Len(b) /\ \A k \in 1..Len(b) : InsOut(b)[k] = b[k].rec.ins
  BY InsOutSeq
<1> HIDE DEF ab
<1>4. i \in Seq(Nat) /\ Len(i) = Len(ab) /\ \A k \in 1..Len(ab) : i[k] = ab[k].rec.ins
  BY <1>1, InsOutSeq
<1>5. j \in Seq(Nat) /\ Len(j) = Len(a) + Len(b)
        /\ \A k \in 1..Len(j) : j[k] = IF k <= Len(a) THEN InsOut(a)[k] ELSE InsOut(b)[k - Len(a)]
  <2> DEFINE x == InsOut(a)
             y == InsOut(b)
  <2> HIDE DEF x, y
  <2>1. j = x \o y /\ x \in Seq(Nat) /\ y \in Seq(Nat) /\ Len(x) = Len(a) /\ Len(y) = Len(b)
    BY <1>2, <1>3 DEF x, y
  <2> HIDE DEF j
  <2>2. j \in Seq(Nat) /\ Len(j) = Len(a) + Len(b) /\ \A k \in 1..Len(j) : j[k] = IF k <= Len(a) THEN x[k] ELSE y[k - Len(a)]
    <3>1. x \o y \in Seq(Nat) /\ Len(x \o y) = Len(x) + Len(y)
            /\ \A k \in 1..Len(x \o y) : (x \o y)[k] = IF k <= Len(x) THEN x[k] ELSE y[k - Len(x)]
      BY <2>1, ConcatIs, Zenon
    <3> QED
      BY <2>1, <3>1, Zenon
  <2> QED
    BY <2>2 DEF x, y
<1> HIDE DEF i, j
<1>6. ASSUME NEW k \in 1..Len(i) PROVE i[k] = j[k]
  <2>1. k \in 1..Len(ab) /\ k \in 1..Len(j)
    BY <1>1, <1>4, <1>5
  <2>2. CASE k <= Len(a)
    <3>1. k \in 1..Len(a)
      BY <1>1, <2>1, <2>2
    <3>2. ab[k] = a[k] /\ j[k] = InsOut(a)[k]
      BY <1>1, <1>5, <2>1, <2>2, Zenon
    <3> QED
      BY <1>2, <1>4, <2>1, <3>1, <3>2, Zenon
  <2>3. CASE ~(k <= Len(a))
    <3>1. k - Len(a) \in 1..Len(b)
      BY <1>1, <2>1, <2>3
    <3>2. ab[k] = b[k - Len(a)] /\ j[k] = InsOut(b)[k - Len(a)]
      BY <1>1, <1>5, <2>1, <2>3, Zenon
    <3> QED
      BY <1>3, <1>4, <2>1, <3>1, <3>2, Zenon
  <2> QED
    BY <2>2, <2>3
<1>7. i = j
  BY <1>1, <1>4, <1>5, <1>6, SeqEqual
<1> QED
  BY <1>7 DEF i, j, ab

LEMMA UpToAppend == ASSUME NEW n \in Nat PROVE UpTo(n) \in Seq(Nat) /\ UpTo(n + 1) = Append(UpTo(n), n + 1)
<1>1. ASSUME NEW m \in Nat PROVE UpTo(m) \in Seq(Nat) /\ Len(UpTo(m)) = m /\ \A k \in 1..m : UpTo(m)[k] = k
  <2>1. UpTo(m) \in [1..m -> Nat]
    BY DEF UpTo
  <2> QED
    BY <2>1, SeqDef, LenProperties DEF UpTo
<1> DEFINE a == UpTo(n + 1)
           b == Append(UpTo(n), n + 1)
<1>2. n + 1 \in Nat
  OBVIOUS
<1>3. a \in Seq(Nat) /\ Len(a) = n + 1 /\ \A k \in 1..(n + 1) : a[k] = k
  BY <1>1, <1>2
<1>4. b \in Seq(Nat) /\ Len(b) = n + 1 /\ b[n + 1] = n + 1 /\ \A k \in 1..n : b[k] = k
  BY <1>1, <1>2, AppendProperties
<1> HIDE DEF a, b
<1>5. ASSUME NEW k \in 1..(n + 1) PROVE a[k] = b[k]
  <2>1. k \in 1..n \/ k = n + 1
    OBVIOUS
  <2> QED
    BY <2>1, <1>3, <1>4
<1>6. a = b
  BY <1>3, <1>4, <1>5, SeqEqual
<1> QED
  BY <1>1, <1>6 DEF a, b

\* One more line adds itself, if it is kept.
LEMMA KeptUpTo ==
  ASSUME NEW n \in Nat, NEW S
  PROVE  Kept(UpTo(n + 1), S) = IF n + 1 \in S THEN Append(Kept(UpTo(n), S), n + 1) ELSE Kept(UpTo(n), S)
<1> DEFINE u == UpTo(n)
           x == n + 1
<1>0. x \in Nat
  OBVIOUS
<1>1. u \in Seq(Nat) /\ UpTo(x) = Append(u, x)
  BY UpToAppend
<1> HIDE DEF u, x
<1>2. Kept(Append(u, x), S) = IF x \in S THEN Append(Kept(u, S), x) ELSE Kept(u, S)
  BY <1>0, <1>1, KeptAppend
<1> QED
  BY <1>1, <1>2 DEF u, x

-----------------------------------------------------------------------------
\* The last line of a kind before another.

LEMMA LastBeforeIs ==
  ASSUME NEW S \in SUBSET Nat, NEW n \in Nat
  PROVE  /\ LastBefore(n, S) \in {0} \cup {k \in S : k < n}
         /\ \A k \in S : k < n => k <= LastBefore(n, S)
<1> DEFINE X == {0} \cup {k \in S : k < n}
           D == {d \in Nat : \E k \in X : d = n - k}
<1>1. D \in SUBSET Nat /\ n - 0 \in D
  OBVIOUS
<1> HIDE DEF D
<1>2. PICK d \in D : \A y \in D : d <= y
  BY <1>1, LeastElement
<1> USE DEF D
<1>3. PICK m \in X : d = n - m
  BY <1>2
<1>4. \A k \in X : n - k \in D /\ k \in Nat
  OBVIOUS
<1>5. \A k \in X : d <= n - k
  BY <1>2, <1>4
<1>6. \A k \in X : m >= k
  BY <1>3, <1>4, <1>5
<1>7. Max(X) \in X /\ \A k \in X : Max(X) >= k
  BY <1>6 DEF Max
<1> QED
  BY <1>7, <1>4 DEF LastBefore

LEMMA LastBeforeUnique ==
  ASSUME NEW S \in SUBSET Nat, NEW n \in Nat, NEW m \in S, m < n, \A k \in S : k < n => k <= m
  PROVE  LastBefore(n, S) = m
<1>1. LastBefore(n, S) \in {0} \cup {k \in S : k < n}
  BY LastBeforeIs
<1>2. m <= LastBefore(n, S) /\ m \in Nat
  BY LastBeforeIs
<1>3. CASE LastBefore(n, S) = 0
  BY <1>2, <1>3
<1>4. CASE LastBefore(n, S) \in S /\ LastBefore(n, S) < n
  <2>1. LastBefore(n, S) <= m /\ LastBefore(n, S) \in Nat
    BY <1>4
  <2> QED
    BY <1>2, <2>1
<1> QED
  BY <1>1, <1>3, <1>4

\* Lines of other kinds do not change it.
LEMMA LastBeforeSame ==
  ASSUME NEW S, NEW m, NEW n, \A k \in S : k < n <=> k < m
  PROVE  LastBefore(n, S) = LastBefore(m, S)
<1>1. {k \in S : k < n} = {k \in S : k < m}
  OBVIOUS
<1> QED
  BY <1>1 DEF LastBefore

-----------------------------------------------------------------------------
\* The state machines.

States == {Ready} \cup {Ins(n) : n \in 1..3} \cup {CodeOf(n) : n \in 1..3}
SectionTypes == {"FuncName", "HeaderFlag", "Others"}

LEMMA StatesDiffer ==
  /\ \A n : Ready # Ins(n) /\ Ready # CodeOf(n)
  /\ \A m, n : Ins(m) # CodeOf(n) /\ (Ins(m) = Ins(n) => m = n) /\ (CodeOf(m) = CodeOf(n) => m = n)
  BY DEF Ready, Ins, CodeOf

\* What a line does in each state.
LEMMA NextIs ==
  ASSUME NEW l \in Lines, NEW to \in NextStates(l)
  PROVE  \/ l.type \in SectionTypes /\ pstate = Ready /\ to = Ready
         \/ /\ FamilyOf[arch] = "Sm5x6x"
            /\ \/ pstate = Ready /\ l.type = "CodeOnly" /\ to = Ins(3)
               \/ \E n \in 1..3 : \/ pstate = Ins(n) /\ l.type = "InsCode" /\ to = After(n)
                                  \/ pstate = Ins(n) /\ l.type = "InsOnly" /\ to = CodeOf(n)
                                  \/ pstate = CodeOf(n) /\ l.type = "CodeOnly" /\ to = After(n)
         \/ /\ FamilyOf[arch] = "Sm7x8x"
            /\ \/ pstate = Ready /\ l.type = "InsCode" /\ to = CodeOf(1)
               \/ pstate = CodeOf(1) /\ l.type = "CodeOnly" /\ to = Ready
               \/ pstate = Ready /\ l.type = "CodeOnly" /\ to = Ready
<1>1. PICK u \in Transitions(FamilyOf[arch]) : u[1] = pstate /\ u[2] = l.type /\ u[3] = to
  BY DEF NextStates
<1>2. CASE u \in SectionSteps
  <2>1. PICK t \in SectionTypes : u = <<Ready, t, Ready>>
    BY <1>2 DEF SectionSteps, SectionTypes
  <2> QED
    BY <1>1, <2>1
<1>3. CASE u \notin SectionSteps
  <2>1. CASE FamilyOf[arch] = "Sm5x6x"
    <3>1. u \in {<<Ready, "CodeOnly", Ins(3)>>}
           \cup UNION {{<<Ins(n), "InsCode", After(n)>>,
                        <<Ins(n), "InsOnly", CodeOf(n)>>,
                        <<CodeOf(n), "CodeOnly", After(n)>>} : n \in 1..3}
      BY <1>1, <1>3, <2>1 DEF Transitions
    <3>2. CASE u = <<Ready, "CodeOnly", Ins(3)>>
      BY <1>1, <2>1, <3>2
    <3>3. ASSUME NEW n \in 1..3, u \in {<<Ins(n), "InsCode", After(n)>>,
                        <<Ins(n), "InsOnly", CodeOf(n)>>,
                        <<CodeOf(n), "CodeOnly", After(n)>>}
          PROVE  \/ pstate = Ins(n) /\ l.type = "InsCode" /\ to = After(n)
                 \/ pstate = Ins(n) /\ l.type = "InsOnly" /\ to = CodeOf(n)
                 \/ pstate = CodeOf(n) /\ l.type = "CodeOnly" /\ to = After(n)
      BY <1>1, <3>3
    <3> QED
      BY <2>1, <3>1, <3>2, <3>3
  <2>2. CASE FamilyOf[arch] = "Sm7x8x"
    <3>1. u \in {<<Ready, "InsCode", CodeOf(1)>>, <<CodeOf(1), "CodeOnly", Ready>>, <<Ready, "CodeOnly", Ready>>}
      BY <1>1, <1>3, <2>2 DEF Transitions
    <3> QED
      BY <1>1, <2>2, <3>1
  <2>3. CASE FamilyOf[arch] # "Sm5x6x" /\ FamilyOf[arch] # "Sm7x8x"
    BY <1>1, <1>3, <2>3 DEF Transitions
  <2> QED
    BY <2>1, <2>2, <2>3
<1> QED
  BY <1>2, <1>3

-----------------------------------------------------------------------------
\* Groups.  The lists is and cs hold the lines of one group up to line r, and
\* p is the state they leave the machine in: Ready when the group is whole.

LineNos == 1..Len(text)
CodeTypes == InsTypes \cup {"CodeOnly"}

Group7x8x(r, p, is, cs) ==
  \/ p = CodeOf(1) /\ text[r].type = "InsCode" /\ is = <<r>> /\ cs = <<r>>
  \/ /\ p = Ready /\ r > 1 /\ text[r].type = "CodeOnly" /\ text[r - 1].type = "InsCode"
     /\ is = <<r - 1>> /\ cs = <<r - 1, r>>

\* A line behind the control word of a group.
InGroup(n) == text[n].type \in InsTypes \/ (text[n].type = "CodeOnly" /\ text[n - 1].type = "InsOnly")

Held(g, r, is, cs) ==
  /\ g <= r /\ text[g].type = "CodeOnly" /\ text[g - 1].type # "InsOnly"
  /\ \A n \in g + 1 .. r : InGroup(n)
  /\ Len(cs) > 0 /\ cs[1] = g
  /\ \A k \in 1..Len(is) : is[k] \in g + 1 .. r /\ text[is[k]].type \in InsTypes
  /\ \A k \in 1..(Len(cs) - 1) : cs[k + 1] = OwnLine(is[k])

Group5x6x(g, r, p, is, cs) ==
  /\ Held(g, r, is, cs)
  /\ Len(is) \in 0..3
  /\ \/ p = After(4 - Len(is)) /\ Len(cs) = Len(is) + 1 /\ text[r].type # "InsOnly"
     \/ /\ Len(is) > 0 /\ p = CodeOf(4 - Len(is)) /\ Len(cs) = Len(is)
        /\ is[Len(is)] = r /\ text[r].type = "InsOnly"

InOneGroup(r, p, is, cs) ==
  \/ FamilyOf[arch] = "Sm7x8x" /\ Group7x8x(r, p, is, cs)
  \/ FamilyOf[arch] = "Sm5x6x" /\ \E g \in LineNos : Group5x6x(g, r, p, is, cs)

\* A line that is accepted extends the group of the 5x/6x family.
LEMMA Move5x6x ==
  ASSUME text \in Seq(Lines), read \in Nat, read < Len(text), ins \in Seq(LineNos), codes \in Seq(LineNos),
         FamilyOf[arch] = "Sm5x6x", pstate # Ready,
         NEW g \in LineNos, Group5x6x(g, read, pstate, ins, codes),
         NEW to \in NextStates(Line)
  PROVE  Line.type \in CodeTypes /\ Group5x6x(g, read + 1, to, InsWith(Line), CodesWith(Line))
<1> DEFINE l == Line
           r == read + 1
           m == Len(ins)
           is == InsWith(l)
           cs == CodesWith(l)
<1>1. l \in Lines /\ l = text[r] /\ r \in LineNos /\ r - 1 = read
  BY ElementOfSeq DEF Line, LineNos
<1>2. m \in 0..3 /\ Len(codes) \in Nat
  BY LenProperties DEF Group5x6x
<1>3. PICK n \in 1..3 : \/ pstate = Ins(n) /\ l.type = "InsCode" /\ to = After(n)
                        \/ pstate = Ins(n) /\ l.type = "InsOnly" /\ to = CodeOf(n)
                        \/ pstate = CodeOf(n) /\ l.type = "CodeOnly" /\ to = After(n)
  BY <1>1, NextIs
<1>4. KeepsCode(l) <=> l.type \in {"InsCode", "CodeOnly"}
  BY DEF KeepsCode
<1>5. g <= read /\ Held(g, read, ins, codes)
  BY DEF Group5x6x, Held
<1>6. Append(ins, r) \in Seq(LineNos) /\ Len(Append(ins, r)) = m + 1 /\ Append(ins, r)[m + 1] = r
        /\ \A k \in 1..m : Append(ins, r)[k] = ins[k]
  BY <1>1, AppendProperties
<1>7. Append(codes, r) \in Seq(LineNos) /\ Len(Append(codes, r)) = Len(codes) + 1 /\ Append(codes, r)[Len(codes) + 1] = r
        /\ \A k \in 1..Len(codes) : Append(codes, r)[k] = codes[k]
  BY <1>1, AppendProperties
<1>8. \A k \in 1..m : ins[k] \in g + 1 .. read /\ ins[k] \in g + 1 .. r /\ text[ins[k]].type \in InsTypes
  BY <1>2, <1>5 DEF Held
<1>c. g <= r /\ text[g].type = "CodeOnly" /\ text[g - 1].type # "InsOnly"
  BY <1>1, <1>5 DEF Held, LineNos
<1>a. g \in Nat /\ g + 1 <= r /\ \A k \in g + 1 .. r : k \in g + 1 .. read \/ k = r
  BY <1>5, <1>1 DEF LineNos
<1> HIDE DEF l, r, m, is, cs
<1>9. CASE pstate = Ins(n) /\ l.type \in InsTypes
  <2>1. n = 3 - m /\ m < 3 /\ Len(codes) = m + 1
    <3>1. pstate = After(4 - m) /\ Len(codes) = m + 1
      BY <1>9, StatesDiffer DEF Group5x6x, m
    <3>2. 4 - m # 1 /\ pstate = Ins((4 - m) - 1)
      BY <1>9, <3>1, StatesDiffer DEF After
    <3> QED
      BY <1>2, <3>1, <3>2, <1>9, StatesDiffer
  <2>2. is = Append(ins, r)
    BY <1>9 DEF InsWith, r, is
  <2>3. \A k \in g + 1 .. r : InGroup(k)
    BY <1>1, <1>5, <1>9, <1>a DEF Held, InGroup
  <2>4. \A k \in 1..Len(is) : is[k] \in g + 1 .. r /\ text[is[k]].type \in InsTypes
    BY <1>1, <1>2, <1>6, <1>8, <1>9, <1>a, <2>2
  <2>5. CASE l.type = "InsCode"
    <3>1. cs = Append(codes, r)
      BY <1>4, <2>5 DEF CodesWith, r, cs
    <3>2. to = After(4 - Len(is)) /\ Len(cs) = Len(is) + 1 /\ Len(is) \in 0..3
      <4>1. to = After(n)
        BY <1>3, <1>9, <2>5, StatesDiffer
      <4>2. 4 - Len(is) = n
        BY <1>2, <1>6, <2>1, <2>2
      <4> QED
        BY <1>2, <1>6, <1>7, <2>1, <2>2, <3>1, <4>1, <4>2
    <3>3. ASSUME NEW k \in 1..(Len(cs) - 1) PROVE cs[k + 1] = OwnLine(is[k])
      <4>1. CASE k = m + 1
        BY <1>1, <1>2, <1>6, <1>7, <2>1, <2>2, <2>5, <3>1, <4>1 DEF OwnLine
      <4>2. CASE k # m + 1
        <5>1. k \in 1..m /\ k + 1 \in 1..Len(codes) /\ k \in 1..(Len(codes) - 1)
          BY <1>2, <1>7, <2>1, <3>1, <4>2
        <5> QED
          BY <1>5, <1>6, <1>7, <2>2, <3>1, <5>1 DEF Held
      <4> QED
        BY <4>1, <4>2
    <3>4. Len(cs) > 0 /\ cs[1] = g
      BY <1>2, <1>5, <1>7, <3>1 DEF Held
    <3>5. Held(g, r, is, cs)
      BY <1>c, <2>3, <2>4, <3>3, <3>4 DEF Held
    <3> QED
      BY <1>1, <1>9, <2>5, <3>2, <3>5 DEF Group5x6x, CodeTypes, l, r, is, cs
  <2>6. CASE l.type = "InsOnly"
    <3>1. cs = codes
      BY <1>4, <2>6 DEF CodesWith, cs
    <3>2. to = CodeOf(4 - Len(is)) /\ Len(cs) = Len(is) /\ Len(is) \in 1..3 /\ is[Len(is)] = r
      <4>1. to = CodeOf(n)
        BY <1>3, <1>9, <2>6, StatesDiffer
      <4>2. 4 - Len(is) = n
        BY <1>2, <1>6, <2>1, <2>2
      <4> QED
        BY <1>2, <1>6, <1>7, <2>1, <2>2, <3>1, <4>1, <4>2
    <3>3. ASSUME NEW k \in 1..(Len(cs) - 1) PROVE cs[k + 1] = OwnLine(is[k])
      <4>1. k \in 1..m
        BY <1>2, <2>1, <3>1
      <4> QED
        BY <1>5, <1>6, <2>2, <3>1, <4>1 DEF Held
    <3>4. Len(cs) > 0 /\ cs[1] = g
      BY <1>5, <3>1 DEF Held
    <3>5. Held(g, r, is, cs)
      BY <1>c, <2>3, <2>4, <3>3, <3>4 DEF Held
    <3>6. text[r].type = "InsOnly" /\ Len(is) > 0 /\ Len(is) \in 0..3
      BY <1>1, <2>6, <3>2
    <3>7. Group5x6x(g, r, to, is, cs)
      BY <3>2, <3>5, <3>6 DEF Group5x6x
    <3> QED
      BY <1>9, <3>7 DEF CodeTypes, l, r, is, cs
  <2> QED
    BY <1>9, <2>5, <2>6 DEF InsTypes
<1>b. CASE pstate = CodeOf(n) /\ l.type = "CodeOnly"
  <2>1. n = 4 - m /\ m > 0 /\ Len(codes) = m /\ ins[m] = read /\ text[read].type = "InsOnly"
    <3>1. m > 0 /\ pstate = CodeOf(4 - m) /\ Len(codes) = m /\ ins[m] = read /\ text[read].type = "InsOnly"
      BY <1>b, StatesDiffer DEF Group5x6x, m, After
    <3> QED
      BY <1>2, <1>b, <3>1, StatesDiffer
  <2>2. is = ins /\ cs = Append(codes, r)
    BY <1>4, <1>b DEF InsWith, CodesWith, InsTypes, r, is, cs
  <2>3. \A k \in g + 1 .. r : InGroup(k)
    BY <1>1, <1>5, <1>a, <1>b, <2>1 DEF Held, InGroup
  <2>4. to = After(4 - Len(is)) /\ Len(cs) = Len(is) + 1 /\ Len(is) \in 0..3
    <3>1. to = After(n)
      BY <1>3, <1>b, StatesDiffer
    <3> QED
      BY <1>2, <1>7, <2>1, <2>2, <3>1 DEF m
  <2>5. ASSUME NEW k \in 1..(Len(cs) - 1) PROVE cs[k + 1] = OwnLine(is[k])
    <3>1. CASE k = m
      <4>1. text[is[k]].type = "InsOnly" /\ is[k] + 1 = r
        BY <2>1, <2>2, <3>1 DEF r
      <4>2. cs[k + 1] = r
        BY <1>7, <2>1, <2>2, <3>1
      <4> QED
        BY <4>1, <4>2 DEF OwnLine
    <3>2. CASE k # m
      <4>1. k \in 1..(Len(codes) - 1) /\ k + 1 \in 1..Len(codes)
        BY <1>2, <1>7, <2>1, <2>2, <3>2
      <4> QED
        BY <1>5, <1>7, <2>2, <4>1 DEF Held
    <3> QED
      BY <3>1, <3>2
  <2>6. Len(cs) > 0 /\ cs[1] = g
    BY <1>2, <1>5, <1>7, <2>2 DEF Held
  <2>7. Held(g, r, is, cs)
    <3>1. \A k \in 1..Len(is) : is[k] \in g + 1 .. r /\ text[is[k]].type \in InsTypes
      BY <1>8, <2>2 DEF m
    <3> QED
      BY <1>c, <2>3, <2>5, <2>6, <3>1 DEF Held
  <2> QED
    BY <1>1, <1>b, <2>4, <2>7 DEF Group5x6x, CodeTypes, l, r, is, cs
<1> QED
  BY <1>3, <1>9, <1>b DEF InsTypes

-----------------------------------------------------------------------------
\* The records of a group.

LEMMA MinSame == ASSUME NEW a \in Nat PROVE Min({a, a}) = a
  BY DEF Min

LEMMA NoRecords == Records(<<>>, <<>>) = <<>>
<1>1. Len(<<>>) = 0 /\ 3 * (0 \div 4) = 0 /\ 0 \div 2 = 0 /\ Min({0, 0}) = 0
  BY MinSame, SMT
<1>2. \A e : \A f : f = [k \in 1..0 |-> e] => f = <<>>
  BY EmptySeq
<1>3. 1..0 = {}
  BY SMT
<1>4. CASE FamilyOf[arch] = "Sm5x6x"
  BY <1>1, <1>3, <1>4 DEF Records
<1>5. CASE FamilyOf[arch] = "Sm7x8x"
  BY <1>1, <1>3, <1>5 DEF Records
<1>6. CASE FamilyOf[arch] # "Sm5x6x" /\ FamilyOf[arch] # "Sm7x8x"
  BY <1>6 DEF Records
<1> QED
  BY <1>4, <1>5, <1>6

\* The codes a group gives the k-th of its instructions.
GroupRecord(is, cs, k) ==
  IF FamilyOf[arch] = "Sm5x6x" THEN [ins |-> is[k], code |-> <<cs[k + 1]>>, ctrl |-> cs[1]]
                               ELSE [ins |-> is[k], code |-> <<cs[1], cs[2]>>, ctrl |-> cs[2]]

LEMMA GroupRecordIns == \A is, cs, k : GroupRecord(is, cs, k).ins = is[k]
  BY DEF GroupRecord

LEMMA RecordsWhole ==
  ASSUME text \in Seq(Lines), NEW r \in LineNos, NEW is \in Seq(LineNos), NEW cs \in Seq(LineNos),
         InOneGroup(r, Ready, is, cs)
  PROVE  /\ Records(is, cs) \in Seq(Recs) /\ Len(Records(is, cs)) = Len(is)
         /\ \A k \in 1..Len(is) : Records(is, cs)[k] = GroupRecord(is, cs, k) /\ is[k] \in InsLines /\ is[k] <= r
<1>1. CASE FamilyOf[arch] = "Sm7x8x"
  <2>1. r > 1 /\ text[r - 1].type = "InsCode" /\ is = <<r - 1>> /\ cs = <<r - 1, r>>
    BY <1>1, StatesDiffer DEF InOneGroup, Group7x8x
  <2>2. Len(is) = 1 /\ Len(cs) = 2 /\ Min({1, 2 \div 2}) = 1
    <3>1. 2 \div 2 = 1 /\ Min({1, 1}) = 1
      BY MinSame, SMT
    <3> QED
      BY <2>1, <3>1
  <2>3. Records(is, cs) = [k \in 1..1 |-> [ins |-> is[k], code |-> <<cs[2 * k - 1], cs[2 * k]>>, ctrl |-> cs[2 * k]]]
    BY <1>1, <2>2 DEF Records
  <2>4. \A k \in 1..1 : k = 1 /\ 2 * k - 1 = 1 /\ 2 * k = 2
    BY SMT
  <2>5. Records(is, cs) = [k \in 1..1 |-> GroupRecord(is, cs, k)]
    BY <1>1, <2>3, <2>4 DEF GroupRecord
  <2>6. \A k \in 1..1 : GroupRecord(is, cs, k) \in Recs
    BY <1>1, <2>1, <2>2 DEF Recs, LineNos, GroupRecord
  <2>8. Records(is, cs) \in Seq(Recs) /\ Len(Records(is, cs)) = 1
    BY <2>5, <2>6, SeqDef, LenProperties
  <2>7. is[1] \in InsLines /\ is[1] <= r
    BY <2>1 DEF InsLines, InsTypes, LineNos
  <2> QED
    BY <2>2, <2>4, <2>5, <2>7, <2>8
<1>2. CASE FamilyOf[arch] = "Sm5x6x"
  <2>1. PICK g \in LineNos : Group5x6x(g, r, Ready, is, cs)
    BY <1>2 DEF InOneGroup
  <2>2. Len(is) = 3 /\ Len(cs) = 4
    <3>1. Ready = After(4 - Len(is))
      BY <2>1, StatesDiffer DEF Group5x6x
    <3>2. Len(cs) = Len(is) + 1 /\ Len(is) \in 0..3
      BY <2>1, StatesDiffer DEF Group5x6x
    <3>3. 4 - Len(is) = 1
      BY <3>1, StatesDiffer DEF After
    <3>4. \A m \in 0..3 : 4 - m = 1 => m = 3 /\ m + 1 = 4
      OBVIOUS
    <3> QED
      BY <3>2, <3>3, <3>4, Zenon
  <2>3. Min({Len(is), 3 * (Len(cs) \div 4)}) = 3
    <3>1. 3 * (4 \div 4) = 3 /\ Min({3, 3}) = 3
      BY MinSame, SMT
    <3> QED
      BY <2>2, <3>1
  <2>4. \A k \in 1..3 : 4 * ((k - 1) \div 3) = 0 /\ (k - 1) % 3 = k - 1
    BY SMT
  <2>5. Records(is, cs) = [k \in 1..3 |->
            LET group == 4 * ((k - 1) \div 3)
            IN  [ins |-> is[k], code |-> <<cs[group + 2 + ((k - 1) % 3)]>>, ctrl |-> cs[group + 1]]]
    BY <1>2, <2>3 DEF Records
  <2>6. Records(is, cs) = [k \in 1..3 |-> GroupRecord(is, cs, k)]
    <3>1. \A k \in 1..3 : 0 + 2 + (k - 1) = k + 1
      OBVIOUS
    <3> QED
      BY <1>2, <2>4, <2>5, <3>1 DEF GroupRecord
  <2>7. \A k \in 1..3 : is[k] \in LineNos /\ cs[k + 1] \in LineNos /\ cs[1] \in LineNos
    <3>1. (\A k \in 1..3 : is[k] \in LineNos) /\ \A k \in 1..4 : cs[k] \in LineNos
      BY <2>2, ElementOfSeq
    <3>2. 1 \in 1..4 /\ \A k \in 1..3 : k + 1 \in 1..4
      OBVIOUS
    <3> QED
      BY <3>1, <3>2
  <2>8. \A k \in 1..3 : GroupRecord(is, cs, k) \in Recs
    <3> SUFFICES ASSUME NEW k \in 1..3 PROVE GroupRecord(is, cs, k) \in Recs
      OBVIOUS
    <3>1. is[k] \in Nat /\ cs[k + 1] \in Nat /\ cs[1] \in Nat
      <4>1. LineNos \subseteq Nat
        BY DEF LineNos
      <4>2. is[k] \in LineNos /\ cs[k + 1] \in LineNos /\ cs[1] \in LineNos
        BY <2>7
      <4> QED
        BY <4>1, <4>2
    <3>2. <<cs[k + 1]>> \in Seq(Nat)
      BY <3>1
    <3> QED
      BY <1>2, <3>1, <3>2 DEF Recs, GroupRecord
  <2>9. Records(is, cs) \in Seq(Recs) /\ Len(Records(is, cs)) = 3
    BY <2>6, <2>8, SeqDef, LenProperties
  <2>a. ASSUME NEW k \in 1..3 PROVE is[k] \in InsLines /\ is[k] <= r
    <3>1. \A m \in 1..Len(is) : is[m] \in g + 1 .. r /\ text[is[m]].type \in InsTypes
      BY <2>1 DEF Group5x6x, Held
    <3>2. is[k] \in g + 1 .. r /\ text[is[k]].type \in InsTypes /\ is[k] \in LineNos
      BY <3>1, <2>2, <2>7
    <3>3. g \in Int /\ r \in Int => is[k] <= r
      BY <3>2
    <3> QED
      BY <3>2, <3>3 DEF InsLines, LineNos
  <2> QED
    BY <2>2, <2>6, <2>9, <2>a
<1> QED
  BY <1>1, <1>2 DEF InOneGroup

-----------------------------------------------------------------------------
\* The lists hold the lines of one group, whatever was called.

TypeOK ==
  /\ text \in Texts /\ archFilter \in Filters /\ read \in 0..Len(text)
  /\ started \in BOOLEAN /\ doFeed \in BOOLEAN /\ thrown \in BOOLEAN
  /\ arch \in Archs \cup {NoArch} /\ func \in Nat /\ pstate \in States
  /\ ins \in Seq(LineNos) /\ codes \in Seq(LineNos) /\ buf \in Seq(LineNos)
  /\ pending \in Seq(Recs) /\ out \in Seq(Outs)
  /\ call \in {"none", "next", "trans"} /\ pass \in {"next", "trans", "moved"}
  /\ passed \in SUBSET {"next", "trans"} /\ stale \in BOOLEAN /\ asked \in BOOLEAN

\* Lines have been fed to the state machine since the stream was rewound.
Feeding == doFeed \/ (call = "trans" /\ read > 0)

\* A group left over from an earlier pass may be in the lists, but then nothing
\* is fed before the line that throws.
GroupInv ==
  /\ pstate = Ready => ins = <<>> /\ codes = <<>>
  /\ call # "trans" \/ pstate = Ready => buf = <<>>
  /\ pending # <<>> => pstate = Ready
  /\ call = "trans" => pass = "trans"
  /\ pass = "trans" => ~doFeed /\ pending = <<>> /\ (call = "trans" \/ read = Len(text))
  /\ pstate # Ready /\ doFeed /\ call = "none" => read = Len(text)
  /\ pstate # Ready /\ Feeding => read > 0 /\ InOneGroup(read, pstate, ins, codes)
  /\ pstate = Ready /\ Feeding => read = Len(text) \/ text[read].type # "InsOnly"

FeederInv == TypeOK /\ GroupInv

LEMMA TextIs ==
  ASSUME TypeOK
  PROVE  /\ text \in Seq(Lines) /\ Len(text) \in Nat /\ LineNos \subseteq Nat /\ read \in Nat
         /\ \A n \in LineNos : text[n] \in Lines /\ (text[n].type \in CodeTypes => Introduced(text, n))
<1>1. text \in Texts /\ text \in Seq(Lines)
  BY FeederAssumption DEF TypeOK
<1>2. Len(text) \in Nat /\ \A n \in 1..Len(text) : text[n] \in Lines
  BY <1>1, ElementOfSeq, LenProperties
<1>3. \A n \in 1..Len(text) : text[n].type \in InsTypes \cup {"CodeOnly"} => Introduced(text, n)
  BY <1>1, ListingAssumption
<1> QED
  BY <1>1, <1>2, <1>3 DEF LineNos, CodeTypes, TypeOK

LEMMA LineIs ==
  ASSUME TypeOK, read < Len(text)
  PROVE  /\ read + 1 \in LineNos /\ Line \in Lines /\ Line = text[read + 1]
         /\ Line.type \in CodeTypes => Introduced(text, read + 1) /\ read > 0
<1>1. read + 1 \in LineNos /\ Line = text[read + 1]
  BY TextIs DEF LineNos, Line
<1>2. Line \in Lines /\ (Line.type \in CodeTypes => Introduced(text, read + 1))
  BY <1>1, TextIs
<1>3. Introduced(text, read + 1) => read > 0
  BY TextIs DEF Introduced
<1> QED
  BY <1>1, <1>2, <1>3

LEMMA AppendPair == ASSUME NEW a \in Nat PROVE Append(<<a>>, a + 1) = <<a, a + 1>>
<1>1. <<a>> \in Seq(Nat) /\ Len(<<a>>) = 1 /\ a + 1 \in Nat /\ <<a>>[1] = a
  OBVIOUS
<1>2. <<a, a + 1>> \in Seq(Nat) /\ Len(<<a, a + 1>>) = 2 /\ <<a, a + 1>>[1] = a /\ <<a, a + 1>>[2] = a + 1
  OBVIOUS
<1> DEFINE s == Append(<<a>>, a + 1)
           t == <<a, a + 1>>
<1>3. s \in Seq(Nat) /\ Len(s) = 2 /\ s[1] = a /\ s[2] = a + 1
  BY <1>1, AppendProperties
<1> HIDE DEF s, t
<1>4. \A i \in 1..2 : s[i] = t[i]
  BY <1>2, <1>3 DEF t
<1>5. s = t
  BY <1>2, <1>3, <1>4, SeqEqual DEF t
<1> QED
  BY <1>5 DEF s, t

\* The first line of a group.
LEMMA Start5x6x ==
  ASSUME TypeOK, read < Len(text), read > 0, Line.type = "CodeOnly", text[read].type # "InsOnly",
         pstate = Ready, FamilyOf[arch] = "Sm5x6x", ins = <<>>, codes = <<>>
  PROVE  Group5x6x(read + 1, read + 1, Ins(3), InsWith(Line), CodesWith(Line))
<1> DEFINE r == read + 1
<1>1. InsWith(Line) = <<>> /\ CodesWith(Line) = <<r>>
  BY DEF InsWith, CodesWith, KeepsCode, InsTypes
<1>2. r \in LineNos /\ r \in Nat /\ r - 1 = read /\ text[r].type = "CodeOnly"
  BY LineIs, TextIs
<1> HIDE DEF r
<1>3. Held(r, r, <<>>, <<r>>)
  BY <1>2 DEF Held
<1>4. Len(<<>>) = 0 /\ Len(<<r>>) = 1 /\ After(4) = Ins(3) /\ 4 - 0 = 4
  BY DEF After
<1>5. Group5x6x(r, r, Ins(3), <<>>, <<r>>)
  BY <1>2, <1>3, <1>4 DEF Group5x6x
<1> QED
  BY <1>1, <1>5 DEF r

\* What feeding an accepted line does to the lists.
LEMMA FedLine ==
  ASSUME FeederInv, read < Len(text), doFeed \/ call = "trans", NEW to \in NextStates(Line)
  PROVE  /\ InsWith(Line) \in Seq(LineNos) /\ CodesWith(Line) \in Seq(LineNos) /\ to \in States
         /\ \/ /\ pstate = Ready /\ to = Ready /\ InsWith(Line) = <<>> /\ CodesWith(Line) = <<>>
               /\ Line.type \in SectionTypes \cup {"CodeOnly"}
            \/ /\ Line.type \in CodeTypes /\ Feeding
               /\ InOneGroup(read + 1, to, InsWith(Line), CodesWith(Line))
         /\ to = Ready => Line.type # "InsOnly"
<1>1. read + 1 \in LineNos /\ Line \in Lines /\ Line = text[read + 1]
        /\ (Line.type \in CodeTypes => Introduced(text, read + 1) /\ read > 0)
  BY LineIs DEF FeederInv
<1>2. text \in Seq(Lines) /\ read \in Nat /\ ins \in Seq(LineNos) /\ codes \in Seq(LineNos)
  BY TextIs DEF FeederInv, TypeOK
<1>3. InsWith(Line) \in Seq(LineNos) /\ CodesWith(Line) \in Seq(LineNos)
  BY <1>1, <1>2, AppendProperties DEF InsWith, CodesWith
<1>4. CASE Line.type \in SectionTypes /\ pstate = Ready /\ to = Ready
  <2>1. ins = <<>> /\ codes = <<>>
    BY <1>4 DEF FeederInv, GroupInv
  <2>2. InsWith(Line) = ins /\ CodesWith(Line) = codes
    BY <1>4 DEF InsWith, CodesWith, KeepsCode, InsTypes, SectionTypes
  <2> QED
    BY <1>3, <1>4, <2>1, <2>2 DEF States, SectionTypes
<1>5. CASE Line.type \notin SectionTypes
  <2>1. \/ /\ FamilyOf[arch] = "Sm5x6x"
           /\ \/ pstate = Ready /\ Line.type = "CodeOnly" /\ to = Ins(3)
              \/ \E n \in 1..3 : \/ pstate = Ins(n) /\ Line.type = "InsCode" /\ to = After(n)
                                 \/ pstate = Ins(n) /\ Line.type = "InsOnly" /\ to = CodeOf(n)
                                 \/ pstate = CodeOf(n) /\ Line.type = "CodeOnly" /\ to = After(n)
        \/ /\ FamilyOf[arch] = "Sm7x8x"
           /\ \/ pstate = Ready /\ Line.type = "InsCode" /\ to = CodeOf(1)
              \/ pstate = CodeOf(1) /\ Line.type = "CodeOnly" /\ to = Ready
              \/ pstate = Ready /\ Line.type = "CodeOnly" /\ to = Ready
    BY <1>1, <1>5, NextIs
  <2>2. Line.type \in CodeTypes /\ Feeding /\ read > 0
    BY <1>1, <2>1 DEF CodeTypes, InsTypes, Feeding
  <2>3. CASE FamilyOf[arch] = "Sm5x6x" /\ pstate = Ready
    <3>1. Line.type = "CodeOnly" /\ to = Ins(3)
      BY <2>1, <2>3, StatesDiffer
    <3>2. ins = <<>> /\ codes = <<>> /\ text[read].type # "InsOnly"
      BY <2>2, <2>3 DEF FeederInv, GroupInv
    <3>3. Group5x6x(read + 1, read + 1, to, InsWith(Line), CodesWith(Line))
      BY <2>2, <2>3, <3>1, <3>2, Start5x6x DEF FeederInv
    <3>4. to \in States /\ to # Ready
      BY <3>1, StatesDiffer DEF States
    <3> QED
      BY <1>1, <1>3, <2>2, <2>3, <3>3, <3>4 DEF InOneGroup
  <2>4. CASE FamilyOf[arch] = "Sm5x6x" /\ pstate # Ready
    <3>1. PICK g \in LineNos : Group5x6x(g, read, pstate, ins, codes)
      BY <2>2, <2>4 DEF FeederInv, GroupInv, InOneGroup
    <3>2. Group5x6x(g, read + 1, to, InsWith(Line), CodesWith(Line))
      BY <1>2, <2>4, <3>1, Move5x6x
    <3>3. PICK n \in 1..3 : \/ pstate = Ins(n) /\ Line.type = "InsCode" /\ to = After(n)
                            \/ pstate = Ins(n) /\ Line.type = "InsOnly" /\ to = CodeOf(n)
                            \/ pstate = CodeOf(n) /\ Line.type = "CodeOnly" /\ to = After(n)
      BY <2>1, <2>4
    <3>4. After(n) \in States /\ CodeOf(n) \in States
      <4>1. n # 1 => n - 1 \in 1..3
        OBVIOUS
      <4> QED
        BY <4>1 DEF States, After
    <3>5. to \in States /\ (to = Ready => Line.type # "InsOnly")
      BY <3>3, <3>4, StatesDiffer
    <3> QED
      BY <1>3, <2>2, <2>4, <3>2, <3>5 DEF InOneGroup
  <2>5. CASE FamilyOf[arch] = "Sm7x8x" /\ pstate = Ready
    <3>1. ins = <<>> /\ codes = <<>>
      BY <2>5 DEF FeederInv, GroupInv
    <3>2. CASE Line.type = "InsCode" /\ to = CodeOf(1)
      <4>1. InsWith(Line) = <<read + 1>> /\ CodesWith(Line) = <<read + 1>>
        BY <3>1, <3>2 DEF InsWith, CodesWith, KeepsCode, InsTypes
      <4>2. to \in States /\ to # Ready
        BY <3>2, StatesDiffer DEF States
      <4> QED
        BY <1>1, <1>3, <2>2, <2>5, <3>2, <4>1, <4>2 DEF InOneGroup, Group7x8x
    <3>3. CASE Line.type = "CodeOnly" /\ to = Ready
      <4>1. InsWith(Line) = <<>> /\ CodesWith(Line) = <<>>
        BY <2>5, <3>1, <3>3 DEF InsWith, CodesWith, KeepsCode, InsTypes
      <4> QED
        BY <1>3, <2>5, <3>3, <4>1 DEF States
    <3> QED
      BY <2>1, <2>5, <3>2, <3>3, StatesDiffer
  <2>6. CASE FamilyOf[arch] = "Sm7x8x" /\ pstate # Ready
    <3>1. Line.type = "CodeOnly" /\ to = Ready
      BY <2>1, <2>6
    <3>2. text[read].type = "InsCode" /\ ins = <<read>> /\ codes = <<read>>
      BY <2>2, <2>6 DEF FeederInv, GroupInv, InOneGroup, Group7x8x
    <3>3. InsWith(Line) = <<read>> /\ CodesWith(Line) = <<read, read + 1>>
      <4>1. KeepsCode(Line) /\ Line.type \notin InsTypes
        BY <2>6, <3>1 DEF KeepsCode, InsTypes
      <4>2. Append(<<read>>, read + 1) = <<read, read + 1>>
        BY <1>2, AppendPair
      <4> QED
        BY <3>2, <4>1, <4>2 DEF InsWith, CodesWith
    <3>4. (read + 1) - 1 = read /\ read + 1 > 1
      BY <1>2, <2>2
    <3> QED
      BY <1>1, <1>3, <2>2, <2>6, <3>1, <3>2, <3>3, <3>4 DEF InOneGroup, Group7x8x, States
  <2> QED
    BY <2>1, <2>3, <2>4, <2>5, <2>6
<1>6. Line.type \in SectionTypes => pstate = Ready /\ to = Ready
  <2> SUFFICES ASSUME Line.type \in SectionTypes PROVE pstate = Ready /\ to = Ready
    OBVIOUS
  <2>1. Line.type # "CodeOnly" /\ Line.type # "InsCode" /\ Line.type # "InsOnly"
    BY DEF SectionTypes
  <2> QED
    BY <1>1, <2>1, NextIs
<1> QED
  BY <1>4, <1>5, <1>6

-----------------------------------------------------------------------------
\* Every step keeps the types and the groups.

LEMMA FilteredType ==
  ASSUME NEW recs \in Seq(Recs)
  PROVE  Filtered(recs) \in Seq(Recs)
<1> DEFINE Q == {r \in ToSet(recs) : text[r.ins].sel}
<1>1. Kept(recs, Q) \in Seq(Recs \cap Q)
  BY KeptElements
<1>2. Kept(recs, Q) \in Seq(Recs)
  BY <1>1, SeqMonotonic
<1> QED
  BY <1>2 DEF Filtered

\* The records that a group gives when it is whole, and the empty lists.
LEMMA FedRecords ==
  ASSUME FeederInv, read < Len(text), doFeed \/ call = "trans", Ready \in NextStates(Line)
  PROVE  Records(InsWith(Line), CodesWith(Line)) \in Seq(Recs)
<1>1. InsWith(Line) \in Seq(LineNos) /\ CodesWith(Line) \in Seq(LineNos)
  BY FedLine
<1>2. CASE InsWith(Line) = <<>> /\ CodesWith(Line) = <<>>
  BY <1>2, NoRecords, EmptySeq
<1>3. CASE InOneGroup(read + 1, Ready, InsWith(Line), CodesWith(Line))
  BY <1>1, <1>3, RecordsWhole, LineIs, TextIs DEF FeederInv
<1> QED
  BY <1>2, <1>3, FedLine

LEMMA AnnotatedType ==
  ASSUME TypeOK, NEW lines \in Seq(LineNos), NEW recs \in Seq(Recs)
  PROVE  Annotated(lines, recs) \in Seq(Outs)
<1> DEFINE named == Kept(lines, InsLines)
           a(k) == [rec |-> IF k <= Len(recs) THEN [recs[k] EXCEPT !.ins = named[k]]
                                             ELSE [ins |-> named[k], code |-> <<>>, ctrl |-> 0],
                    func |-> func]
<1>1. named \in Seq(LineNos)
  BY KeptElements, SeqMonotonic, LineNos \cap InsLines \subseteq LineNos
<1>2. Len(named) \in Nat /\ Len(recs) \in Nat /\ \A k \in 1..Len(named) : named[k] \in Nat
  BY <1>1, ElementOfSeq, LenProperties, TextIs
<1>3. \A k \in 1..Len(recs) : recs[k] \in Recs
  BY ElementOfSeq
<1> HIDE DEF named
<1>4. ASSUME NEW k \in 1..Len(named) PROVE a(k) \in Outs
  <2>1. func \in Nat /\ named[k] \in Nat
    BY <1>2 DEF TypeOK
  <2>2. CASE k <= Len(recs)
    <3>1. recs[k] \in Recs
      BY <1>2, <1>3, <2>2
    <3>2. [recs[k] EXCEPT !.ins = named[k]] \in Recs
      BY <2>1, <3>1 DEF Recs
    <3> QED
      BY <2>1, <2>2, <3>2 DEF Outs
  <2>3. CASE ~(k <= Len(recs))
    <3>1. [ins |-> named[k], code |-> <<>>, ctrl |-> 0] \in Recs
      BY <2>1, EmptySeq DEF Recs
    <3> QED
      BY <2>1, <2>3, <3>1 DEF Outs
  <2> QED
    BY <2>2, <2>3
<1>5. [k \in 1..Len(named) |-> a(k)] \in [1..Len(named) -> Outs]
  BY <1>4
<1>6. [k \in 1..Len(named) |-> a(k)] \in Seq(Outs)
  BY <1>2, <1>5, SeqDef
<1> QED
  BY <1>6 DEF Annotated, named

\* Every step leaves the listing and the filter alone, and types it writes.
LEMMA FeederInvInit == Init => FeederInv
<1> SUFFICES ASSUME Init PROVE FeederInv
  OBVIOUS
<1>1. text \in Seq(Lines)
  BY FeederAssumption DEF Init
<1>2. Len(text) \in Nat
  BY <1>1, LenProperties
<1>3. TypeOK
  <2>1. 0 \in 0..Len(text) /\ Ready \in States
    BY <1>2 DEF States
  <2>2. <<>> \in Seq(LineNos) /\ <<>> \in Seq(Recs) /\ <<>> \in Seq(Outs)
    BY EmptySeq
  <2>3. text \in Texts /\ archFilter \in Filters /\ read = 0 /\ func = 0 /\ arch = NoArch /\ pstate = Ready
    BY DEF Init
  <2>4. ins = <<>> /\ codes = <<>> /\ buf = <<>> /\ pending = <<>> /\ out = <<>>
    BY DEF Init
  <2>5. started = FALSE /\ doFeed = FALSE /\ thrown = FALSE /\ stale = FALSE /\ asked = FALSE
    BY DEF Init
  <2>6. call = "none" /\ pass = "next" /\ passed = {}
    BY DEF Init
  <2> QED
    BY <2>1, <2>2, <2>3, <2>4, <2>5, <2>6 DEF TypeOK
<1>4. GroupInv
  BY DEF Init, GroupInv, Feeding
<1> QED
  BY <1>3, <1>4 DEF FeederInv

LEMMA SameGroup ==
  ASSUME text' = text, arch' = arch
  PROVE  (InOneGroup(read, pstate, ins, codes))' <=> InOneGroup(read', pstate', ins', codes')
  BY DEF InOneGroup, Group5x6x, Group7x8x, Held, InGroup, OwnLine, LineNos

\* A rewind leaves the lists and forgets that lines were fed.
LEMMA RewindInv ==
  ASSUME FeederInv, NEW by \in {"next", "trans"}, Rewind(by), call = "none",
         \/ call' \in {"none", "next"} /\ by = "next" /\ UNCHANGED buf
         \/ call' = "trans" /\ by = "trans" /\ buf' = <<>>,
         thrown' \in BOOLEAN, passed' \in SUBSET {"next", "trans"}, asked' \in BOOLEAN
  PROVE  FeederInv'
<1>1. TypeOK'
  <2>1. Len(text) \in Nat /\ 0 \in 0..Len(text)
    BY TextIs DEF FeederInv
  <2> QED
    BY <2>1, EmptySeq DEF FeederInv, TypeOK, Rewind, input, LineNos
<1>3. GroupInv'
  BY DEF FeederInv, GroupInv, Rewind, Feeding, input
<1> QED
  BY <1>1, <1>3 DEF FeederInv

\* A line that is refused changes nothing else.
LEMMA ThrowInv == ASSUME FeederInv, Throw(Line) PROVE FeederInv'
<1>1. UNCHANGED <<text, archFilter, read, started, doFeed, arch, func, pstate, ins, codes, pending, buf, call,
                  out, pass, passed, stale, asked>> /\ thrown' = TRUE
  BY DEF Throw, input, history
<1>2. TypeOK'
  BY <1>1 DEF FeederInv, TypeOK, LineNos
<1>3. GroupInv'
  BY <1>1, SameGroup DEF FeederInv, GroupInv, Feeding
<1> QED
  BY <1>2, <1>3 DEF FeederInv

LEMMA ReadSectionInv == ASSUME FeederInv, ReadSection PROVE FeederInv'
<1>1. read < Len(text) /\ Line.type \in {"HeaderFlag", "FuncName"} /\ call = "next" /\ pending = <<>>
  BY DEF ReadSection, Reading
<1>2. CASE Throw(Line)
  BY <1>2, ThrowInv
<1>3. ASSUME NEW to \in NextStates(Line), Feed(Line, to), Lists(Line, FALSE), read' = read + 1,
             doFeed' = IF Line.type = "HeaderFlag" THEN archFilter \in {NoArch, Line.arch} ELSE doFeed,
             UNCHANGED <<input, started, pending, buf, call, thrown, history>>
      PROVE  FeederInv'
  <2>1. read + 1 \in LineNos /\ Line \in Lines /\ Line = text[read + 1] /\ Len(text) \in Nat /\ read \in Nat
    BY <1>1, LineIs, TextIs DEF FeederInv
  <2>2. pstate = Ready /\ to = Ready
    BY <1>1, <1>3, <2>1, NextIs DEF SectionTypes
  <2>3. ins = <<>> /\ codes = <<>> /\ buf = <<>>
    BY <1>1, <2>2 DEF FeederInv, GroupInv
  <2>4. InsWith(Line) = ins /\ CodesWith(Line) = codes
    BY <1>1 DEF InsWith, CodesWith, KeepsCode, InsTypes
  <2>5. pstate' = Ready /\ ins' = <<>> /\ codes' = <<>>
    BY <1>3, <2>2, <2>3, <2>4 DEF Feed, Lists
  <2>6. UNCHANGED <<text, archFilter, started, pending, buf, call, thrown, out, pass, passed, stale, asked>>
    BY <1>3 DEF input, history
  <2>7. read' \in 0..Len(text) /\ text[read'].type # "InsOnly" /\ doFeed' \in BOOLEAN
    <3>1. read' = read + 1 /\ read' \in 0..Len(text)
      BY <1>3, <2>1 DEF LineNos
    <3>2. text[read'].type # "InsOnly"
      BY <1>1, <2>1, <3>1
    <3>3. doFeed \in BOOLEAN
      BY DEF FeederInv, TypeOK
    <3>4. CASE Line.type = "HeaderFlag"
      BY <1>3, <3>1, <3>2, <3>4
    <3>5. CASE Line.type # "HeaderFlag"
      BY <1>3, <3>1, <3>2, <3>3, <3>5
    <3> QED
      BY <3>4, <3>5
  <2>8. arch' \in Archs \cup {NoArch} /\ func' \in Nat
    BY <1>3, <2>1 DEF Feed, Lines, FeederInv, TypeOK
  <2>9. TypeOK'
    <3>1. ins' \in Seq(LineNos) /\ codes' \in Seq(LineNos) /\ pstate' \in States
      BY <2>5, EmptySeq DEF States
    <3> QED
      BY <2>6, <2>7, <2>8, <3>1 DEF FeederInv, TypeOK, LineNos
  <2>a. pass # "trans"
    BY <1>1, <2>1 DEF FeederInv, GroupInv
  <2>b. GroupInv'
    BY <1>1, <2>3, <2>5, <2>6, <2>7, <2>a DEF FeederInv, GroupInv, Feeding
  <2> QED
    BY <2>9, <2>b DEF FeederInv
<1> QED
  BY <1>2, <1>3 DEF ReadSection

\* A line that is fed, by next() or trans().
LEMMA FedInv ==
  ASSUME FeederInv, read < Len(text), NEW to \in NextStates(Line), Feed(Line, to), Lists(Line, to = Ready),
         \/ call = "next" /\ doFeed /\ Line.type \notin {"HeaderFlag", "FuncName"}
         \/ call = "trans",
         read' = read + 1, UNCHANGED <<input, started, doFeed, call, thrown, pass, passed, stale, asked>>
  PROVE  /\ ins' \in Seq(LineNos) /\ codes' \in Seq(LineNos) /\ pstate' \in States /\ pstate' = to
         /\ arch' \in Archs \cup {NoArch} /\ func' \in Nat /\ read' \in 0..Len(text) /\ read' > 0
         /\ pstate' = Ready => ins' = <<>> /\ codes' = <<>> /\ text[read'].type # "InsOnly"
         /\ pstate' # Ready => InOneGroup(read, pstate, ins, codes)'
<1>1. read + 1 \in LineNos /\ Line \in Lines /\ Line = text[read + 1] /\ Len(text) \in Nat /\ read \in Nat
  BY LineIs, TextIs DEF FeederInv
<1>2. InsWith(Line) \in Seq(LineNos) /\ CodesWith(Line) \in Seq(LineNos) /\ to \in States
  BY FedLine
<1>3. to = Ready => Line.type # "InsOnly"
  BY FedLine
<1>4. to # Ready => InOneGroup(read + 1, to, InsWith(Line), CodesWith(Line)) /\ Line.type \in CodeTypes
  BY FedLine
<1>5. pstate' = to /\ arch' \in Archs \cup {NoArch} /\ func' \in Nat
  BY <1>1 DEF Feed, Lines, FeederInv, TypeOK
<1>6. ins' = (IF to = Ready THEN <<>> ELSE InsWith(Line)) /\ codes' = (IF to = Ready THEN <<>> ELSE CodesWith(Line))
  BY DEF Lists
<1>7. ASSUME to # Ready PROVE InOneGroup(read, pstate, ins, codes)'
  <2>1. arch' = arch /\ text' = text
    BY <1>4, <1>7 DEF Feed, CodeTypes, InsTypes, input
  <2> QED
    BY <1>4, <1>5, <1>6, <1>7, <2>1, SameGroup
<1>8. LineNos' = LineNos /\ text' = text
  BY DEF LineNos, input
<1>9. read' \in 0..Len(text) /\ read' > 0 /\ read' = read + 1
  BY <1>1 DEF LineNos
<1>a. ins' \in Seq(LineNos) /\ codes' \in Seq(LineNos)
  BY <1>2, <1>6, EmptySeq
<1>b. pstate' = Ready => ins' = <<>> /\ codes' = <<>> /\ text[read'].type # "InsOnly"
  BY <1>1, <1>3, <1>5, <1>6, <1>9
<1> QED
  BY <1>2, <1>5, <1>7, <1>8, <1>9, <1>a, <1>b

LEMMA ReadInsInv == ASSUME FeederInv, ReadIns PROVE FeederInv'
<1>1. read < Len(text) /\ Line.type \notin {"HeaderFlag", "FuncName"} /\ doFeed /\ call = "next" /\ pending = <<>>
  BY DEF ReadIns, Reading
<1>2. CASE Throw(Line)
  BY <1>2, ThrowInv
<1>3. ASSUME NEW to \in NextStates(Line), Feed(Line, to), Lists(Line, to = Ready), read' = read + 1,
             pending' = IF to = Ready THEN Filtered(Records(InsWith(Line), CodesWith(Line))) ELSE pending,
             UNCHANGED <<input, started, doFeed, buf, call, thrown, history>>
      PROVE  FeederInv'
  <2>1. UNCHANGED <<text, archFilter, started, doFeed, buf, call, thrown, out, pass, passed, stale, asked>>
    BY <1>3 DEF input, history
  <2>2. UNCHANGED <<input, started, doFeed, call, thrown, pass, passed, stale, asked>>
    BY <1>3, <2>1
  <2>3. /\ ins' \in Seq(LineNos) /\ codes' \in Seq(LineNos) /\ pstate' \in States /\ pstate' = to
        /\ arch' \in Archs \cup {NoArch} /\ func' \in Nat /\ read' \in 0..Len(text) /\ read' > 0
        /\ pstate' = Ready => ins' = <<>> /\ codes' = <<>> /\ text[read'].type # "InsOnly"
        /\ pstate' # Ready => InOneGroup(read, pstate, ins, codes)'
    BY <1>1, <1>3, <2>2, FedInv
  <2>4. pending' \in Seq(Recs)
    BY <1>1, <1>3, FedRecords, FilteredType, EmptySeq
  <2>5. TypeOK'
    BY <2>1, <2>3, <2>4 DEF FeederInv, TypeOK, LineNos
  <2>6. pending' # <<>> => pstate' = Ready
    BY <1>1, <1>3, <2>3
  <2>7. pass # "trans" /\ buf = <<>>
    BY <1>1 DEF FeederInv, GroupInv
  <2>8. GroupInv'
    BY <1>1, <2>1, <2>3, <2>6, <2>7 DEF GroupInv, Feeding
  <2> QED
    BY <2>5, <2>8 DEF FeederInv
<1> QED
  BY <1>2, <1>3 DEF ReadIns

LEMMA ReadTransInv == ASSUME FeederInv, ReadTrans PROVE FeederInv'
<1>1. read < Len(text) /\ call = "trans"
  BY DEF ReadTrans, Reading
<1>2. CASE Throw(Line)
  BY <1>2, ThrowInv
<1>3. ASSUME NEW to \in NextStates(Line), Feed(Line, to), Lists(Line, to = Ready), read' = read + 1,
             IF to = Ready
             THEN /\ out' = out \o Annotated(Append(buf, read + 1), Records(InsWith(Line), CodesWith(Line)))
                  /\ buf' = <<>>
             ELSE /\ buf' = Append(buf, read + 1)
                  /\ UNCHANGED out,
             UNCHANGED <<input, started, doFeed, pending, call, thrown, pass, passed, stale, asked>>
      PROVE  FeederInv'
  <2>1. UNCHANGED <<text, archFilter, started, doFeed, pending, call, thrown, pass, passed, stale, asked>>
    BY <1>3 DEF input
  <2>2. UNCHANGED <<input, started, doFeed, call, thrown, pass, passed, stale, asked>>
    BY <1>3
  <2>3. /\ ins' \in Seq(LineNos) /\ codes' \in Seq(LineNos) /\ pstate' \in States /\ pstate' = to
        /\ arch' \in Archs \cup {NoArch} /\ func' \in Nat /\ read' \in 0..Len(text) /\ read' > 0
        /\ pstate' = Ready => ins' = <<>> /\ codes' = <<>> /\ text[read'].type # "InsOnly"
        /\ pstate' # Ready => InOneGroup(read, pstate, ins, codes)'
    BY <1>1, <1>3, <2>2, FedInv
  <2>4. Append(buf, read + 1) \in Seq(LineNos) /\ buf \in Seq(LineNos) /\ out \in Seq(Outs)
    BY <1>1, LineIs, AppendProperties DEF FeederInv, TypeOK
  <2>5. out' \in Seq(Outs) /\ buf' \in Seq(LineNos)
    <3>1. CASE to = Ready
      <4>1. Records(InsWith(Line), CodesWith(Line)) \in Seq(Recs)
        BY <1>1, <3>1, FedRecords
      <4>2. Annotated(Append(buf, read + 1), Records(InsWith(Line), CodesWith(Line))) \in Seq(Outs)
        BY <2>4, <4>1, AnnotatedType DEF FeederInv
      <4> QED
        BY <1>3, <2>4, <3>1, <4>2, ConcatProperties, EmptySeq
    <3> QED
      BY <1>3, <2>4, <3>1
  <2>6. TypeOK'
    BY <2>1, <2>3, <2>5 DEF FeederInv, TypeOK, LineNos
  <2>7. pending = <<>> /\ ~doFeed /\ pass = "trans"
    BY <1>1 DEF FeederInv, GroupInv
  <2>8. pstate' = Ready => buf' = <<>>
    BY <1>3, <2>3
  <2>9. GroupInv'
    BY <1>1, <2>1, <2>3, <2>7, <2>8 DEF GroupInv, Feeding
  <2> QED
    BY <2>6, <2>9 DEF FeederInv
<1> QED
  BY <1>2, <1>3 DEF ReadTrans

\* The steps that feed nothing.
LEMMA SkipInv == ASSUME FeederInv, Skip PROVE FeederInv'
<1>1. UNCHANGED <<text, archFilter, started, doFeed, arch, func, pstate, ins, codes, pending, buf, call, thrown,
                  out, pass, passed, stale, asked>>
  BY DEF Skip, input, history
<1>2. call = "next" /\ ~doFeed /\ read' = read + 1 /\ read < Len(text)
  BY DEF Skip, Reading
<1>3. Len(text) \in Nat /\ read \in Nat
  BY TextIs DEF FeederInv
<1>4. read' \in 0..Len(text)
  BY <1>2, <1>3
<1>5. TypeOK'
  BY <1>1, <1>4 DEF FeederInv, TypeOK, LineNos
<1>6. pass # "trans"
  BY <1>2, <1>3 DEF FeederInv, GroupInv
<1>7. GroupInv'
  BY <1>1, <1>2, <1>6 DEF FeederInv, GroupInv, Feeding
<1> QED
  BY <1>5, <1>7 DEF FeederInv

LEMMA DeliverInv == ASSUME FeederInv, Deliver PROVE FeederInv'
<1>1. UNCHANGED <<text, archFilter, read, started, doFeed, arch, func, pstate, ins, codes, buf, thrown,
                  pass, passed, stale, asked>>
  BY DEF Deliver, input
<1>2. call = "next" /\ pending # <<>> /\ call' = "none" /\ pending' = Tail(pending)
        /\ out' = Append(out, [rec |-> Head(pending), func |-> func])
  BY DEF Deliver
<1>3. pending \in Seq(Recs) /\ out \in Seq(Outs) /\ func \in Nat
  BY DEF FeederInv, TypeOK
<1>4. Head(pending) \in Recs /\ Tail(pending) \in Seq(Recs)
  BY <1>2, <1>3, HeadTailProperties
<1>5. [rec |-> Head(pending), func |-> func] \in Outs
  BY <1>3, <1>4 DEF Outs
<1>6. out' \in Seq(Outs) /\ pending' \in Seq(Recs)
  BY <1>2, <1>3, <1>4, <1>5, AppendProperties
<1>7. TypeOK'
  BY <1>1, <1>2, <1>6 DEF FeederInv, TypeOK, LineNos
<1>8. pstate = Ready /\ pass # "trans" /\ buf = <<>> /\ ins = <<>> /\ codes = <<>>
  BY <1>2 DEF FeederInv, GroupInv
<1>9. GroupInv'
  BY <1>1, <1>2, <1>8 DEF FeederInv, GroupInv, Feeding
<1> QED
  BY <1>7, <1>9 DEF FeederInv

LEMMA EndInv == ASSUME FeederInv, EndNext \/ EndTrans PROVE FeederInv'
<1>1. UNCHANGED <<text, archFilter, read, doFeed, arch, func, pstate, ins, codes, pending, thrown,
                  out, pass, stale, asked>>
  BY DEF EndNext, EndTrans, input
<1>2. call' = "none" /\ read = Len(text) /\ buf' \in {buf, <<>>} /\ (call # "next" => buf' = <<>>)
  BY DEF EndNext, EndTrans
<1>3. started' \in BOOLEAN /\ passed' \in SUBSET {"next", "trans"}
  BY DEF EndNext, EndTrans, FeederInv, TypeOK
<1>4. buf' = <<>>
  BY <1>2 DEF FeederInv, GroupInv
<1>5. TypeOK'
  BY <1>1, <1>2, <1>3, <1>4, EmptySeq DEF FeederInv, TypeOK, LineNos
<1>6. GroupInv'
  <2>1. pstate # Ready /\ doFeed => InOneGroup(read, pstate, ins, codes)'
    BY <1>1, SameGroup DEF FeederInv, GroupInv, Feeding
  <2> QED
    BY <1>1, <1>2, <1>4, <2>1 DEF FeederInv, GroupInv, Feeding
<1> QED
  BY <1>5, <1>6 DEF FeederInv

LEMMA CallInv == ASSUME FeederInv, Restart \/ CallNext \/ CallTrans PROVE FeederInv'
<1>1. call = "none"
  BY DEF Restart, CallNext, CallTrans, Idle
<1>2. thrown' \in BOOLEAN /\ passed' \in SUBSET {"next", "trans"} /\ asked' \in BOOLEAN
  BY DEF Restart, CallNext, CallTrans, FeederInv, TypeOK
<1>3. CASE Restart
  BY <1>1, <1>2, <1>3, RewindInv DEF Restart
<1>4. CASE CallTrans
  BY <1>1, <1>2, <1>4, RewindInv DEF CallTrans
<1>5. CASE CallNext /\ ~started
  BY <1>1, <1>2, <1>5, RewindInv DEF CallNext
<1>6. CASE CallNext /\ started
  <2>1. UNCHANGED <<text, archFilter, read, started, doFeed, arch, func, pstate, ins, codes, pending, buf, thrown,
                    out, pass, passed, stale>>
    BY <1>6 DEF CallNext, input
  <2>2. call' = "next" /\ asked' = TRUE
    BY <1>6 DEF CallNext
  <2>3. TypeOK'
    BY <2>1, <2>2 DEF FeederInv, TypeOK, LineNos
  <2>4. GroupInv'
    <3>1. pstate # Ready /\ doFeed => InOneGroup(read, pstate, ins, codes)'
      BY <2>1, SameGroup DEF FeederInv, GroupInv, Feeding
    <3> QED
      BY <1>1, <2>1, <2>2, <3>1 DEF FeederInv, GroupInv, Feeding
  <2> QED
    BY <2>3, <2>4 DEF FeederInv
<1> QED
  BY <1>3, <1>4, <1>5, <1>6 DEF FeederInv, TypeOK

LEMMA ExtractInv == ASSUME FeederInv, Extract PROVE FeederInv'
<1>1. UNCHANGED <<text, archFilter, started, doFeed, arch, func, pstate, ins, codes, pending, buf, call, thrown,
                  out, passed, stale, asked>>
  BY DEF Extract, input
<1>2. call = "none" /\ pass' = "moved"
  BY DEF Extract, Idle
<1>3. Len(text) \in Nat /\ read \in 0..Len(text)
  BY TextIs DEF FeederInv, TypeOK
<1>4. read' \in read..Len(text) /\ (read' = Len(text) \/ text[read'].type = "FuncName")
  BY <1>3 DEF Extract
<1>5. TypeOK'
  BY <1>1, <1>2, <1>3, <1>4 DEF FeederInv, TypeOK, LineNos
<1>6. pstate # Ready /\ doFeed => read' = read
  BY <1>2, <1>3, <1>4 DEF FeederInv, GroupInv
<1>7. pstate # Ready /\ doFeed => read > 0 /\ InOneGroup(read, pstate, ins, codes)'
  BY <1>1, <1>6, SameGroup DEF FeederInv, GroupInv, Feeding
<1>8. GroupInv'
  BY <1>1, <1>2, <1>4, <1>6, <1>7 DEF FeederInv, GroupInv, Feeding
<1> QED
  BY <1>5, <1>8 DEF FeederInv

LEMMA FeederInvStep == FeederInv /\ [Next]_vars => FeederInv'
<1> SUFFICES ASSUME FeederInv, [Next]_vars PROVE FeederInv'
  OBVIOUS
<1>1. CASE UNCHANGED vars
  <2>1. UNCHANGED <<text, archFilter, read, started, doFeed, arch, func, pstate, ins, codes, pending, buf, call,
                    thrown, out, pass, passed, stale, asked>>
    BY <1>1 DEF vars, object, input, history
  <2>2. TypeOK'
    BY <2>1 DEF FeederInv, TypeOK, LineNos
  <2>3. GroupInv'
    BY <2>1, SameGroup DEF FeederInv, GroupInv, Feeding
  <2> QED
    BY <2>2, <2>3 DEF FeederInv
<1> QED
  BY <1>1, ReadSectionInv, ReadInsInv, ReadTransInv, SkipInv, DeliverInv, EndInv, CallInv, ExtractInv DEF Next

\* Every field of the feeder keeps its type, and the lines it holds are those of
\* one group, whatever calls its user makes.
THEOREM FeederTypeOK == Spec => [](TypeOK /\ GroupInv)
<1> QED
  BY FeederInvInit, FeederInvStep, PTL DEF Spec, FeederInv

-----------------------------------------------------------------------------
\* The records are made of an instruction's own lines.

Headers == LinesOf("HeaderFlag")
FuncLines == LinesOf("FuncName")

\* The architecture is the last header's, but for headers that stand before a
\* function that extract() has read on to.
ArchRight ==
  \E h \in Headers :
    /\ h <= read /\ arch = text[h].arch
    /\ \A j \in Headers : h < j /\ j <= read => \E f \in FuncLines : j < f /\ f <= read

IsOwn(r) == r.ins \in InsLines /\ r = OwnRecord(r.ins)

HeaderRead == \E h \in Headers : h <= read

\* The instructions held by trans() are those of the lines it keeps, except
\* while it has read nothing: then they are those of the pass before.
OwnInv ==
  /\ \A k \in 1..Len(pending) : IsOwn(pending[k])
  /\ \A k \in 1..Len(out) : IsOwn(out[k].rec)
  /\ doFeed \/ (call = "trans" /\ HeaderRead) => read = Len(text) \/ ArchRight
  /\ call = "trans" /\ (pstate = Ready \/ read > 0) => ins = Kept(buf, InsLines)

LEMMA SameText ==
  ASSUME text' = text
  PROVE  /\ Headers' = Headers /\ FuncLines' = FuncLines /\ InsLines' = InsLines
         /\ \A r : IsOwn(r)' <=> IsOwn(r)
<1>1. Headers' = Headers /\ FuncLines' = FuncLines /\ InsLines' = InsLines
  BY DEF Headers, FuncLines, InsLines, LinesOf
<1>2. ASSUME NEW r PROVE OwnRecord(r.ins)' = OwnRecord(r.ins)
  BY DEF OwnRecord, HeaderOf, LinesOf, OwnLine, ControlWords
<1>3. \A r : IsOwn(r)' <=> IsOwn(r)
  BY <1>1, <1>2 DEF IsOwn
<1> QED
  BY <1>1, <1>3

LEMMA HeaderOfIs ==
  ASSUME text \in Seq(Lines), NEW n \in Nat
  PROVE  /\ HeaderOf(n) \in {0} \cup {k \in Headers : k < n}
         /\ \A k \in Headers : k < n => k <= HeaderOf(n)
         /\ Headers \in SUBSET Nat /\ FuncLines \in SUBSET Nat
<1>1. Headers \in SUBSET Nat /\ FuncLines \in SUBSET Nat
  BY LenProperties DEF Headers, FuncLines, LinesOf
<1> QED
  BY <1>1, LastBeforeIs DEF HeaderOf, Headers

\* At a line of a group, the architecture in force is the listing's.
LEMMA ArchIsHeaders ==
  ASSUME TypeOK, ArchRight, read < Len(text), Introduced(text, read + 1)
  PROVE  arch = text[HeaderOf(read + 1)].arch /\ HeaderOf(read + 1) > 0
<1> DEFINE n == read + 1
           H == HeaderOf(n)
<1>1. read \in Nat /\ n \in Nat /\ text \in Seq(Lines) /\ n \in LineNos /\ n - 1 = read /\ Len(text) \in Nat
  BY TextIs DEF LineNos
<1>2. PICK h \in Headers :
        /\ h <= read /\ arch = text[h].arch
        /\ \A j \in Headers : h < j /\ j <= read => \E f \in FuncLines : j < f /\ f <= read
  BY DEF ArchRight
<1>3. PICK i \in 1..(n - 1) :
        /\ text[i].type = "HeaderFlag"
        /\ \/ \A m \in i..(n - 1) : text[m].type # "FuncName"
           \/ \A m \in 1..(n - 1) : text[m].type = "HeaderFlag" => text[m].arch = text[i].arch
  BY DEF Introduced
<1>4. i \in Headers /\ i \in Nat /\ i <= read
  BY <1>1, <1>3 DEF Headers, LinesOf
<1>5. H \in {0} \cup {k \in Headers : k < n} /\ (\A k \in Headers : k < n => k <= H)
        /\ Headers \in SUBSET Nat /\ FuncLines \in SUBSET Nat
  BY <1>1, HeaderOfIs
<1> HIDE DEF H
<1>6. i < n /\ h < n /\ h \in Nat /\ i > 0
  BY <1>1, <1>2, <1>3, <1>4, <1>5
<1>7. i <= H /\ h <= H /\ H \in Headers /\ H \in Nat /\ H > 0 /\ H <= read
  BY <1>1, <1>2, <1>4, <1>5, <1>6
<1>8. text[H].type = "HeaderFlag" /\ text[h].type = "HeaderFlag" /\ H \in 1..(n - 1) /\ h \in 1..(n - 1)
  BY <1>1, <1>2, <1>6, <1>7 DEF Headers, LinesOf
<1>9. CASE \A m \in 1..(n - 1) : text[m].type = "HeaderFlag" => text[m].arch = text[i].arch
  BY <1>2, <1>7, <1>8, <1>9 DEF H
<1>a. CASE \A m \in i..(n - 1) : text[m].type # "FuncName"
  <2>1. ASSUME h < H PROVE FALSE
    <3>1. PICK f \in FuncLines : H < f /\ f <= read
      BY <1>2, <1>7, <2>1
    <3>2. f \in i..(n - 1) /\ text[f].type = "FuncName"
      BY <1>1, <1>4, <1>5, <1>7, <3>1 DEF FuncLines, LinesOf
    <3> QED
      BY <1>a, <3>2
  <2>2. h = H
    BY <1>6, <1>7, <2>1
  <2> QED
    BY <1>2, <1>7, <2>2 DEF H
<1> QED
  BY <1>3, <1>9, <1>a

\* A whole group gives its instructions their own lines.
LEMMA GroupIsOwn ==
  ASSUME TypeOK, ArchRight, read < Len(text), Introduced(text, read + 1),
         NEW is \in Seq(LineNos), NEW cs \in Seq(LineNos), InOneGroup(read + 1, Ready, is, cs)
  PROVE  \A k \in 1..Len(Records(is, cs)) : IsOwn(Records(is, cs)[k])
<1> DEFINE r == read + 1
<1>1. r \in LineNos /\ r \in Nat /\ text \in Seq(Lines) /\ LineNos \subseteq Nat /\ read \in Nat /\ Len(text) \in Nat
  BY LineIs, TextIs
<1>2. Len(Records(is, cs)) = Len(is)
        /\ \A k \in 1..Len(is) : Records(is, cs)[k] = GroupRecord(is, cs, k) /\ is[k] \in InsLines /\ is[k] <= r
  BY <1>1, RecordsWhole
<1>3. arch = text[HeaderOf(r)].arch
  BY ArchIsHeaders
<1> HIDE DEF r
<1>4. SUFFICES ASSUME NEW k \in 1..Len(is) PROVE IsOwn(GroupRecord(is, cs, k))
  BY <1>2
<1>5. is[k] \in InsLines /\ is[k] \in LineNos /\ is[k] \in Nat
  BY <1>1, <1>2, ElementOfSeq
<1>6. CASE FamilyOf[arch] = "Sm7x8x"
  <2>1. r > 1 /\ text[r].type = "CodeOnly" /\ text[r - 1].type = "InsCode" /\ is = <<r - 1>> /\ cs = <<r - 1, r>>
    BY <1>6, StatesDiffer DEF InOneGroup, Group7x8x, r
  <2>2. k = 1 /\ is[k] = r - 1 /\ cs[1] = r - 1 /\ cs[2] = r /\ (r - 1) + 1 = r
    BY <1>1, <2>1
  <2>3. HeaderOf(r - 1) = HeaderOf(r)
    <3>1. \A j \in Headers : j < r <=> j < r - 1
      <4>1. r - 1 \notin Headers /\ Headers \subseteq Nat
        BY <1>1, <2>1, HeaderOfIs DEF Headers, LinesOf
      <4> QED
        BY <1>1, <4>1
    <3> QED
      BY <3>1, LastBeforeSame DEF HeaderOf, Headers
  <2>4. GroupRecord(is, cs, k) = [ins |-> r - 1, code |-> <<r - 1, r>>, ctrl |-> r]
    BY <1>6, <2>2 DEF GroupRecord
  <2>5. OwnRecord(r - 1) = [ins |-> r - 1, code |-> <<r - 1, r>>, ctrl |-> r]
    BY <1>3, <1>6, <2>2, <2>3 DEF OwnRecord
  <2>6. r - 1 \in InsLines
    BY <1>5, <2>2
  <2> QED
    BY <2>4, <2>5, <2>6 DEF IsOwn
<1>7. CASE FamilyOf[arch] = "Sm5x6x"
  <2>1. PICK g \in LineNos : Group5x6x(g, r, Ready, is, cs)
    BY <1>7 DEF InOneGroup, r
  <2>2. Held(g, r, is, cs) /\ Len(is) \in 0..3 /\ Len(cs) = Len(is) + 1
    BY <2>1, StatesDiffer DEF Group5x6x
  <2>3. g \in Nat /\ is[k] \in g + 1 .. r /\ cs[1] = g /\ cs[k + 1] = OwnLine(is[k])
    <3>1. k \in 1..(Len(cs) - 1)
      BY <2>2
    <3> QED
      BY <1>1, <2>2, <3>1 DEF Held
  <2>4. \A m \in g + 1 .. r : m \notin Headers /\ m \notin ControlWords
    BY <2>2 DEF Held, InGroup, Headers, ControlWords, LinesOf, InsTypes
  <2>5. HeaderOf(is[k]) = HeaderOf(r)
    <3>1. Headers \subseteq Nat
      BY <1>1, HeaderOfIs
    <3>2. ASSUME NEW j \in Headers PROVE j < is[k] <=> j < r
      <4>1. j \in Nat /\ ~(g + 1 <= j /\ j <= r)
        BY <2>3, <2>4, <3>1
      <4>2. g + 1 <= is[k] /\ is[k] <= r /\ g \in Nat
        BY <2>3
      <4>3. \A a, b, c, d \in Nat : a + 1 <= b /\ b <= c /\ ~(a + 1 <= d /\ d <= c) => (d < b <=> d < c)
        OBVIOUS
      <4> QED
        BY <1>1, <1>5, <4>1, <4>2, <4>3, Zenon
    <3> QED
      BY <3>2, LastBeforeSame DEF HeaderOf, Headers
  <2>6. LastBefore(is[k], ControlWords) = g
    <3>1. ControlWords \in SUBSET Nat /\ g \in ControlWords
      BY <1>1, <2>2, LenProperties DEF ControlWords, LinesOf, LineNos, Held
    <3>2. ASSUME NEW j \in ControlWords, j < is[k] PROVE j <= g
      <4>1. j \in Nat /\ ~(g + 1 <= j /\ j <= r)
        BY <2>3, <2>4, <3>1
      <4>2. is[k] <= r /\ g \in Nat
        BY <2>3
      <4>3. \A a, b, c, d \in Nat : b <= c /\ d < b /\ ~(a + 1 <= d /\ d <= c) => d <= a
        OBVIOUS
      <4> QED
        BY <1>1, <1>5, <3>2, <4>1, <4>2, <4>3, Zenon
    <3>3. g < is[k]
      BY <1>5, <2>3
    <3> QED
      BY <1>5, <3>1, <3>2, <3>3, LastBeforeUnique
  <2>7. FamilyOf[text[HeaderOf(is[k])].arch] # "Sm7x8x"
    BY <1>3, <1>7, <2>5
  <2>8. GroupRecord(is, cs, k) = [ins |-> is[k], code |-> <<OwnLine(is[k])>>, ctrl |-> g]
    BY <1>7, <2>3 DEF GroupRecord
  <2>9. OwnRecord(is[k]) = [ins |-> is[k], code |-> <<OwnLine(is[k])>>, ctrl |-> g]
    BY <2>6, <2>7 DEF OwnRecord
  <2> QED
    BY <1>5, <2>8, <2>9 DEF IsOwn
<1> QED
  BY <1>6, <1>7 DEF InOneGroup

LEMMA OwnInvInit == Init => OwnInv
<1>1. \A k \in 1..Len(<<>>) : FALSE
  OBVIOUS
<1> QED
  BY <1>1 DEF Init, OwnInv

\* Reading on keeps the architecture right.
LEMMA ArchRightOn ==
  ASSUME TypeOK, ArchRight, text' = text, arch' = arch, read' \in Nat, read' >= read,
         \A j \in Headers : read < j /\ j <= read' => \E f \in FuncLines : j < f /\ f <= read'
  PROVE  ArchRight'
<1>1. read \in Nat /\ Headers \in SUBSET Nat /\ FuncLines \in SUBSET Nat
  BY TextIs, HeaderOfIs
<1>2. PICK h \in Headers :
        /\ h <= read /\ arch = text[h].arch
        /\ \A j \in Headers : h < j /\ j <= read => \E f \in FuncLines : j < f /\ f <= read
  BY DEF ArchRight
<1>3. h <= read' /\ arch' = text'[h].arch
  BY <1>1, <1>2
<1>4. ASSUME NEW j \in Headers, h < j, j <= read'
      PROVE  \E f \in FuncLines : j < f /\ f <= read'
  <2>1. CASE j <= read
    <3>1. PICK f \in FuncLines : j < f /\ f <= read
      BY <1>2, <1>4, <2>1
    <3>2. f <= read'
      BY <1>1, <3>1
    <3> QED
      BY <3>1, <3>2
  <2>2. CASE read < j
    BY <1>4, <2>2
  <2> QED
    BY <1>1, <2>1, <2>2
<1> QED
  BY <1>3, <1>4, SameText DEF ArchRight

\* A header that is fed sets it.
LEMMA ArchRightAt ==
  ASSUME TypeOK, read < Len(text), Line.type = "HeaderFlag", text' = text, arch' = Line.arch, read' = read + 1
  PROVE  ArchRight'
<1>1. read \in Nat /\ read + 1 \in Headers /\ Line = text[read + 1] /\ Headers \in SUBSET Nat
  BY LineIs, TextIs, HeaderOfIs DEF Headers, LinesOf, LineNos
<1>2. \A j \in Headers : ~(read + 1 < j /\ j <= read + 1)
  BY <1>1
<1>3. read + 1 <= read' /\ arch' = text'[read + 1].arch
  BY <1>1
<1>4. \A j \in Headers : ~(read + 1 < j /\ j <= read')
  BY <1>2
<1> QED
  BY <1>1, <1>3, <1>4, SameText DEF ArchRight

\* Feeding one line.
LEMMA ArchRightFed ==
  ASSUME TypeOK, read < Len(text), text' = text, read' = read + 1,
         arch' = (IF Line.type = "HeaderFlag" THEN Line.arch ELSE arch),
         Line.type = "HeaderFlag" \/ ArchRight
  PROVE  ArchRight'
<1>1. CASE Line.type = "HeaderFlag"
  BY <1>1, ArchRightAt
<1>2. CASE Line.type # "HeaderFlag"
  <2>1. read \in Nat /\ Line = text[read + 1] /\ Headers \in SUBSET Nat
    BY LineIs, TextIs, HeaderOfIs
  <2>2. read + 1 \notin Headers
    BY <1>2, <2>1 DEF Headers, LinesOf
  <2>3. \A j \in Headers : ~(read < j /\ j <= read')
    <3> SUFFICES ASSUME NEW j \in Headers, read < j, j <= read' PROVE FALSE
      OBVIOUS
    <3>1. j = read + 1
      BY <2>1
    <3> QED
      BY <2>2, <3>1
  <2>4. read' \in Nat /\ read' >= read
    BY <2>1
  <2> QED
    BY <1>2, <2>3, <2>4, ArchRightOn
<1> QED
  BY <1>1, <1>2

\* The line after the last one read belongs to a group only if the header is known.
LEMMA FedGroupIsOwn ==
  ASSUME FeederInv, OwnInv, read < Len(text), doFeed \/ call = "trans", Ready \in NextStates(Line)
  PROVE  LET recs == Records(InsWith(Line), CodesWith(Line))
         IN  /\ Len(recs) = Len(InsWith(Line))
             /\ \A k \in 1..Len(recs) : IsOwn(recs[k]) /\ recs[k].ins = InsWith(Line)[k]
<1> DEFINE recs == Records(InsWith(Line), CodesWith(Line))
<1>1. InsWith(Line) \in Seq(LineNos) /\ CodesWith(Line) \in Seq(LineNos) /\ recs \in Seq(Recs)
  BY FedLine, FedRecords
<1>2. CASE InsWith(Line) = <<>> /\ CodesWith(Line) = <<>>
  <2>1. recs = <<>>
    BY <1>2, NoRecords
  <2> QED
    BY <1>2, <2>1
<1>3. CASE Line.type \in CodeTypes /\ InOneGroup(read + 1, Ready, InsWith(Line), CodesWith(Line))
  <2>1. Introduced(text, read + 1) /\ read \in Nat /\ text \in Seq(Lines) /\ read + 1 \in LineNos
    BY <1>3, LineIs, TextIs DEF FeederInv
  <2>2. HeaderRead
    <3>1. PICK h \in 1..((read + 1) - 1) : text[h].type = "HeaderFlag"
      BY <2>1 DEF Introduced
    <3>2. h \in 1..Len(text) /\ h <= read
      BY <2>1 DEF LineNos
    <3> QED
      BY <3>1, <3>2 DEF HeaderRead, Headers, LinesOf
  <2>3. ArchRight
    BY <2>1, <2>2 DEF OwnInv, LineNos
  <2>4. \A k \in 1..Len(recs) : IsOwn(recs[k])
    BY <1>1, <1>3, <2>1, <2>3, GroupIsOwn DEF FeederInv
  <2>5. Len(recs) = Len(InsWith(Line)) /\ \A k \in 1..Len(recs) : recs[k] = GroupRecord(InsWith(Line), CodesWith(Line), k)
    BY <1>1, <1>3, <2>1, RecordsWhole
  <2>6. \A k \in 1..Len(recs) : recs[k].ins = InsWith(Line)[k]
    <3> HIDE DEF recs
    <3> QED
      BY <2>5, GroupRecordIns
  <2> QED
    BY <2>4, <2>5, <2>6
<1> QED
  BY <1>2, <1>3, FedLine

LEMMA OwnRewind ==
  ASSUME FeederInv, NEW by, Rewind(by), call' = "trans" => buf' = <<>>
  PROVE  OwnInv'
<1>1. text' = text /\ pending' = <<>> /\ out' = <<>> /\ doFeed' = FALSE /\ read' = 0 /\ ins' = ins /\ pstate' = pstate
  BY DEF Rewind, input
<1>2. ~HeaderRead'
  <2>1. \A h \in Headers : ~(h <= 0)
    BY TextIs DEF Headers, LinesOf, FeederInv
  <2> QED
    BY <1>1, <2>1, SameText DEF HeaderRead
<1>3. \A k \in 1..Len(<<>>) : FALSE
  OBVIOUS
<1>4. pstate = Ready => ins = <<>>
  BY DEF FeederInv, GroupInv
<1>5. call' = "trans" /\ (pstate' = Ready \/ read' > 0) => ins' = Kept(buf', InsLines')
  BY <1>1, <1>4, KeptEmpty
<1> QED
  BY <1>1, <1>2, <1>3, <1>5 DEF OwnInv

\* Steps that neither read nor make records.
LEMMA OwnFrame ==
  ASSUME OwnInv, UNCHANGED <<text, read, arch, pending, out, doFeed>>,
         call' # "trans" \/ UNCHANGED <<call, ins, buf, pstate>>
  PROVE  OwnInv'
<1>1. HeaderRead' <=> HeaderRead
  BY SameText DEF HeaderRead
<1>2. ArchRight' <=> ArchRight
  BY SameText DEF ArchRight
<1>3. InsLines' = InsLines /\ \A r : IsOwn(r)' <=> IsOwn(r)
  BY SameText
<1>4. (\A k \in 1..Len(pending) : IsOwn(pending[k]))' /\ (\A k \in 1..Len(out) : IsOwn(out[k].rec))'
  BY <1>3 DEF OwnInv
<1>5. (doFeed \/ (call = "trans" /\ HeaderRead) => read = Len(text) \/ ArchRight)'
  BY <1>1, <1>2 DEF OwnInv
<1>6. (call = "trans" /\ (pstate = Ready \/ read > 0) => ins = Kept(buf, InsLines))'
  BY <1>3 DEF OwnInv
<1> QED
  BY <1>4, <1>5, <1>6 DEF OwnInv

LEMMA OwnDeliver == ASSUME FeederInv, OwnInv, Deliver PROVE OwnInv'
<1>1. UNCHANGED <<text, read, doFeed, arch>> /\ pending # <<>> /\ call' = "none" /\ pending' = Tail(pending)
        /\ out' = Append(out, [rec |-> Head(pending), func |-> func])
  BY DEF Deliver, input
<1>2. pending \in Seq(Recs) /\ out \in Seq(Outs) /\ func \in Nat
  BY DEF FeederInv, TypeOK
<1>3. HeaderRead' <=> HeaderRead
  BY <1>1, SameText DEF HeaderRead
<1>4. ArchRight' <=> ArchRight
  BY <1>1, SameText DEF ArchRight
<1>5. \A r : IsOwn(r)' <=> IsOwn(r)
  BY <1>1, SameText
<1>6. Head(pending) = pending[1] /\ Len(pending) \in Nat /\ Len(pending) > 0 /\ Head(pending) \in Recs
        /\ Tail(pending) \in Seq(Recs) /\ Len(Tail(pending)) = Len(pending) - 1
        /\ \A k \in 1..Len(Tail(pending)) : Tail(pending)[k] = pending[k + 1]
  BY <1>1, <1>2, HeadTailProperties, EmptySeq, LenProperties
<1>7. [rec |-> Head(pending), func |-> func] \in Outs
  BY <1>2, <1>6 DEF Outs
<1>8. Len(out) \in Nat /\ Len(out') = Len(out) + 1 /\ out'[Len(out) + 1].rec = pending[1]
        /\ \A k \in 1..Len(out) : out'[k] = out[k]
  BY <1>1, <1>2, <1>6, <1>7, AppendProperties, LenProperties
<1>9. \A k \in 1..Len(out') : IsOwn(out'[k].rec)
  <2>1. IsOwn(pending[1])
    <3>1. 1 \in 1..Len(pending)
      BY <1>6
    <3> QED
      BY <3>1 DEF OwnInv
  <2>2. \A k \in 1..Len(out') : k = Len(out) + 1 \/ k \in 1..Len(out)
    BY <1>8
  <2> QED
    BY <1>8, <2>1, <2>2 DEF OwnInv
<1>a. \A k \in 1..Len(pending') : IsOwn(pending'[k])
  <2>1. \A k \in 1..Len(pending') : k + 1 \in 1..Len(pending)
    BY <1>1, <1>6
  <2> QED
    BY <1>1, <1>6, <2>1 DEF OwnInv
<1> QED
  BY <1>1, <1>3, <1>4, <1>5, <1>9, <1>a DEF OwnInv

LEMMA OwnReadSection == ASSUME FeederInv, OwnInv, ReadSection PROVE OwnInv'
<1>1. read < Len(text) /\ Line.type \in {"HeaderFlag", "FuncName"} /\ call = "next"
  BY DEF ReadSection, Reading
<1>2. CASE Throw(Line)
  BY <1>1, <1>2, OwnFrame DEF Throw, input, history
<1>3. CASE ~Throw(Line)
  <2>1. PICK to \in NextStates(Line) :
          /\ Feed(Line, to)
          /\ read' = read + 1
          /\ doFeed' = IF Line.type = "HeaderFlag" THEN archFilter \in {NoArch, Line.arch} ELSE doFeed
          /\ UNCHANGED <<input, started, pending, buf, call, thrown, history>>
    BY <1>3 DEF ReadSection
  <2>2. UNCHANGED <<text, pending, call, out>>
    BY <2>1 DEF input, history
  <2>3. arch' = IF Line.type = "HeaderFlag" THEN Line.arch ELSE arch
    BY <2>1 DEF Feed
  <2>4. doFeed' => ArchRight'
    <3>1. doFeed' => Line.type = "HeaderFlag" \/ ArchRight
      <4>1. doFeed => ArchRight
        BY <1>1, TextIs DEF OwnInv, FeederInv
      <4> QED
        BY <2>1, <4>1
    <3> QED
      BY <1>1, <2>1, <2>2, <2>3, <3>1, ArchRightFed DEF FeederInv
  <2>5. \A r : IsOwn(r)' <=> IsOwn(r)
    BY <2>2, SameText
  <2> QED
    BY <1>1, <2>2, <2>4, <2>5 DEF OwnInv
<1> QED
  BY <1>2, <1>3

LEMMA OwnReadIns == ASSUME FeederInv, OwnInv, ReadIns PROVE OwnInv'
<1>1. read < Len(text) /\ doFeed /\ call = "next" /\ pending = <<>>
  BY DEF ReadIns, Reading
<1>2. CASE Throw(Line)
  BY <1>1, <1>2, OwnFrame DEF Throw, input, history
<1>3. CASE ~Throw(Line)
  <2> DEFINE recs == Records(InsWith(Line), CodesWith(Line))
  <2>1. PICK to \in NextStates(Line) :
          /\ Feed(Line, to)
          /\ pending' = IF to = Ready THEN Filtered(recs) ELSE pending
          /\ read' = read + 1
          /\ UNCHANGED <<input, started, doFeed, buf, call, thrown, history>>
    BY <1>3 DEF ReadIns
  <2>2. UNCHANGED <<text, call, out>>
    BY <2>1 DEF input, history
  <2>3. arch' = IF Line.type = "HeaderFlag" THEN Line.arch ELSE arch
    BY <2>1 DEF Feed
  <2>4. ArchRight'
    <3>1. ArchRight
      BY <1>1, TextIs DEF OwnInv, FeederInv
    <3> QED
      BY <1>1, <2>1, <2>2, <2>3, <3>1, ArchRightFed DEF FeederInv
  <2>5. \A r : IsOwn(r)' <=> IsOwn(r)
    BY <2>2, SameText
  <2>6. \A k \in 1..Len(pending') : IsOwn(pending'[k])
    <3>1. CASE to = Ready
      <4>1. recs \in Seq(Recs) /\ \A k \in 1..Len(recs) : IsOwn(recs[k])
        BY <1>1, <3>1, FedRecords, FedGroupIsOwn
      <4> DEFINE Q == {r \in ToSet(recs) : text[r.ins].sel}
      <4>2. pending' = Kept(recs, Q) /\ Kept(recs, Q) \in Seq(Recs \cap Q)
        BY <2>1, <3>1, <4>1, KeptElements DEF Filtered
      <4>3. \A k \in 1..Len(pending') : pending'[k] \in ToSet(recs)
        BY <4>2, ElementOfSeq
      <4>4. \A r \in ToSet(recs) : IsOwn(r)
        BY <4>1 DEF ToSet
      <4> QED
        BY <4>3, <4>4
    <3>2. CASE to # Ready
      BY <1>1, <2>1, <3>2
    <3> QED
      BY <3>1, <3>2
  <2> QED
    BY <1>1, <2>2, <2>4, <2>5, <2>6 DEF OwnInv
<1> QED
  BY <1>2, <1>3

\* The lines kept by trans() name the instructions that it fed.
LEMMA FedNamed ==
  ASSUME FeederInv, OwnInv, call = "trans", read < Len(text), NEW to \in NextStates(Line)
  PROVE  InsWith(Line) = Kept(Append(buf, read + 1), InsLines)
<1>1. read + 1 \in LineNos /\ buf \in Seq(LineNos) /\ Line = text[read + 1]
  BY LineIs DEF FeederInv, TypeOK
<1>2. Kept(Append(buf, read + 1), InsLines)
        = IF read + 1 \in InsLines THEN Append(Kept(buf, InsLines), read + 1) ELSE Kept(buf, InsLines)
  BY <1>1, KeptAppend, Zenon
<1>3. read + 1 \in InsLines <=> Line.type \in InsTypes
  BY <1>1 DEF InsLines, LineNos
<1>4. pstate = Ready \/ read > 0
  <2>1. pstate = Ready \/ Feeding
    BY FedLine
  <2>2. ~doFeed
    BY DEF FeederInv, GroupInv
  <2> QED
    BY <2>1, <2>2 DEF Feeding
<1>5. ins = Kept(buf, InsLines)
  BY <1>4 DEF OwnInv
<1> QED
  BY <1>2, <1>3, <1>5 DEF InsWith

LEMMA AnnotatedIs ==
  ASSUME NEW lines, NEW recs \in Seq(Recs), Len(Kept(lines, InsLines)) = Len(recs),
         \A k \in 1..Len(recs) : recs[k].ins = Kept(lines, InsLines)[k]
  PROVE  Annotated(lines, recs) = [k \in 1..Len(recs) |-> [rec |-> recs[k], func |-> func]]
<1> DEFINE named == Kept(lines, InsLines)
<1> HIDE DEF named
<1>1. Len(named) = Len(recs) /\ Len(recs) \in Nat
  BY LenProperties DEF named
<1>2. ASSUME NEW k \in 1..Len(recs) PROVE k <= Len(recs) /\ [recs[k] EXCEPT !.ins = named[k]] = recs[k]
  <2>1. recs[k] \in Recs /\ recs[k].ins = named[k]
    BY ElementOfSeq DEF named
  <2>2. \A r \in Recs : [r EXCEPT !.ins = r.ins] = r
    BY DEF Recs
  <2>3. [recs[k] EXCEPT !.ins = named[k]] = recs[k]
    BY <2>1, <2>2
  <2> QED
    BY <1>1, <2>3
<1>3. Annotated(lines, recs) =
        [k \in 1..Len(named) |->
         [rec |-> IF k <= Len(recs) THEN [recs[k] EXCEPT !.ins = named[k]]
                                    ELSE [ins |-> named[k], code |-> <<>>, ctrl |-> 0],
          func |-> func]]
  BY DEF Annotated, named
<1> QED
  BY <1>1, <1>2, <1>3

\* A whole group is annotated with its own records.
LEMMA TransRecords ==
  ASSUME FeederInv, OwnInv, call = "trans", read < Len(text), Ready \in NextStates(Line)
  PROVE  LET recs == Records(InsWith(Line), CodesWith(Line))
             outs == Annotated(Append(buf, read + 1), recs)
         IN  /\ outs \in Seq(Outs) /\ Len(outs) = Len(InsWith(Line))
             /\ \A k \in 1..Len(outs) : /\ outs[k].rec.ins = InsWith(Line)[k] /\ IsOwn(outs[k].rec)
                                        /\ outs[k].func = func
<1> DEFINE recs == Records(InsWith(Line), CodesWith(Line))
           lines == Append(buf, read + 1)
           outs == Annotated(lines, recs)
<1>1. recs \in Seq(Recs) /\ Len(recs) = Len(InsWith(Line))
        /\ \A k \in 1..Len(recs) : IsOwn(recs[k]) /\ recs[k].ins = InsWith(Line)[k]
  BY FedRecords, FedGroupIsOwn
<1>2. InsWith(Line) = Kept(lines, InsLines) /\ lines \in Seq(LineNos)
  <2>1. read + 1 \in LineNos /\ buf \in Seq(LineNos)
    BY LineIs DEF FeederInv, TypeOK
  <2> QED
    BY <2>1, FedNamed, AppendProperties
<1> HIDE DEF recs, lines
<1>3. outs = [k \in 1..Len(recs) |-> [rec |-> recs[k], func |-> func]]
  BY <1>1, <1>2, AnnotatedIs
<1>4. outs \in Seq(Outs)
  BY <1>1, <1>2, AnnotatedType DEF FeederInv
<1> HIDE DEF outs
<1>5. Len(outs) = Len(recs)
  BY <1>1, <1>3, LenProperties
<1>6. \A k \in 1..Len(outs) : outs[k].rec = recs[k] /\ outs[k].func = func
  BY <1>3, <1>5
<1>7. \A k \in 1..Len(outs) : outs[k].rec.ins = InsWith(Line)[k] /\ IsOwn(outs[k].rec)
  BY <1>1, <1>5, <1>6
<1> QED
  BY <1>1, <1>4, <1>5, <1>6, <1>7 DEF outs, lines, recs

LEMMA OwnReadTrans == ASSUME FeederInv, OwnInv, ReadTrans PROVE OwnInv'
<1>1. read < Len(text) /\ call = "trans"
  BY DEF ReadTrans, Reading
<1>2. CASE Throw(Line)
  BY <1>1, <1>2, OwnFrame DEF Throw, input, history
<1>3. CASE ~Throw(Line)
  <2> DEFINE outs == Annotated(Append(buf, read + 1), Records(InsWith(Line), CodesWith(Line)))
  <2>1. PICK to \in NextStates(Line) :
          /\ Feed(Line, to)
          /\ Lists(Line, to = Ready)
          /\ read' = read + 1
          /\ IF to = Ready
             THEN /\ out' = out \o outs
                  /\ buf' = <<>>
             ELSE /\ buf' = Append(buf, read + 1)
                  /\ UNCHANGED out
          /\ UNCHANGED <<input, started, doFeed, pending, call, thrown, pass, passed, stale, asked>>
    BY <1>3 DEF ReadTrans
  <2>2. UNCHANGED <<text, call, doFeed, pending>>
    BY <2>1 DEF input
  <2>3. arch' = IF Line.type = "HeaderFlag" THEN Line.arch ELSE arch
    BY <2>1 DEF Feed
  <2>4. \A r : IsOwn(r)' <=> IsOwn(r)
    BY <2>2, SameText
  <2>5. doFeed = FALSE /\ pending = <<>>
    BY <1>1 DEF FeederInv, GroupInv, TypeOK
  <2>6. HeaderRead' => ArchRight'
    <3>1. HeaderRead' => Line.type = "HeaderFlag" \/ HeaderRead
      <4>1. \A h \in Headers : h <= read + 1 => h <= read \/ Line.type = "HeaderFlag"
        <5>1. read \in Nat /\ Line = text[read + 1] /\ Headers \in SUBSET Nat
          BY <1>1, LineIs, TextIs, HeaderOfIs DEF FeederInv
        <5>2. read + 1 \in Headers => Line.type = "HeaderFlag"
          BY <5>1 DEF Headers, LinesOf
        <5> QED
          BY <5>1, <5>2
      <4> QED
        BY <2>1, <2>2, <4>1, SameText DEF HeaderRead
    <3>2. HeaderRead => ArchRight
      BY <1>1, TextIs DEF OwnInv, FeederInv
    <3> QED
      BY <1>1, <2>1, <2>2, <2>3, <3>1, <3>2, ArchRightFed DEF FeederInv
  <2>7. \A k \in 1..Len(out') : IsOwn(out'[k].rec)
    <3>1. CASE to = Ready
      <4>1. outs \in Seq(Outs) /\ \A k \in 1..Len(outs) : IsOwn(outs[k].rec)
        BY <1>1, <3>1, TransRecords
      <4>2. out \in Seq(Outs) /\ \A k \in 1..Len(out) : IsOwn(out[k].rec)
        BY DEF FeederInv, TypeOK, OwnInv
      <4> HIDE DEF outs
      <4>3. out' = out \o outs
        BY <2>1, <3>1
      <4>4. Len(out) \in Nat /\ Len(outs) \in Nat /\ Len(out') = Len(out) + Len(outs)
              /\ \A k \in 1..Len(out') : out'[k] = IF k <= Len(out) THEN out[k] ELSE outs[k - Len(out)]
        <5>0. out \in Seq(Outs) /\ outs \in Seq(Outs)
          BY <4>1, <4>2
        <5>1. Len(out) \in Nat /\ Len(outs) \in Nat /\ Len(out \o outs) = Len(out) + Len(outs)
                /\ \A k \in 1..Len(out \o outs) : (out \o outs)[k] = IF k <= Len(out) THEN out[k] ELSE outs[k - Len(out)]
          BY <5>0, ConcatIs, Zenon
        <5> QED
          BY <4>3, <5>1, Zenon
      <4>5. ASSUME NEW k \in 1..Len(out') PROVE IsOwn(out'[k].rec)
        <5>1. k <= Len(out) => k \in 1..Len(out)
          BY <4>4
        <5>2. ~(k <= Len(out)) => k - Len(out) \in 1..Len(outs)
          BY <4>4
        <5> QED
          BY <4>1, <4>2, <4>4, <5>1, <5>2
      <4> QED
        BY <4>5
    <3>2. CASE to # Ready
      BY <2>1, <3>2 DEF OwnInv
    <3> QED
      BY <3>1, <3>2
  <2>8. ins' = Kept(buf', InsLines')
    <3>1. CASE to = Ready
      BY <2>1, <3>1, KeptEmpty DEF Lists
    <3>2. CASE to # Ready
      <4>1. ins' = InsWith(Line) /\ buf' = Append(buf, read + 1) /\ InsLines' = InsLines
        BY <2>1, <2>2, <3>2, SameText DEF Lists
      <4> QED
        BY <1>1, <4>1, FedNamed
    <3> QED
      BY <3>1, <3>2
  <2>9. \A k \in 1..Len(pending') : IsOwn(pending'[k])
    BY <2>2, <2>5
  <2> QED
    BY <2>2, <2>4, <2>5, <2>6, <2>7, <2>8, <2>9 DEF OwnInv
<1> QED
  BY <1>2, <1>3

LEMMA OwnExtract == ASSUME FeederInv, OwnInv, Extract PROVE OwnInv'
<1>1. UNCHANGED <<text, doFeed, arch, pending, out, call>> /\ call = "none"
  BY DEF Extract, Idle, input
<1>2. \A r : IsOwn(r)' <=> IsOwn(r)
  BY <1>1, SameText
<1>3. ASSUME doFeed PROVE read' = Len(text) \/ ArchRight'
  <2>1. read \in Nat /\ Len(text) \in Nat
    BY TextIs DEF FeederInv
  <2>2. SUFFICES ASSUME read' # Len(text) PROVE ArchRight'
    OBVIOUS
  <2>3. read' \in read + 2 .. Len(text) /\ text[read'].type = "FuncName"
    BY <2>2 DEF Extract
  <2>4. ArchRight
    <3>1. read # Len(text)
      BY <2>1, <2>3
    <3> QED
      BY <1>3, <3>1 DEF OwnInv
  <2>5. read' \in Nat /\ read' >= read /\ read' \in FuncLines /\ read' \notin Headers
    BY <2>1, <2>3 DEF FuncLines, Headers, LinesOf
  <2>6. \A j \in Headers : read < j /\ j <= read' => j < read' /\ read' <= read'
    BY <2>5, HeaderOfIs, TextIs DEF FeederInv
  <2>7. \A j \in Headers : read < j /\ j <= read' => \E f \in FuncLines : j < f /\ f <= read'
    BY <2>5, <2>6
  <2> QED
    BY <1>1, <2>4, <2>5, <2>7, ArchRightOn DEF FeederInv
<1> QED
  BY <1>1, <1>2, <1>3 DEF OwnInv

LEMMA OwnInvStep == FeederInv /\ OwnInv /\ [Next]_vars => OwnInv'
<1> SUFFICES ASSUME FeederInv, OwnInv, [Next]_vars PROVE OwnInv'
  OBVIOUS
<1>1. CASE UNCHANGED vars
  BY <1>1, OwnFrame DEF vars, object, input, history
<1>2. CASE Restart \/ CallTrans
  <2>1. PICK by : Rewind(by)
    BY <1>2 DEF Restart, CallTrans
  <2>2. call' = "trans" => buf' = <<>>
    BY <1>2 DEF Restart, CallTrans, Idle
  <2> QED
    BY <2>1, <2>2, OwnRewind
<1>3. CASE CallNext
  <2>1. call' = "next"
    BY <1>3 DEF CallNext
  <2>2. CASE started
    BY <1>3, <2>1, <2>2, OwnFrame DEF CallNext, input
  <2>3. CASE ~started
    BY <1>3, <2>1, <2>3, OwnRewind DEF CallNext
  <2> QED
    BY <2>2, <2>3
<1>4. CASE Skip
  <2>1. UNCHANGED <<text, doFeed, pending, out, call>> /\ call = "next" /\ ~doFeed
    BY <1>4 DEF Skip, input, history
  <2>2. \A r : IsOwn(r)' <=> IsOwn(r)
    BY <2>1, SameText
  <2> QED
    BY <2>1, <2>2 DEF OwnInv
<1>5. CASE EndNext \/ EndTrans
  BY <1>5, OwnFrame DEF EndNext, EndTrans, input
<1> QED
  BY <1>1, <1>2, <1>3, <1>4, <1>5, OwnDeliver, OwnReadSection, OwnReadIns, OwnReadTrans, OwnExtract DEF Next

\* Every record that next() hands out or trans() writes is made of the
\* instruction's own code lines and its own control word, on every listing,
\* whatever was called before.
THEOREM FeederRecordsAreOwn == Spec => []RecordsAreOwn
<1>1. Init => FeederInv /\ OwnInv
  BY FeederInvInit, OwnInvInit
<1>2. FeederInv /\ OwnInv /\ [Next]_vars => (FeederInv /\ OwnInv)'
  BY FeederInvStep, OwnInvStep
<1>3. FeederInv /\ OwnInv => RecordsAreOwn
  BY DEF OwnInv, IsOwn, RecordsAreOwn
<1> QED
  BY <1>1, <1>2, <1>3, PTL DEF Spec

-----------------------------------------------------------------------------
\* The name of the function.

\* No function has begun since line n.
SameFunc(n, r) == n <= r /\ \A m \in n..r : text[m].type # "FuncName"

GroupLines(n, r) == n <= r /\ \A m \in n..r : text[m].type \in CodeTypes

FuncIsLast == (\E f \in FuncLines : f <= read) => func = LastBefore(read + 1, FuncLines)

FuncInv ==
  pass # "moved" =>
    /\ FuncIsLast
    /\ \A k \in 1..Len(pending) : SameFunc(pending[k].ins, read)
    /\ \A k \in 1..Len(out) : out[k].func = LastBefore(out[k].rec.ins, FuncLines)

\* An instruction that no function has begun after belongs to the last one.
LEMMA LastFunc ==
  ASSUME TypeOK, FuncIsLast, NEW n \in InsLines, n <= read + 1, \A m \in n..read : text[m].type # "FuncName"
  PROVE  func = LastBefore(n, FuncLines)
<1>1. n \in LineNos /\ n \in Nat /\ read \in Nat /\ Len(text) \in Nat /\ Introduced(text, n) /\ FuncLines \in SUBSET Nat
  BY TextIs, HeaderOfIs DEF InsLines, LineNos, CodeTypes
<1>2. PICK f \in 1..(n - 1) : text[f].type = "FuncName"
  BY <1>1 DEF Introduced
<1>3. f \in FuncLines /\ f <= read
  BY <1>1, <1>2 DEF FuncLines, LinesOf, LineNos
<1>4. func = LastBefore(read + 1, FuncLines)
  BY <1>3 DEF FuncIsLast
<1>5. \A j \in FuncLines : j < read + 1 <=> j < n
  <2> SUFFICES ASSUME NEW j \in FuncLines PROVE j < read + 1 <=> j < n
    OBVIOUS
  <2>1. text[j].type = "FuncName" /\ j \in Nat
    BY <1>1 DEF FuncLines, LinesOf
  <2>2. ~(n <= j /\ j <= read)
    BY <1>1, <2>1
  <2> QED
    BY <1>1, <2>1, <2>2
<1> QED
  BY <1>4, <1>5, LastBeforeSame

LEMMA FuncOn ==
  ASSUME TypeOK, FuncIsLast, read < Len(text), read' = read + 1, text' = text,
         func' = IF Line.type = "FuncName" THEN read + 1 ELSE func
  PROVE  FuncIsLast'
<1>1. read \in Nat /\ Line = text[read + 1] /\ FuncLines \in SUBSET Nat /\ read + 1 \in 1..Len(text)
  BY LineIs, TextIs, HeaderOfIs DEF LineNos
<1>2. FuncLines' = FuncLines /\ read' + 1 = (read + 1) + 1
  BY SameText
<1>3. CASE Line.type = "FuncName"
  <2>1. read + 1 \in FuncLines
    BY <1>1, <1>3 DEF FuncLines, LinesOf
  <2>0. read + 1 < (read + 1) + 1 /\ (read + 1) + 1 \in Nat /\ \A k \in Nat : k < (read + 1) + 1 => k <= read + 1
    BY <1>1
  <2>2. read + 1 < (read + 1) + 1 /\ (read + 1) + 1 \in Nat /\ \A k \in FuncLines : k < (read + 1) + 1 => k <= read + 1
    BY <1>1, <2>0, Zenon
  <2>3. LastBefore((read + 1) + 1, FuncLines) = read + 1
    BY <1>1, <2>1, <2>2, LastBeforeUnique
  <2>4. LastBefore(read' + 1, FuncLines') = read + 1
    BY <1>2, <2>3
  <2>5. func' = read + 1
    BY <1>3
  <2>6. func' = LastBefore(read' + 1, FuncLines')
    BY <2>4, <2>5
  <2> QED
    BY <2>6 DEF FuncIsLast, LastBefore
<1>4. CASE Line.type # "FuncName"
  <2>1. read + 1 \notin FuncLines
    BY <1>1, <1>4 DEF FuncLines, LinesOf
  <2>2. \A k \in FuncLines : (k < (read + 1) + 1 <=> k < read + 1) /\ (k <= read + 1 => k <= read)
    <3> SUFFICES ASSUME NEW k \in FuncLines PROVE (k < (read + 1) + 1 <=> k < read + 1) /\ (k <= read + 1 => k <= read)
      OBVIOUS
    <3>1. k \in Nat /\ k # read + 1
      BY <1>1, <2>1
    <3> QED
      BY <1>1, <3>1
  <2>3. LastBefore((read + 1) + 1, FuncLines) = LastBefore(read + 1, FuncLines)
    BY <2>2, LastBeforeSame
  <2>4. (\E f \in FuncLines : f <= read + 1) => func = LastBefore(read' + 1, FuncLines')
    BY <1>2, <2>2, <2>3 DEF FuncIsLast
  <2>5. func' = func
    BY <1>4
  <2> QED
    BY <1>2, <2>4, <2>5 DEF FuncIsLast, LastBefore
<1> QED
  BY <1>3, <1>4

\* From the instruction to the end of its group, all lines are the group's.
LEMMA FedGroupLines ==
  ASSUME FeederInv, read < Len(text), doFeed \/ call = "trans", Ready \in NextStates(Line)
  PROVE  \A k \in 1..Len(InsWith(Line)) : InsWith(Line)[k] \in InsLines /\ GroupLines(InsWith(Line)[k], read + 1)
<1> DEFINE is == InsWith(Line)
           cs == CodesWith(Line)
           r == read + 1
<1>1. is \in Seq(LineNos) /\ cs \in Seq(LineNos) /\ text \in Seq(Lines) /\ r \in LineNos /\ LineNos \subseteq Nat
        /\ read \in Nat /\ r \in Nat
  BY FedLine, LineIs, TextIs DEF FeederInv
<1>2. CASE is = <<>>
  BY <1>2
<1>3. CASE InOneGroup(r, Ready, is, cs)
  <2> HIDE DEF is, cs, r
  <2>1. \A k \in 1..Len(is) : is[k] \in InsLines /\ is[k] <= r
    BY <1>1, <1>3, RecordsWhole
  <2> SUFFICES ASSUME NEW k \in 1..Len(is) PROVE GroupLines(is[k], r)
    BY <2>1 DEF is, r
  <2>2. CASE FamilyOf[arch] = "Sm7x8x"
    <3>1. r > 1 /\ text[r].type = "CodeOnly" /\ text[r - 1].type = "InsCode" /\ is = <<r - 1>>
      BY <1>3, <2>2, StatesDiffer DEF InOneGroup, Group7x8x
    <3>2. is[k] = r - 1
      BY <3>1
    <3>3. \A m \in (r - 1)..r : m = r \/ m = r - 1
      BY <1>1
    <3> QED
      BY <1>1, <2>1, <3>1, <3>2, <3>3 DEF GroupLines, CodeTypes, InsTypes
  <2>3. CASE FamilyOf[arch] = "Sm5x6x"
    <3>1. PICK g \in LineNos : Group5x6x(g, r, Ready, is, cs)
      BY <1>3, <2>3 DEF InOneGroup
    <3>2. is[k] \in g + 1 .. r /\ g \in Nat /\ \A m \in g + 1 .. r : InGroup(m)
      BY <1>1, <3>1 DEF Group5x6x, Held
    <3>3. \A m \in is[k]..r : m \in g + 1 .. r
      BY <3>2
    <3> QED
      BY <2>1, <3>2, <3>3 DEF GroupLines, InGroup, CodeTypes
  <2> QED
    BY <1>3, <2>2, <2>3 DEF InOneGroup
<1> QED
  BY <1>2, <1>3, FedLine

\* No function begins inside of a group.
LEMMA FedSameFunc ==
  ASSUME FeederInv, read < Len(text), doFeed \/ call = "trans", Ready \in NextStates(Line)
  PROVE  \A k \in 1..Len(InsWith(Line)) : InsWith(Line)[k] \in InsLines /\ SameFunc(InsWith(Line)[k], read + 1)
  BY FedGroupLines DEF GroupLines, SameFunc, CodeTypes, InsTypes

LEMMA FuncInvInit == Init => FuncInv
<1> SUFFICES ASSUME Init PROVE FuncInv
  OBVIOUS
<1>1. \A f \in FuncLines : ~(f <= 0)
  BY TextIs, FeederInvInit DEF FuncLines, LinesOf, FeederInv
<1>2. read = 0 /\ pending = <<>> /\ out = <<>> /\ \A k \in 1..Len(<<>>) : FALSE
  BY DEF Init
<1> QED
  BY <1>1, <1>2 DEF FuncInv, FuncIsLast

LEMMA SameFuncs ==
  ASSUME text' = text
  PROVE  /\ \A n, r : SameFunc(n, r)' <=> SameFunc(n, r)
         /\ \A n : LastBefore(n, FuncLines)' = LastBefore(n, FuncLines)
  BY SameText DEF SameFunc, LastBefore

LEMMA FuncFrame ==
  ASSUME FuncInv, UNCHANGED <<text, read, func, pending, out, pass>>
  PROVE  FuncInv'
<1>1. FuncIsLast' <=> FuncIsLast
  BY SameText DEF FuncIsLast, LastBefore
<1> QED
  BY <1>1, SameFuncs DEF FuncInv

LEMMA FuncRewind == ASSUME TypeOK, NEW by, Rewind(by) PROVE FuncInv'
<1>1. read' = 0 /\ pending' = <<>> /\ out' = <<>> /\ FuncLines' = FuncLines /\ \A k \in 1..Len(<<>>) : FALSE
  BY SameText DEF Rewind, input
<1>2. \A f \in FuncLines : ~(f <= 0)
  BY TextIs DEF FuncLines, LinesOf
<1> QED
  BY <1>1, <1>2 DEF FuncInv, FuncIsLast

LEMMA FuncDeliver == ASSUME FeederInv, OwnInv, FuncInv, Deliver PROVE FuncInv'
<1>1. UNCHANGED <<text, read, func, pass>> /\ pending # <<>> /\ pending' = Tail(pending)
        /\ out' = Append(out, [rec |-> Head(pending), func |-> func])
  BY DEF Deliver, input
<1>2. pending \in Seq(Recs) /\ out \in Seq(Outs) /\ func \in Nat
  BY DEF FeederInv, TypeOK
<1>3. FuncIsLast' <=> FuncIsLast
  BY <1>1, SameText DEF FuncIsLast, LastBefore
<1>6. Head(pending) = pending[1] /\ Len(pending) \in Nat /\ Len(pending) > 0 /\ Head(pending) \in Recs
        /\ Tail(pending) \in Seq(Recs) /\ Len(Tail(pending)) = Len(pending) - 1
        /\ \A k \in 1..Len(Tail(pending)) : Tail(pending)[k] = pending[k + 1]
  BY <1>1, <1>2, HeadTailProperties, EmptySeq, LenProperties
<1>7. [rec |-> Head(pending), func |-> func] \in Outs
  BY <1>2, <1>6 DEF Outs
<1>8. Len(out) \in Nat /\ Len(out') = Len(out) + 1
        /\ out'[Len(out) + 1].rec = pending[1] /\ out'[Len(out) + 1].func = func
        /\ \A k \in 1..Len(out) : out'[k] = out[k]
  BY <1>1, <1>2, <1>6, <1>7, AppendProperties, LenProperties
<1> SUFFICES ASSUME pass # "moved" PROVE FuncInv'
  BY <1>1 DEF FuncInv
<1>9. FuncIsLast /\ (\A k \in 1..Len(pending) : SameFunc(pending[k].ins, read))
        /\ \A k \in 1..Len(out) : out[k].func = LastBefore(out[k].rec.ins, FuncLines)
  BY DEF FuncInv
<1>a. func = LastBefore(pending[1].ins, FuncLines)
  <2>1. 1 \in 1..Len(pending)
    BY <1>6
  <2>2. pending[1].ins \in InsLines /\ SameFunc(pending[1].ins, read)
    BY <1>9, <2>1 DEF OwnInv, IsOwn
  <2>3. pending[1].ins <= read + 1
    BY <2>2, TextIs DEF SameFunc, InsLines, FeederInv
  <2> QED
    BY <1>9, <2>2, <2>3, LastFunc DEF SameFunc, FeederInv
<1>b. \A k \in 1..Len(out') : out'[k].func = LastBefore(out'[k].rec.ins, FuncLines)
  <2>1. \A k \in 1..Len(out') : k = Len(out) + 1 \/ k \in 1..Len(out)
    BY <1>8
  <2> QED
    BY <1>8, <1>9, <1>a, <2>1
<1>c. \A k \in 1..Len(pending') : SameFunc(pending'[k].ins, read)
  <2>1. \A k \in 1..Len(pending') : k + 1 \in 1..Len(pending)
    BY <1>1, <1>6
  <2> QED
    BY <1>1, <1>6, <1>9, <2>1
<1>d. \A k \in 1..Len(out') : out'[k].func = (LastBefore(out[k].rec.ins, FuncLines))'
  BY <1>1, <1>b, SameText DEF LastBefore
<1> QED
  BY <1>1, <1>3, <1>9, <1>c, <1>d, SameFuncs DEF FuncInv

LEMMA FuncReadSection == ASSUME FeederInv, FuncInv, ReadSection PROVE FuncInv'
<1>1. read < Len(text) /\ pending = <<>>
  BY DEF ReadSection, Reading
<1>2. CASE Throw(Line)
  BY <1>2, FuncFrame DEF Throw, input, history
<1>3. CASE ~Throw(Line)
  <2>1. PICK to \in NextStates(Line) : Feed(Line, to) /\ read' = read + 1 /\ UNCHANGED <<input, pending, history>>
    BY <1>3 DEF ReadSection
  <2>2. UNCHANGED <<text, pending, out, pass>> /\ func' = IF Line.type = "FuncName" THEN read + 1 ELSE func
    BY <2>1 DEF input, history, Feed
  <2>3. pass # "moved" => FuncIsLast'
    BY <1>1, <2>1, <2>2, FuncOn DEF FuncInv, FeederInv
  <2>4. \A k \in 1..Len(<<>>) : FALSE
    OBVIOUS
  <2> QED
    BY <1>1, <2>2, <2>3, <2>4, SameFuncs DEF FuncInv
<1> QED
  BY <1>2, <1>3

LEMMA FuncSkip == ASSUME FeederInv, FuncInv, Skip PROVE FuncInv'
<1>1. read < Len(text) /\ pending = <<>> /\ Line.type # "FuncName" /\ UNCHANGED <<text, pending, out, pass, func>>
        /\ read' = read + 1
  BY DEF Skip, Reading, input, history
<1>2. pass # "moved" => FuncIsLast'
  BY <1>1, FuncOn DEF FuncInv, FeederInv
<1>3. \A k \in 1..Len(<<>>) : FALSE
  OBVIOUS
<1> QED
  BY <1>1, <1>2, <1>3, SameFuncs DEF FuncInv

LEMMA FuncReadIns == ASSUME FeederInv, OwnInv, FuncInv, ReadIns PROVE FuncInv'
<1>1. read < Len(text) /\ doFeed /\ call = "next" /\ pending = <<>>
  BY DEF ReadIns, Reading
<1>2. CASE Throw(Line)
  BY <1>2, FuncFrame DEF Throw, input, history
<1>3. CASE ~Throw(Line)
  <2> DEFINE recs == Records(InsWith(Line), CodesWith(Line))
  <2>1. PICK to \in NextStates(Line) :
          /\ Feed(Line, to)
          /\ pending' = IF to = Ready THEN Filtered(recs) ELSE pending
          /\ read' = read + 1
          /\ UNCHANGED <<input, started, doFeed, buf, call, thrown, history>>
    BY <1>3 DEF ReadIns
  <2>2. UNCHANGED <<text, out, pass>> /\ func' = IF Line.type = "FuncName" THEN read + 1 ELSE func
    BY <2>1 DEF input, history, Feed
  <2>3. pass # "moved" => FuncIsLast'
    BY <1>1, <2>1, <2>2, FuncOn DEF FuncInv, FeederInv
  <2>4. \A k \in 1..Len(pending') : SameFunc(pending'[k].ins, read')
    <3>1. CASE to = Ready
      <4>1. recs \in Seq(Recs) /\ Len(recs) = Len(InsWith(Line)) /\ \A k \in 1..Len(recs) : recs[k].ins = InsWith(Line)[k]
        BY <1>1, <3>1, FedRecords, FedGroupIsOwn
      <4>2. \A k \in 1..Len(recs) : SameFunc(recs[k].ins, read + 1)
        BY <1>1, <3>1, <4>1, FedSameFunc
      <4> DEFINE Q == {r \in ToSet(recs) : text[r.ins].sel}
      <4>3. pending' = Kept(recs, Q) /\ Kept(recs, Q) \in Seq(Recs \cap Q)
        BY <2>1, <3>1, <4>1, KeptElements DEF Filtered
      <4>4. \A k \in 1..Len(pending') : pending'[k] \in ToSet(recs)
        BY <4>3, ElementOfSeq
      <4>5. \A r \in ToSet(recs) : SameFunc(r.ins, read + 1)
        BY <4>2 DEF ToSet
      <4> QED
        BY <2>1, <4>4, <4>5
    <3>2. CASE to # Ready
      BY <1>1, <2>1, <3>2
    <3> QED
      BY <3>1, <3>2
  <2> QED
    BY <2>2, <2>3, <2>4, SameFuncs DEF FuncInv
<1> QED
  BY <1>2, <1>3

LEMMA FuncReadTrans == ASSUME FeederInv, OwnInv, FuncInv, ReadTrans PROVE FuncInv'
<1>1. read < Len(text) /\ call = "trans" /\ pending = <<>> /\ pass = "trans"
  BY DEF ReadTrans, Reading, FeederInv, GroupInv
<1>2. CASE Throw(Line)
  BY <1>2, FuncFrame DEF Throw, input, history
<1>3. CASE ~Throw(Line)
  <2> DEFINE outs == Annotated(Append(buf, read + 1), Records(InsWith(Line), CodesWith(Line)))
  <2>1. PICK to \in NextStates(Line) :
          /\ Feed(Line, to)
          /\ read' = read + 1
          /\ IF to = Ready THEN out' = out \o outs ELSE UNCHANGED out
          /\ UNCHANGED <<input, started, doFeed, pending, call, thrown, pass, passed, stale, asked>>
    BY <1>3 DEF ReadTrans
  <2>2. UNCHANGED <<text, pass, pending>> /\ func' = IF Line.type = "FuncName" THEN read + 1 ELSE func
    BY <2>1 DEF input, Feed
  <2>3. FuncIsLast' /\ FuncIsLast
    BY <1>1, <2>1, <2>2, FuncOn DEF FuncInv, FeederInv
  <2>4. out \in Seq(Outs) /\ \A k \in 1..Len(out) : out[k].func = LastBefore(out[k].rec.ins, FuncLines)
    BY <1>1 DEF FeederInv, TypeOK, FuncInv
  <2>5. \A k \in 1..Len(out') : out'[k].func = LastBefore(out'[k].rec.ins, FuncLines)
    <3>1. CASE to = Ready
      <4>1. outs \in Seq(Outs) /\ Len(outs) = Len(InsWith(Line))
              /\ \A k \in 1..Len(outs) : outs[k].rec.ins = InsWith(Line)[k] /\ outs[k].func = func
        BY <1>1, <3>1, TransRecords
      <4>2. \A k \in 1..Len(InsWith(Line)) : InsWith(Line)[k] \in InsLines /\ SameFunc(InsWith(Line)[k], read + 1)
        BY <1>1, <3>1, FedSameFunc
      <4>3. ASSUME NEW n \in InsLines, SameFunc(n, read + 1) PROVE func = LastBefore(n, FuncLines)
        <5>1. n \in Nat /\ n <= read + 1 /\ read \in Nat
          BY <4>3, TextIs DEF InsLines, SameFunc, FeederInv
        <5>2. \A m \in n..read : text[m].type # "FuncName"
          BY <4>3, <5>1 DEF SameFunc
        <5> QED
          BY <2>3, <5>1, <5>2, LastFunc DEF FeederInv
      <4> HIDE DEF outs
      <4>4. \A k \in 1..Len(outs) : outs[k].func = LastBefore(outs[k].rec.ins, FuncLines)
        BY <4>1, <4>2, <4>3
      <4>5. out' = out \o outs
        BY <2>1, <3>1
      <4>6. Len(out) \in Nat /\ Len(outs) \in Nat /\ Len(out') = Len(out) + Len(outs)
              /\ \A k \in 1..Len(out') : out'[k] = IF k <= Len(out) THEN out[k] ELSE outs[k - Len(out)]
        <5>0. out \in Seq(Outs) /\ outs \in Seq(Outs)
          BY <2>4, <4>1
        <5>1. Len(out) \in Nat /\ Len(outs) \in Nat /\ Len(out \o outs) = Len(out) + Len(outs)
                /\ \A k \in 1..Len(out \o outs) : (out \o outs)[k] = IF k <= Len(out) THEN out[k] ELSE outs[k - Len(out)]
          BY <5>0, ConcatIs, Zenon
        <5> QED
          BY <4>5, <5>1, Zenon
      <4>7. ASSUME NEW k \in 1..Len(out') PROVE out'[k].func = LastBefore(out'[k].rec.ins, FuncLines)
        <5>1. k <= Len(out) => k \in 1..Len(out)
          BY <4>6
        <5>2. ~(k <= Len(out)) => k - Len(out) \in 1..Len(outs)
          BY <4>6
        <5> QED
          BY <2>4, <4>4, <4>6, <5>1, <5>2
      <4> QED
        BY <4>7
    <3>2. CASE to # Ready
      BY <2>1, <2>4, <3>2
    <3> QED
      BY <3>1, <3>2
  <2>6. \A k \in 1..Len(out') : out'[k].func = (LastBefore(out[k].rec.ins, FuncLines))'
    BY <2>2, <2>5, SameText DEF LastBefore
  <2>7. \A k \in 1..Len(<<>>) : FALSE
    OBVIOUS
  <2> QED
    BY <1>1, <2>2, <2>3, <2>6, <2>7 DEF FuncInv
<1> QED
  BY <1>2, <1>3

LEMMA FuncInvStep == FeederInv /\ OwnInv /\ FuncInv /\ [Next]_vars => FuncInv'
<1> SUFFICES ASSUME FeederInv, OwnInv, FuncInv, [Next]_vars PROVE FuncInv'
  OBVIOUS
<1>1. CASE UNCHANGED vars
  BY <1>1, FuncFrame DEF vars, object, input, history
<1>2. CASE Restart \/ CallTrans
  <2>1. PICK by : Rewind(by)
    BY <1>2 DEF Restart, CallTrans
  <2> QED
    BY <2>1, FuncRewind DEF FeederInv
<1>3. CASE CallNext
  <2>1. CASE started
    BY <1>3, <2>1, FuncFrame DEF CallNext, input
  <2>2. CASE ~started
    BY <1>3, <2>2, FuncRewind DEF CallNext, FeederInv
  <2> QED
    BY <2>1, <2>2
<1>4. CASE EndNext \/ EndTrans
  BY <1>4, FuncFrame DEF EndNext, EndTrans, input
<1>5. CASE Extract
  BY <1>5 DEF Extract, FuncInv
<1> QED
  BY <1>1, <1>2, <1>3, <1>4, <1>5, FuncDeliver, FuncReadSection, FuncSkip, FuncReadIns, FuncReadTrans DEF Next

\* A record is handed out while CurrFuncName is its own kernel's, as long as
\* extract() has not read on.
THEOREM FeederFuncIsOwner == Spec => []FuncIsOwnerInPass
<1>1. Init => FeederInv /\ OwnInv /\ FuncInv
  BY FeederInvInit, OwnInvInit, FuncInvInit
<1>2. FeederInv /\ OwnInv /\ FuncInv /\ [Next]_vars => (FeederInv /\ OwnInv /\ FuncInv)'
  BY FeederInvStep, OwnInvStep, FuncInvStep
<1>3. FuncInv => FuncIsOwnerInPass
  BY DEF FuncInv, FuncIsOwnerInPass, FuncLines
<1> QED
  BY <1>1, <1>2, <1>3, PTL DEF Spec

-----------------------------------------------------------------------------
\* A pass gives every instruction it is asked for.

\* The filter lets the header in force pass.
Matches(n) == HeaderOf(n) > 0 /\ archFilter \in {NoArch, text[HeaderOf(n)].arch}

Given == InsOut(out) \o InsOf(pending)

\* The lists are this pass's, and not a group that an earlier one left over.
OwnLists == \/ pass = "next" /\ (pstate = Ready \/ doFeed)
            \/ pass = "trans" /\ ~(call = "trans" /\ read = 0 /\ pstate # Ready)

CountInv ==
  /\ pass = "next" => (doFeed <=> Matches(read + 1))
  /\ OwnLists => Given \o Kept(ins, Expected) = Kept(UpTo(read), Expected)
  /\ pass = "next" /\ pstate # Ready /\ ~doFeed => \A n \in 1..read : text[n].type = "Others"
  /\ ~started => call = "none" /\ pending = <<>> /\ (pass = "next" => ~asked \/ read = Len(text))
  /\ pstate # Ready => FuncLines # {}

LEMMA SameExpected ==
  ASSUME text' = text, archFilter' = archFilter
  PROVE  /\ pass' = pass => Expected' = Expected
         /\ \A n : Matches(n)' <=> Matches(n)
<1>1. \A n : HeaderOf(n)' = HeaderOf(n)
  BY DEF HeaderOf, LinesOf
<1> QED
  BY <1>1, SameText DEF Expected, Selected, Matches

LEMMA GivenSeq == ASSUME TypeOK, NEW E PROVE Given \in Seq(Nat) /\ Kept(ins, E) \in Seq(Nat)
<1>1. InsOut(out) \in Seq(Nat) /\ InsOf(pending) \in Seq(Nat)
  BY InsOutSeq, InsOfSeq DEF TypeOK
<1>2. ins \in Seq(Nat)
  BY SeqMonotonic, TextIs DEF TypeOK
<1>3. Kept(ins, E) \in Seq(Nat \cap E)
  BY <1>2, KeptElements
<1>4. Kept(ins, E) \in Seq(Nat)
  BY <1>3, SeqMonotonic
<1> QED
  BY <1>1, <1>4, ConcatProperties DEF Given

\* One more line, fed or not an instruction.
LEMMA CountFed ==
  ASSUME TypeOK, read < Len(text), NEW E, E \subseteq InsLines, NEW G \in Seq(Nat),
         G \o Kept(ins, E) = Kept(UpTo(read), E)
  PROVE  G \o Kept(InsWith(Line), E) = Kept(UpTo(read + 1), E)
<1> DEFINE r == read + 1
<1>1. r \in LineNos /\ Line = text[r] /\ read \in Nat /\ ins \in Seq(LineNos) /\ LineNos \subseteq Nat
  BY LineIs, TextIs DEF TypeOK
<1>2. Kept(ins, E) \in Seq(Nat)
  BY GivenSeq
<1>3. Kept(UpTo(r), E) = IF r \in E THEN Append(Kept(UpTo(read), E), r) ELSE Kept(UpTo(read), E)
  BY <1>1, KeptUpTo
<1>4. CASE Line.type \in InsTypes
  <2>1. InsWith(Line) = Append(ins, r)
    BY <1>4 DEF InsWith
  <2> DEFINE K == Kept(ins, E)
  <2> HIDE DEF r, K
  <2>0. r \in Nat /\ r \in LineNos /\ ins \in Seq(LineNos) /\ K \in Seq(Nat)
    BY <1>1, <1>2 DEF K
  <2>2. Kept(Append(ins, r), E) = IF r \in E THEN Append(Kept(ins, E), r) ELSE Kept(ins, E)
    BY <2>0, KeptAppend, Zenon
  <2>3. G \o Append(K, r) = Append(G \o K, r)
    BY <2>0, AppendConcat
  <2> QED
    BY <1>3, <2>1, <2>2, <2>3 DEF K, r
<1>5. CASE Line.type \notin InsTypes
  <2>1. r \notin E
    BY <1>1, <1>5 DEF InsLines
  <2> QED
    BY <1>3, <1>5, <2>1 DEF InsWith
<1> QED
  BY <1>4, <1>5

LEMMA MatchOn ==
  ASSUME TypeOK, read < Len(text), text' = text, archFilter' = archFilter, read' = read + 1
  PROVE  (Matches(read + 1))' <=> IF Line.type = "HeaderFlag" THEN archFilter \in {NoArch, Line.arch} ELSE Matches(read + 1)
<1> DEFINE r == read + 1
<1>1. r \in LineNos /\ Line = text[r] /\ read \in Nat /\ Headers \in SUBSET Nat /\ r \in Nat /\ r > 0 /\ r + 1 \in Nat
  BY LineIs, TextIs, HeaderOfIs
<1>2. (Matches(read + 1))' <=> Matches(r + 1)
  BY SameExpected DEF Matches, HeaderOf, LinesOf
<1> HIDE DEF r
<1>3. CASE Line.type = "HeaderFlag"
  <2>1. r \in Headers
    BY <1>1, <1>3 DEF Headers, LinesOf, LineNos
  <2>2. \A k \in Headers : k < r + 1 => k <= r
    BY <1>1
  <2>3. r < r + 1
    BY <1>1
  <2>4. HeaderOf(r + 1) = r
    BY <1>1, <2>1, <2>2, <2>3, LastBeforeUnique DEF HeaderOf, Headers
  <2> QED
    BY <1>1, <1>2, <1>3, <2>4 DEF Matches
<1>4. CASE Line.type # "HeaderFlag"
  <2>1. r \notin Headers
    BY <1>1, <1>4 DEF Headers, LinesOf
  <2>2. ASSUME NEW k \in Headers PROVE k < r + 1 <=> k < r
    <3>1. k \in Nat /\ k # r
      BY <1>1, <2>1
    <3> QED
      BY <1>1, <3>1
  <2>3. HeaderOf(r + 1) = HeaderOf(r)
    BY <2>2, LastBeforeSame DEF HeaderOf, Headers
  <2> QED
    BY <1>2, <1>4, <2>3 DEF Matches, r
<1> QED
  BY <1>3, <1>4

\* A group is only opened where a function has been named.
LEMMA OpensInFunc ==
  ASSUME FeederInv, read < Len(text), doFeed \/ call = "trans", NEW to \in NextStates(Line), to # Ready
  PROVE  FuncLines # {}
<1>1. Introduced(text, read + 1) /\ read + 1 \in LineNos /\ read \in Nat /\ Len(text) \in Nat
  BY FedLine, LineIs, TextIs DEF FeederInv
<1>2. PICK f \in 1..((read + 1) - 1) : text[f].type = "FuncName"
  BY <1>1 DEF Introduced
<1> QED
  BY <1>1, <1>2 DEF FuncLines, LinesOf, LineNos

\* What the filter leaves of a group are the expected ones of its instructions.
LEMMA FilteredIns ==
  ASSUME FeederInv, OwnInv, read < Len(text), doFeed, pass = "next", Ready \in NextStates(Line), Matches(read + 1)
  PROVE  InsOf(Filtered(Records(InsWith(Line), CodesWith(Line)))) = Kept(InsWith(Line), Expected)
<1> DEFINE is == InsWith(Line)
           recs == Records(is, CodesWith(Line))
           r == read + 1
           A == {n \in InsLines : HeaderOf(n) = HeaderOf(r)}
           S == {n \in InsLines : text[n].sel}
           Q == {q \in ToSet(recs) : text[q.ins].sel}
<1>1. recs \in Seq(Recs) /\ Len(recs) = Len(is) /\ \A k \in 1..Len(recs) : recs[k].ins = is[k]
  BY FedRecords, FedGroupIsOwn
<1>2. \A k \in 1..Len(is) : is[k] \in InsLines /\ GroupLines(is[k], r)
  BY FedGroupLines
<1>3. ASSUME NEW n \in InsLines, GroupLines(n, r) PROVE HeaderOf(n) = HeaderOf(r)
  <2>1. read \in Nat /\ r \in Nat /\ n \in Nat /\ Headers \in SUBSET Nat /\ n <= r
    BY <1>3, TextIs, HeaderOfIs DEF FeederInv, InsLines, GroupLines
  <2>2. ASSUME NEW j \in Headers PROVE j < n <=> j < r
    <3>1. text[j].type = "HeaderFlag" /\ j \in Nat
      BY <2>1 DEF Headers, LinesOf
    <3>2. ~(n <= j /\ j <= r)
      BY <1>3, <2>1, <3>1 DEF GroupLines, CodeTypes, InsTypes
    <3> QED
      BY <2>1, <3>1, <3>2
  <2> QED
    BY <2>2, LastBeforeSame DEF HeaderOf, Headers
<1>4. is \in Seq(LineNos)
  BY FedLine
<1> HIDE DEF is, recs
<1>5. is \in Seq(A)
  <2>1. Len(is) \in Nat /\ is \in [1..Len(is) -> LineNos]
    BY <1>4, LenProperties
  <2>2. \A k \in 1..Len(is) : is[k] \in A
    BY <1>2, <1>3
  <2>3. is \in [1..Len(is) -> A]
    BY <2>1, <2>2
  <2> QED
    BY <2>1, <2>3, SeqDef
<1>6. \A n \in A : n \in S <=> n \in Expected
  BY DEF Expected, Selected, Matches
<1>7. Kept(is, S) = Kept(is, Expected)
  BY <1>5, <1>6, KeptSame
<1>8. \A k \in 1..Len(recs) : recs[k] \in Q <=> recs[k].ins \in S
  BY <1>1, <1>2 DEF ToSet
<1>9. InsOf(Kept(recs, Q)) = Kept(InsOf(recs), S)
  BY <1>1, <1>8, InsOfKept
<1>a. InsOf(recs) = is
  <2>1. InsOf(recs) \in Seq(Nat) /\ Len(InsOf(recs)) = Len(recs) /\ \A k \in 1..Len(recs) : InsOf(recs)[k] = recs[k].ins
    BY <1>1, InsOfSeq
  <2>2. is \in Seq(Nat)
    BY <1>4, SeqMonotonic, TextIs DEF FeederInv
  <2> QED
    BY <1>1, <2>1, <2>2, SeqEqual
<1> QED
  BY <1>7, <1>9, <1>a DEF Filtered, is, recs

\* trans() names all of them.
LEMMA TransIns ==
  ASSUME FeederInv, OwnInv, call = "trans", read < Len(text), Ready \in NextStates(Line)
  PROVE  InsOut(Annotated(Append(buf, read + 1), Records(InsWith(Line), CodesWith(Line)))) = Kept(InsWith(Line), InsLines)
<1> DEFINE is == InsWith(Line)
           outs == Annotated(Append(buf, read + 1), Records(is, CodesWith(Line)))
<1>1. outs \in Seq(Outs) /\ Len(outs) = Len(is) /\ \A k \in 1..Len(outs) : outs[k].rec.ins = is[k]
  BY TransRecords
<1>2. is \in Seq(LineNos) /\ \A k \in 1..Len(is) : is[k] \in InsLines
  BY FedLine, FedGroupLines
<1> HIDE DEF is, outs
<1>3. is \in Seq(InsLines)
  <2>1. Len(is) \in Nat /\ is \in [1..Len(is) -> LineNos]
    BY <1>2, LenProperties
  <2>2. is \in [1..Len(is) -> InsLines]
    BY <1>2, <2>1
  <2> QED
    BY <2>1, <2>2, SeqDef
<1>4. Kept(is, InsLines) = is
  BY <1>3, KeptWhole
<1>5. InsOut(outs) = is
  <2>1. InsOut(outs) \in Seq(Nat) /\ Len(InsOut(outs)) = Len(outs) /\ \A k \in 1..Len(outs) : InsOut(outs)[k] = outs[k].rec.ins
    BY <1>1, InsOutSeq
  <2>2. is \in Seq(Nat)
    BY <1>2, SeqMonotonic, TextIs DEF FeederInv
  <2> QED
    BY <1>1, <2>1, <2>2, SeqEqual
<1> QED
  BY <1>4, <1>5 DEF is, outs

LEMMA NothingYet == UpTo(0) = <<>> /\ InsOf(<<>>) = <<>> /\ InsOut(<<>>) = <<>> /\ <<>> \o <<>> = <<>>
<1>1. 1..0 = {} /\ Len(<<>>) = 0
  OBVIOUS
<1>2. UpTo(0) = <<>>
  BY <1>1 DEF UpTo
<1>3. InsOf(<<>>) = <<>> /\ InsOut(<<>>) = <<>>
  BY <1>1 DEF InsOf, InsOut
<1>4. <<>> \o <<>> = <<>>
  BY EmptySeq, ConcatEmptySeq
<1> QED
  BY <1>2, <1>3, <1>4

\* Nothing is given and nothing read.
LEMMA NoneOfNone == ASSUME NEW E PROVE (InsOut(<<>>) \o InsOf(<<>>)) \o Kept(<<>>, E) = Kept(UpTo(0), E)
  BY NothingYet, KeptEmpty

LEMMA NoHeaderYet == ASSUME TypeOK PROVE ~Matches(1)
<1>1. \A k \in Headers : ~(k < 1)
  BY TextIs DEF Headers, LinesOf
<1>2. HeaderOf(1) \in {0} \cup {k \in Headers : k < 1}
  BY HeaderOfIs, TextIs
<1> QED
  BY <1>1, <1>2 DEF Matches

LEMMA CountInvInit == Init => CountInv
<1> SUFFICES ASSUME Init PROVE CountInv
  OBVIOUS
<1>1. TypeOK /\ pstate = Ready /\ read = 0 /\ read + 1 = 1 /\ doFeed = FALSE /\ started = FALSE /\ asked = FALSE
        /\ call = "none" /\ pending = <<>> /\ out = <<>> /\ ins = <<>>
  BY FeederInvInit DEF Init, FeederInv
<1>2. ~Matches(read + 1)
  BY <1>1, NoHeaderYet
<1>3. Given \o Kept(ins, Expected) = Kept(UpTo(read), Expected)
  BY <1>1, NoneOfNone DEF Given
<1> QED
  BY <1>1, <1>2, <1>3 DEF CountInv

LEMMA CountRewind ==
  ASSUME FeederInv, CountInv, NEW by \in {"next", "trans"}, Rewind(by), by = "trans" => call' = "trans"
  PROVE  CountInv'
<1>1. read' = 0 /\ doFeed' = FALSE /\ pending' = <<>> /\ started' = TRUE /\ out' = <<>> /\ pass' = by
        /\ UNCHANGED <<text, archFilter, pstate, ins>>
  BY DEF Rewind, input
<1>2. TypeOK /\ (pstate = Ready => ins = <<>>) /\ Len(text) \in Nat /\ 0 + 1 = 1
  BY TextIs DEF FeederInv, GroupInv
<1>3. ~(Matches(read + 1))'
  <2>1. (Matches(read + 1))' <=> Matches(1)
    BY <1>1, SameExpected DEF Matches, HeaderOf, LinesOf
  <2> QED
    BY <1>2, <2>1, NoHeaderYet
<1>4. OwnLists' => pstate = Ready
  BY <1>1 DEF OwnLists
<1>5. ASSUME pstate = Ready PROVE (Given \o Kept(ins, Expected) = Kept(UpTo(read), Expected))'
  <2>1. Given' \o Kept(ins', Expected') = Kept(UpTo(read'), Expected')
    BY <1>1, <1>2, <1>5, NoneOfNone DEF Given
  <2> QED
    BY <2>1
<1>6. FuncLines' = FuncLines
  BY <1>1, SameText
<1>7. \A n \in 1..read' : FALSE
  BY <1>1
<1> QED
  BY <1>1, <1>3, <1>4, <1>5, <1>6, <1>7 DEF CountInv

\* Steps that neither read nor make records.
LEMMA CountFrame ==
  ASSUME CountInv, UNCHANGED <<text, archFilter, read, doFeed, pstate, ins, pending, out, pass>>,
         OwnLists' => OwnLists,
         ~started' => call' = "none" /\ pending = <<>> /\ (pass = "next" => ~asked' \/ read = Len(text))
  PROVE  CountInv'
<1>1. Expected' = Expected /\ FuncLines' = FuncLines
  BY SameExpected, SameText
<1>2. (Matches(read + 1))' <=> Matches(read + 1)
  BY SameExpected DEF Matches, HeaderOf, LinesOf
<1>3. OwnLists' => (Given \o Kept(ins, Expected) = Kept(UpTo(read), Expected))'
  BY <1>1 DEF CountInv, Given
<1> QED
  BY <1>1, <1>2, <1>3 DEF CountInv

LEMMA CountDeliver == ASSUME FeederInv, CountInv, Deliver PROVE CountInv'
<1>1. UNCHANGED <<text, archFilter, read, started, doFeed, pstate, ins, pass, asked>>
  BY DEF Deliver, input
<1>2. pending # <<>> /\ call = "next" /\ call' = "none" /\ pending' = Tail(pending)
        /\ out' = Append(out, [rec |-> Head(pending), func |-> func])
  BY DEF Deliver
<1>3. pending \in Seq(Recs) /\ out \in Seq(Outs) /\ func \in Nat /\ Head(pending) \in Recs
  BY <1>2, HeadTailProperties DEF FeederInv, TypeOK
<1>4. Given' = Given
  <2>1. [rec |-> Head(pending), func |-> func] \in Outs
    BY <1>3 DEF Outs
  <2>2. InsOut(out') = Append(InsOut(out), Head(pending).ins)
    BY <1>2, <1>3, <2>1, InsOutAppend
  <2>3. InsOf(pending) # <<>> /\ Head(InsOf(pending)) = Head(pending).ins /\ InsOf(pending') = Tail(InsOf(pending))
    BY <1>2, <1>3, InsOfTail
  <2>4. InsOut(out) \in Seq(Nat) /\ InsOf(pending) \in Seq(Nat)
    BY <1>3, InsOutSeq, InsOfSeq
  <2>5. Append(InsOut(out), Head(InsOf(pending))) \o Tail(InsOf(pending)) = InsOut(out) \o InsOf(pending)
    BY <2>3, <2>4, MoveHead
  <2> QED
    BY <2>2, <2>3, <2>5 DEF Given
<1>5. started /\ pass # "trans"
  BY <1>2 DEF CountInv, FeederInv, GroupInv
<1>6. Expected' = Expected /\ FuncLines' = FuncLines /\ (OwnLists' => OwnLists)
  BY <1>1, <1>5, SameExpected, SameText DEF OwnLists
<1>7. (Matches(read + 1))' <=> Matches(read + 1)
  BY <1>1, SameExpected DEF Matches, HeaderOf, LinesOf
<1>8. OwnLists' => (Given \o Kept(ins, Expected) = Kept(UpTo(read), Expected))'
  <2>1. OwnLists' => Given' \o Kept(ins', Expected') = Kept(UpTo(read'), Expected')
    BY <1>1, <1>4, <1>6 DEF CountInv
  <2> QED
    BY <2>1
<1> QED
  BY <1>1, <1>5, <1>6, <1>7, <1>8 DEF CountInv

LEMMA CountSkip == ASSUME FeederInv, CountInv, Skip PROVE CountInv'
<1>1. UNCHANGED <<text, archFilter, started, doFeed, pstate, ins, pending, out, pass, asked, call>>
  BY DEF Skip, input, history
<1>2. read < Len(text) /\ Line.type \notin {"HeaderFlag", "FuncName"} /\ ~doFeed /\ read' = read + 1 /\ call = "next"
  BY DEF Skip, Reading
<1>3. TypeOK /\ started /\ pass # "trans" /\ read \in Nat /\ read + 1 \in LineNos /\ Line = text[read + 1] /\ Line \in Lines
  BY <1>2, LineIs, TextIs DEF CountInv, FeederInv, GroupInv
<1>4. (Matches(read + 1))' <=> Matches(read + 1)
  BY <1>1, <1>2, <1>3, MatchOn
<1>5. Expected' = Expected /\ FuncLines' = FuncLines
  BY <1>1, SameExpected, SameText
<1>6. ASSUME pass = "next", pstate = Ready
      PROVE  (Given \o Kept(ins, Expected) = Kept(UpTo(read), Expected))'
  <2>1. Given \o Kept(ins, Expected) = Kept(UpTo(read), Expected)
    BY <1>6 DEF CountInv, OwnLists
  <2>2. read + 1 \notin Expected
    BY <1>2, <1>6 DEF Expected, Selected, Matches, CountInv
  <2>3. Kept(UpTo(read + 1), Expected) = Kept(UpTo(read), Expected)
    BY <1>3, <2>2, KeptUpTo
  <2>4. Given' = Given
    BY <1>1 DEF Given
  <2>5. Given' \o Kept(ins', Expected') = Kept(UpTo(read'), Expected')
    BY <1>1, <1>2, <1>5, <2>1, <2>3, <2>4
  <2> QED
    BY <2>5
<1>7. ASSUME pass = "next", pstate # Ready
      PROVE  \A n \in 1..(read + 1) : text[n].type = "Others"
  <2>1. \A n \in 1..read : text[n].type = "Others"
    BY <1>2, <1>7 DEF CountInv
  <2>2. Line.type \notin CodeTypes
    <3> SUFFICES ASSUME Introduced(text, read + 1) PROVE FALSE
      BY <1>2, <1>3, LineIs
    <3>1. PICK f \in 1..((read + 1) - 1) : text[f].type = "FuncName"
      BY DEF Introduced
    <3>2. (read + 1) - 1 = read
      BY <1>3
    <3> QED
      BY <2>1, <3>1, <3>2
  <2>3. Line.type = "Others"
    BY <1>2, <1>3, <2>2 DEF Lines, LineTypes, CodeTypes, InsTypes
  <2>4. \A n \in 1..(read + 1) : n \in 1..read \/ n = read + 1
    BY <1>3
  <2> QED
    BY <1>3, <2>1, <2>3, <2>4
<1>8. OwnLists' => pass = "next" /\ pstate = Ready
  BY <1>1, <1>2, <1>3 DEF OwnLists
<1> QED
  BY <1>1, <1>2, <1>3, <1>4, <1>5, <1>6, <1>7, <1>8 DEF CountInv

LEMMA CountReadSection == ASSUME FeederInv, CountInv, ReadSection PROVE CountInv'
<1>1. read < Len(text) /\ Line.type \in {"HeaderFlag", "FuncName"} /\ call = "next" /\ started
  BY DEF ReadSection, Reading, CountInv
<1>2. CASE Throw(Line)
  BY <1>1, <1>2, CountFrame DEF Throw, input, history, OwnLists
<1>3. CASE ~Throw(Line)
  <2>1. PICK to \in NextStates(Line) :
          /\ Feed(Line, to)
          /\ Lists(Line, FALSE)
          /\ read' = read + 1
          /\ doFeed' = IF Line.type = "HeaderFlag" THEN archFilter \in {NoArch, Line.arch} ELSE doFeed
          /\ UNCHANGED <<input, started, pending, buf, call, thrown, history>>
    BY <1>3 DEF ReadSection
  <2>2. UNCHANGED <<text, archFilter, started, pending, out, pass>>
    BY <2>1 DEF input, history
  <2>3. TypeOK /\ read \in Nat /\ Line \in Lines
    BY <1>1, LineIs, TextIs DEF FeederInv
  <2>4. pstate = Ready /\ to = Ready
    BY <1>1, <2>1, <2>3, NextIs DEF SectionTypes
  <2>5. ins' = ins /\ InsWith(Line) = ins /\ pstate' = Ready
    BY <1>1, <2>1, <2>4 DEF Lists, InsWith, InsTypes, Feed
  <2>6. (Matches(read + 1))' <=> IF Line.type = "HeaderFlag" THEN archFilter \in {NoArch, Line.arch} ELSE Matches(read + 1)
    BY <1>1, <2>1, <2>2, <2>3, MatchOn
  <2>7. pass = "next" => (doFeed' <=> (Matches(read + 1))')
    BY <2>1, <2>6 DEF CountInv
  <2>8. Expected' = Expected /\ pass # "trans" /\ Given' = Given /\ Expected \subseteq InsLines
    BY <1>1, <2>2, SameExpected DEF FeederInv, GroupInv, Given, Expected
  <2>9. ASSUME pass = "next" PROVE (Given \o Kept(ins, Expected) = Kept(UpTo(read), Expected))'
    <3>1. Given \o Kept(ins, Expected) = Kept(UpTo(read), Expected)
      BY <2>4, <2>9 DEF CountInv, OwnLists
    <3>2. Given \o Kept(InsWith(Line), Expected) = Kept(UpTo(read + 1), Expected)
      BY <1>1, <2>3, <2>8, <3>1, GivenSeq, CountFed
    <3>3. Given' \o Kept(ins', Expected') = Kept(UpTo(read'), Expected')
      BY <2>1, <2>5, <2>8, <3>2
    <3> QED
      BY <3>3
  <2> QED
    BY <1>1, <2>2, <2>5, <2>7, <2>8, <2>9 DEF CountInv, OwnLists
<1> QED
  BY <1>2, <1>3

LEMMA CountReadIns == ASSUME FeederInv, OwnInv, CountInv, ReadIns PROVE CountInv'
<1>1. read < Len(text) /\ doFeed /\ call = "next" /\ pending = <<>> /\ started /\ Line.type # "HeaderFlag"
  BY DEF ReadIns, Reading, CountInv
<1>2. CASE Throw(Line)
  BY <1>1, <1>2, CountFrame DEF Throw, input, history, OwnLists
<1>3. CASE ~Throw(Line)
  <2> DEFINE recs == Records(InsWith(Line), CodesWith(Line))
  <2>1. PICK to \in NextStates(Line) :
          /\ Feed(Line, to)
          /\ Lists(Line, to = Ready)
          /\ pending' = IF to = Ready THEN Filtered(recs) ELSE pending
          /\ read' = read + 1
          /\ UNCHANGED <<input, started, doFeed, buf, call, thrown, history>>
    BY <1>3 DEF ReadIns
  <2>2. UNCHANGED <<text, archFilter, started, doFeed, out, pass>>
    BY <2>1 DEF input, history
  <2>3. TypeOK /\ pass # "trans"
    BY <1>1 DEF FeederInv, GroupInv
  <2>4. (Matches(read + 1))' <=> Matches(read + 1)
    BY <1>1, <2>1, <2>2, <2>3, MatchOn
  <2>5. Expected' = Expected /\ FuncLines' = FuncLines /\ Expected \subseteq InsLines
    BY <2>2, SameExpected, SameText DEF Expected
  <2>6. pstate' = to /\ (to # Ready => FuncLines # {})
    BY <1>1, <2>1, OpensInFunc DEF Feed
  <2>7. ASSUME pass = "next" PROVE (Given \o Kept(ins, Expected) = Kept(UpTo(read), Expected))'
    <3>1. Given \o Kept(ins, Expected) = Kept(UpTo(read), Expected) /\ Matches(read + 1)
      BY <1>1, <2>7 DEF CountInv, OwnLists
    <3>2. Given \o Kept(InsWith(Line), Expected) = Kept(UpTo(read + 1), Expected)
      BY <1>1, <2>3, <2>5, <3>1, GivenSeq, CountFed
    <3>3. InsOut(out) \in Seq(Nat) /\ InsOf(pending) = <<>>
      BY <1>1, <2>3, InsOutSeq, NothingYet DEF TypeOK
    <3>4. Given = InsOut(out)
      BY <3>3, ConcatEmptySeq DEF Given
    <3>5. CASE to = Ready
      <4>1. InsOf(pending') = Kept(InsWith(Line), Expected)
        BY <1>1, <2>1, <2>7, <3>1, <3>5, FilteredIns
      <4>2. ins' = <<>> /\ out' = out
        BY <2>1, <2>2, <3>5 DEF Lists
      <4>3. Given' = InsOut(out) \o Kept(InsWith(Line), Expected)
        BY <4>1, <4>2 DEF Given
      <4>4. Given' \in Seq(Nat)
        <5>1. InsWith(Line) \in Seq(LineNos)
          BY <1>1, FedLine
        <5>2. Kept(InsWith(Line), Expected) \in Seq(LineNos \cap Expected)
          BY <5>1, KeptElements
        <5>3. Kept(InsWith(Line), Expected) \in Seq(Nat)
          BY <5>2, SeqMonotonic, TextIs, <2>3
        <5> QED
          BY <3>3, <4>3, <5>3, ConcatProperties
      <4>5. Kept(ins', Expected') = <<>>
        BY <4>2, KeptEmpty
      <4>6. Given' \o Kept(ins', Expected') = Given'
        BY <4>4, <4>5, ConcatEmptySeq
      <4>7. Given' \o Kept(ins', Expected') = Kept(UpTo(read'), Expected')
        BY <2>1, <2>5, <3>2, <3>4, <4>3, <4>6
      <4> QED
        BY <4>7
    <3>6. CASE to # Ready
      <4>1. ins' = InsWith(Line) /\ pending' = pending /\ out' = out
        BY <2>1, <2>2, <3>6 DEF Lists
      <4>2. Given' = Given
        BY <4>1 DEF Given
      <4>3. Given' \o Kept(ins', Expected') = Kept(UpTo(read'), Expected')
        BY <2>1, <2>5, <3>2, <4>1, <4>2
      <4> QED
        BY <4>3
    <3> QED
      BY <3>5, <3>6
  <2> QED
    BY <1>1, <2>2, <2>3, <2>4, <2>5, <2>6, <2>7 DEF CountInv, OwnLists
<1> QED
  BY <1>2, <1>3

LEMMA CountReadTrans == ASSUME FeederInv, OwnInv, CountInv, ReadTrans PROVE CountInv'
<1>1. read < Len(text) /\ call = "trans" /\ pending = <<>> /\ pass = "trans" /\ ~doFeed /\ started
  BY DEF ReadTrans, Reading, CountInv, FeederInv, GroupInv
<1>2. CASE Throw(Line)
  BY <1>1, <1>2, CountFrame DEF Throw, input, history, OwnLists
<1>3. CASE ~Throw(Line)
  <2> DEFINE outs == Annotated(Append(buf, read + 1), Records(InsWith(Line), CodesWith(Line)))
  <2>1. PICK to \in NextStates(Line) :
          /\ Feed(Line, to)
          /\ Lists(Line, to = Ready)
          /\ read' = read + 1
          /\ IF to = Ready THEN out' = out \o outs ELSE UNCHANGED out
          /\ UNCHANGED <<input, started, doFeed, pending, call, thrown, pass, passed, stale, asked>>
    BY <1>3 DEF ReadTrans
  <2>2. UNCHANGED <<text, archFilter, started, pending, pass>>
    BY <2>1 DEF input
  <2>3. TypeOK /\ out \in Seq(Outs) /\ InsOut(out) \in Seq(Nat)
    BY InsOutSeq DEF FeederInv, TypeOK
  <2>4. Expected = InsLines /\ Expected' = Expected /\ FuncLines' = FuncLines
    BY <1>1, <2>2, SameExpected, SameText DEF Expected
  <2>5. pstate' = to /\ (to # Ready => FuncLines # {})
    BY <1>1, <2>1, OpensInFunc DEF Feed
  <2>6. \A o \in Seq(Outs) : InsOut(o) \o InsOf(<<>>) = InsOut(o)
    <3> SUFFICES ASSUME NEW o \in Seq(Outs) PROVE InsOut(o) \o InsOf(<<>>) = InsOut(o)
      OBVIOUS
    <3>1. InsOut(o) \in Seq(Nat)
      BY InsOutSeq
    <3> QED
      BY <3>1, NothingYet, ConcatEmptySeq
  <2>7. OwnLists
    <3>1. pstate = Ready \/ Feeding
      BY <1>1, FedLine
    <3> QED
      BY <1>1, <3>1, TextIs, <2>3 DEF OwnLists, Feeding
  <2>8. InsOut(out) \o Kept(ins, Expected) = Kept(UpTo(read), Expected)
    BY <1>1, <2>3, <2>6, <2>7 DEF CountInv, Given
  <2>9. InsOut(out) \o Kept(InsWith(Line), Expected) = Kept(UpTo(read + 1), Expected)
    BY <1>1, <2>3, <2>4, <2>8, CountFed
  <2>a. (Given \o Kept(ins, Expected) = Kept(UpTo(read), Expected))'
    <3>1. CASE to = Ready
      <4>1. outs \in Seq(Outs)
        BY <1>1, <3>1, TransRecords
      <4>2. InsOut(outs) = Kept(InsWith(Line), InsLines)
        BY <1>1, <3>1, TransIns
      <4> HIDE DEF outs
      <4>3. out' = out \o outs /\ ins' = <<>>
        BY <2>1, <3>1 DEF Lists
      <4>4. out' \in Seq(Outs) /\ InsOut(out') = InsOut(out) \o InsOut(outs)
        BY <2>3, <4>1, <4>3, ConcatProperties, InsOutConcat
      <4>5. Given' = InsOut(out')
        BY <1>1, <2>2, <2>6, <4>4 DEF Given
      <4>6. InsOut(out') \in Seq(Nat)
        BY <4>4, InsOutSeq
      <4>7. Given' \o Kept(ins', Expected') = InsOut(out')
        BY <4>3, <4>5, <4>6, KeptEmpty, ConcatEmptySeq
      <4>8. Given' \o Kept(ins', Expected') = Kept(UpTo(read'), Expected')
        BY <2>1, <2>4, <2>9, <4>2, <4>4, <4>7
      <4> QED
        BY <4>8
    <3>2. CASE to # Ready
      <4>1. ins' = InsWith(Line) /\ out' = out
        BY <2>1, <3>2 DEF Lists
      <4>2. Given' = InsOut(out)
        BY <1>1, <2>2, <2>3, <2>6, <4>1 DEF Given
      <4>3. Given' \o Kept(ins', Expected') = Kept(UpTo(read'), Expected')
        BY <2>1, <2>4, <2>9, <4>1, <4>2
      <4> QED
        BY <4>3
    <3> QED
      BY <3>1, <3>2
  <2> QED
    BY <1>1, <2>2, <2>4, <2>5, <2>a DEF CountInv
<1> QED
  BY <1>2, <1>3

LEMMA CountEnd == ASSUME FeederInv, CountInv, EndNext \/ EndTrans PROVE CountInv'
<1>1. UNCHANGED <<text, archFilter, read, doFeed, pstate, ins, pending, out, pass, asked>> /\ call' = "none" /\ read = Len(text)
  BY DEF EndNext, EndTrans, input
<1>2. ~started' => pending = <<>>
  BY DEF EndNext, EndTrans, CountInv
<1>3. OwnLists' => OwnLists
  <2>1. CASE EndNext
    BY <1>1, <2>1 DEF EndNext, OwnLists
  <2>2. CASE EndTrans
    <3>1. ASSUME pstate # Ready PROVE read # 0
      <4>1. PICK f : f \in 1..Len(text)
        BY <3>1 DEF CountInv, FuncLines, LinesOf
      <4> QED
        BY <1>1, <4>1, TextIs DEF FeederInv
    <3> QED
      BY <1>1, <3>1 DEF OwnLists
  <2> QED
    BY <2>1, <2>2
<1> QED
  BY <1>1, <1>2, <1>3, CountFrame

LEMMA CountInvStep == FeederInv /\ OwnInv /\ CountInv /\ [Next]_vars => CountInv'
<1> SUFFICES ASSUME FeederInv, OwnInv, CountInv, [Next]_vars PROVE CountInv'
  OBVIOUS
<1>1. CASE UNCHANGED vars
  BY <1>1, CountFrame DEF vars, object, input, history, OwnLists, CountInv
<1>2. CASE Restart \/ CallTrans
  <2>1. CASE Restart
    BY <2>1, CountRewind DEF Restart
  <2>2. CASE CallTrans
    BY <2>2, CountRewind DEF CallTrans
  <2> QED
    BY <1>2, <2>1, <2>2
<1>3. CASE CallNext
  <2>1. CASE started
    BY <1>3, <2>1, CountFrame DEF CallNext, input, OwnLists, Idle
  <2>2. CASE ~started
    BY <1>3, <2>2, CountRewind DEF CallNext
  <2> QED
    BY <2>1, <2>2
<1>4. CASE Extract
  <2>1. UNCHANGED <<text, started, pstate, pending, call>> /\ pass' = "moved"
    BY <1>4 DEF Extract, input
  <2> QED
    BY <2>1, SameText DEF CountInv, OwnLists
<1> QED
  BY <1>1, <1>2, <1>3, <1>4, CountDeliver, CountReadSection, CountSkip, CountReadIns, CountReadTrans, CountEnd DEF Next

\* At the end of a pass every selected instruction has been handed out, once and
\* in order, but for those of a group that the listing breaks off.
LEMMA CountAtEnd == FeederInv /\ CountInv => PassIsComplete
<1> SUFFICES ASSUME FeederInv, CountInv, Ended PROVE InsOut(out) \o Kept(ins, Expected) = Kept(UpTo(Len(text)), Expected)
  BY DEF PassIsComplete, InsOut, UpTo
<1>1. call = "none" /\ TypeOK /\ Len(text) \in Nat
  BY TextIs DEF Ended, Idle, FeederInv
<1>2. read = Len(text) /\ pending = <<>>
  BY <1>1 DEF Ended, CountInv, FeederInv, GroupInv
<1>3. OwnLists
  <2>1. CASE pass = "trans"
    BY <1>1, <2>1 DEF OwnLists
  <2>2. CASE pass = "next"
    <3>1. ASSUME pstate # Ready, ~doFeed PROVE FALSE
      <4>1. PICK f \in FuncLines : TRUE
        BY <3>1 DEF CountInv
      <4>2. f \in 1..read /\ text[f].type = "FuncName"
        BY <1>2, <4>1 DEF FuncLines, LinesOf
      <4> QED
        BY <2>2, <3>1, <4>2 DEF CountInv
    <3> QED
      BY <2>2, <3>1 DEF OwnLists
  <2> QED
    BY <2>1, <2>2 DEF Ended
<1>4. Given = InsOut(out)
  <2>1. InsOut(out) \in Seq(Nat)
    BY <1>1, InsOutSeq DEF TypeOK
  <2> QED
    BY <1>2, <2>1, NothingYet, ConcatEmptySeq DEF Given
<1> QED
  BY <1>2, <1>3, <1>4 DEF CountInv

\* A pass that ends has given every instruction that was asked for.
THEOREM FeederPassIsComplete == Spec => []PassIsComplete
<1>1. Init => FeederInv /\ OwnInv /\ CountInv
  BY FeederInvInit, OwnInvInit, CountInvInit
<1>2. FeederInv /\ OwnInv /\ CountInv /\ [Next]_vars => (FeederInv /\ OwnInv /\ CountInv)'
  BY FeederInvStep, OwnInvStep, CountInvStep
<1> QED
  BY <1>1, <1>2, CountAtEnd, PTL DEF Spec

-----------------------------------------------------------------------------
\* The states a pass goes through depend on the listing only: a pass that has
\* got to the end once gets there again.

\* What the state machine of the header in force does with line n.
StatesAfter(n, s) ==
  IF text[n].type \in SectionTypes
  THEN IF s = Ready /\ ~(text[n].type = "HeaderFlag" /\ FamilyOf[text[n].arch] = "none") THEN {Ready} ELSE {}
  ELSE {u[3] : u \in {v \in Transitions(FamilyOf[text[HeaderOf(n)].arch]) : v[1] = s /\ v[2] = text[n].type}}

FedBy(k, n) == k = "trans" \/ text[n].type \in {"HeaderFlag", "FuncName"} \/ Matches(n)
Moves(k, n, s, t) == IF FedBy(k, n) THEN t \in StatesAfter(n, s) ELSE t = s

\* The states st after each of the first N lines, in a pass of next() or trans().
Run(k, st, N) == st[0] = Ready /\ \A n \in 1..N : Moves(k, n, st[n - 1], st[n])
InRun(k) == \A st : Run(k, st, Len(text)) => pstate = st[read]
PartRun(k) == \E st : Run(k, st, read) /\ st[read] = pstate
FullRun(k) == \E st : Run(k, st, Len(text))

\* Where a pass is, unless it began in the middle of a group: in the state that
\* any pass is in there, at the end of a run of its own lines.
WholeInv ==
  /\ call # "trans" /\ read < Len(text) => IF doFeed THEN InRun("next") ELSE pstate = Ready
  /\ doFeed => archFilter \in {NoArch, arch}
  /\ doFeed /\ ~Matches(read + 1) => pstate = Ready \/ read = Len(text)
  /\ pass = "next" => PartRun("next")
  /\ call = "trans" => InRun("trans") /\ PartRun("trans")
  /\ \A k \in passed : FullRun(k)

ReuseInv ==
  /\ thrown => call # "none" /\ read < Len(text) /\ pending = <<>> /\ (stale \/ call \notin passed)
  /\ ~stale => WholeInv

LEMMA SectionNext ==
  ASSUME NEW l \in Lines, l.type \in SectionTypes
  PROVE  NextStates(l) = IF pstate = Ready /\ ~(l.type = "HeaderFlag" /\ FamilyOf[l.arch] = "none") THEN {Ready} ELSE {}
<1>1. l.type # "CodeOnly" /\ l.type # "InsCode" /\ l.type # "InsOnly"
  BY DEF SectionTypes
<1>2. \A to \in NextStates(l) : pstate = Ready /\ to = Ready
  BY <1>1, NextIs
<1>3. ASSUME l.type = "HeaderFlag" /\ FamilyOf[l.arch] = "none" PROVE NextStates(l) = {}
  BY <1>3 DEF NextStates
<1>4. ASSUME pstate = Ready, ~(l.type = "HeaderFlag" /\ FamilyOf[l.arch] = "none") PROVE Ready \in NextStates(l)
  <2> DEFINE u == <<Ready, l.type, Ready>>
  <2>1. u \in Transitions(FamilyOf[arch])
    BY DEF Transitions, SectionSteps, SectionTypes
  <2>2. u[1] = pstate /\ u[2] = l.type /\ u[3] = Ready
    BY <1>4
  <2> QED
    BY <1>4, <2>1, <2>2 DEF NextStates
<1> QED
  BY <1>2, <1>3, <1>4

LEMMA NextIsAfter ==
  ASSUME FeederInv, OwnInv, read < Len(text), doFeed \/ call = "trans" \/ Line.type \in SectionTypes
  PROVE  NextStates(Line) = StatesAfter(read + 1, pstate)
<1>1. Line \in Lines /\ Line = text[read + 1] /\ read \in Nat /\ read + 1 \in LineNos /\ Len(text) \in Nat
  BY LineIs, TextIs DEF FeederInv
<1>2. CASE Line.type \in SectionTypes
  BY <1>1, <1>2, SectionNext DEF StatesAfter
<1>3. CASE Line.type \notin SectionTypes
  <2>1. Line.type # "HeaderFlag" /\ Introduced(text, read + 1)
    BY <1>1, <1>3, LineIs DEF FeederInv, SectionTypes, Lines, LineTypes, CodeTypes, InsTypes
  <2>2. HeaderRead
    <3>1. PICK h \in 1..((read + 1) - 1) : text[h].type = "HeaderFlag"
      BY <2>1 DEF Introduced
    <3>2. h \in 1..Len(text) /\ h <= read
      BY <1>1 DEF LineNos
    <3> QED
      BY <3>1, <3>2 DEF HeaderRead, Headers, LinesOf
  <2>3. ArchRight
    BY <1>1, <1>3, <2>2 DEF OwnInv
  <2>4. arch = text[HeaderOf(read + 1)].arch
    BY <2>1, <2>3, ArchIsHeaders DEF FeederInv
  <2> QED
    BY <1>1, <1>3, <2>1, <2>4 DEF StatesAfter, NextStates
<1> QED
  BY <1>2, <1>3

LEMMA Deterministic ==
  ASSUME NEW l \in Lines, NEW a \in NextStates(l), NEW b \in NextStates(l)
  PROVE  a = b
<1>1. CASE l.type \in SectionTypes
  BY <1>1, SectionNext
<1>2. CASE l.type \notin SectionTypes /\ FamilyOf[arch] = "Sm5x6x"
  <2>1. \A to \in NextStates(l) :
          \/ pstate = Ready /\ l.type = "CodeOnly" /\ to = Ins(3)
          \/ \E n \in 1..3 : \/ pstate = Ins(n) /\ l.type = "InsCode" /\ to = After(n)
                             \/ pstate = Ins(n) /\ l.type = "InsOnly" /\ to = CodeOf(n)
                             \/ pstate = CodeOf(n) /\ l.type = "CodeOnly" /\ to = After(n)
    BY <1>2, NextIs
  <2>2. CASE pstate = Ready
    BY <2>1, <2>2, StatesDiffer
  <2>3. CASE \E n : pstate = Ins(n)
    <3>1. PICK n : pstate = Ins(n)
      BY <2>3
    <3>2. \A to \in NextStates(l) : (l.type = "InsCode" /\ to = After(n)) \/ (l.type = "InsOnly" /\ to = CodeOf(n))
      BY <2>1, <3>1, StatesDiffer
    <3> QED
      BY <3>2
  <2>4. CASE \E n : pstate = CodeOf(n)
    <3>1. PICK n : pstate = CodeOf(n)
      BY <2>4
    <3>2. \A to \in NextStates(l) : to = After(n)
      BY <2>1, <3>1, StatesDiffer
    <3> QED
      BY <3>2
  <2> QED
    BY <2>1, <2>2, <2>3, <2>4
<1>3. CASE l.type \notin SectionTypes /\ FamilyOf[arch] = "Sm7x8x"
  BY <1>3, NextIs, StatesDiffer
<1> QED
  BY <1>1, <1>2, <1>3, NextIs

LEMMA RunOn ==
  ASSUME NEW k, NEW st, NEW N \in Nat, NEW t, Run(k, st, N), Moves(k, N + 1, st[N], t)
  PROVE  \E s : Run(k, s, N + 1) /\ s[N + 1] = t
<1> DEFINE s == [n \in 0..(N + 1) |-> IF n = N + 1 THEN t ELSE st[n]]
<1>1. s[0] = Ready
  BY DEF Run
<1>2. s[N + 1] = t
  OBVIOUS
<1>3. ASSUME NEW n \in 1..(N + 1) PROVE Moves(k, n, s[n - 1], s[n])
  <2>1. n - 1 \in 0..(N + 1) /\ n - 1 # N + 1
    OBVIOUS
  <2>2. s[n - 1] = st[n - 1]
    BY <2>1
  <2>3. CASE n = N + 1
    <3>1. n - 1 = N
      BY <2>3
    <3> QED
      BY <1>2, <2>2, <2>3, <3>1
  <2>4. CASE n # N + 1
    <3>1. n \in 1..N /\ s[n] = st[n]
      BY <2>4
    <3> QED
      BY <2>2, <3>1 DEF Run
  <2> QED
    BY <2>3, <2>4
<1> HIDE DEF s
<1> QED
  BY <1>1, <1>2, <1>3 DEF Run

LEMMA SameRuns ==
  ASSUME text' = text, archFilter' = archFilter
  PROVE  \A k, st, N : Run(k, st, N)' <=> Run(k, st, N)
<1>1. \A n : HeaderOf(n)' = HeaderOf(n) /\ (Matches(n)' <=> Matches(n))
  BY SameExpected DEF HeaderOf, LinesOf
<1>2. \A n, s : StatesAfter(n, s)' = StatesAfter(n, s)
  BY <1>1 DEF StatesAfter
<1>3. \A k, n, s, t : Moves(k, n, s, t)' <=> Moves(k, n, s, t)
  BY <1>1, <1>2 DEF Moves, FedBy
<1> QED
  BY <1>3 DEF Run

LEMMA RunPrimes ==
  ASSUME text' = text, archFilter' = archFilter
  PROVE  /\ \A k : InRun(k)' <=> (\A st : Run(k, st, Len(text)) => pstate' = st[read'])
         /\ \A k : PartRun(k)' <=> (\E st : Run(k, st, read') /\ st[read'] = pstate')
         /\ \A k : FullRun(k)' <=> FullRun(k)
<1>1. \A k, st, N : Run(k, st, N)' <=> Run(k, st, N)
  BY SameRuns
<1>2. ASSUME NEW k PROVE InRun(k)' <=> (\A st : Run(k, st, Len(text)) => pstate' = st[read'])
  BY <1>1 DEF InRun
<1>3. ASSUME NEW k PROVE PartRun(k)' <=> (\E st : Run(k, st, read') /\ st[read'] = pstate')
  BY <1>1 DEF PartRun
<1>4. ASSUME NEW k PROVE FullRun(k)' <=> FullRun(k)
  BY <1>1 DEF FullRun
<1> QED
  BY <1>2, <1>3, <1>4

LEMMA NoLineYet ==
  ASSUME NEW k
  PROVE  \E st : Run(k, st, 0) /\ st[0] = Ready
<1> DEFINE st == [n \in 0..0 |-> Ready]
<1>1. st[0] = Ready /\ \A n \in 1..0 : FALSE
  OBVIOUS
<1> QED
  BY <1>1 DEF Run

\* What a run of the whole listing says of the line about to be read.
LEMMA RunAtLine ==
  ASSUME FeederInv, read < Len(text), NEW k, NEW st, Run(k, st, Len(text))
  PROVE  Moves(k, read + 1, st[read], st[read + 1])
<1>1. read + 1 \in 1..Len(text) /\ (read + 1) - 1 = read
  BY TextIs DEF FeederInv
<1> QED
  BY <1>1 DEF Run

LEMMA SectionInRun ==
  ASSUME FeederInv, read < Len(text), NEW k, NEW st, Run(k, st, Len(text)), Line.type \in {"HeaderFlag", "FuncName"}
  PROVE  st[read] = Ready /\ st[read + 1] = Ready /\ ~(Line.type = "HeaderFlag" /\ FamilyOf[Line.arch] = "none")
<1>1. Line = text[read + 1]
  BY DEF Line
<1>2. st[read + 1] \in StatesAfter(read + 1, st[read])
  BY <1>1, RunAtLine DEF Moves, FedBy
<1> QED
  BY <1>1, <1>2 DEF StatesAfter, SectionTypes

LEMMA FedInRun ==
  ASSUME FeederInv, OwnInv, read < Len(text), doFeed \/ call = "trans" \/ Line.type \in SectionTypes,
         NEW k, FedBy(k, read + 1), InRun(k)
  PROVE  /\ FullRun(k) => NextStates(Line) # {}
         /\ \A to \in NextStates(Line) : \A st : Run(k, st, Len(text)) => to = st[read + 1]
<1>1. Line \in Lines
  BY LineIs DEF FeederInv
<1>2. ASSUME NEW st, Run(k, st, Len(text)) PROVE st[read + 1] \in NextStates(Line)
  <2>1. st[read + 1] \in StatesAfter(read + 1, st[read])
    BY <1>2, RunAtLine DEF Moves
  <2>2. st[read] = pstate
    BY <1>2 DEF InRun
  <2> QED
    BY <2>1, <2>2, NextIsAfter
<1> QED
  BY <1>1, <1>2, Deterministic DEF FullRun

LEMMA FedPartRun ==
  ASSUME FeederInv, OwnInv, read < Len(text), doFeed \/ call = "trans" \/ Line.type \in SectionTypes,
         NEW k, FedBy(k, read + 1), PartRun(k), NEW to \in NextStates(Line)
  PROVE  \E st : Run(k, st, read + 1) /\ st[read + 1] = to
<1>1. PICK st : Run(k, st, read) /\ st[read] = pstate
  BY DEF PartRun
<1>2. Moves(k, read + 1, st[read], to)
  BY <1>1, NextIsAfter DEF Moves
<1>3. read \in Nat
  BY TextIs DEF FeederInv
<1> QED
  BY <1>1, <1>2, <1>3, RunOn

\* A line with code or an instruction is fed by next() only if the filter lets
\* its header pass.
LEMMA FedMatches ==
  ASSUME FeederInv, OwnInv, WholeInv, doFeed, read < Len(text), Line.type \in CodeTypes
  PROVE  Matches(read + 1)
<1>1. Introduced(text, read + 1)
  BY LineIs DEF FeederInv
<1>2. ArchRight
  BY TextIs DEF OwnInv, FeederInv
<1>3. arch = text[HeaderOf(read + 1)].arch /\ HeaderOf(read + 1) > 0
  BY <1>1, <1>2, ArchIsHeaders DEF FeederInv
<1> QED
  BY <1>3 DEF WholeInv, Matches

LEMMA ReuseInvInit == Init => ReuseInv
<1> SUFFICES ASSUME Init PROVE ReuseInv
  OBVIOUS
<1>1. PartRun("next")
  BY NoLineYet DEF Init, PartRun
<1> QED
  BY <1>1 DEF Init, ReuseInv, WholeInv

\* Steps that leave the place in the listing alone.
LEMMA ReuseFrame ==
  ASSUME ReuseInv, UNCHANGED <<text, archFilter, read, doFeed, arch, pstate, pass, stale>>,
         thrown' => call' # "none" /\ read < Len(text) /\ pending' = <<>> /\ (stale \/ call' \notin passed'),
         call = "trans" /\ call' # "trans" => read = Len(text),
         call' = "trans" => call = "trans",
         ~stale /\ WholeInv => \A k \in passed' : FullRun(k)
  PROVE  ReuseInv'
<1>1. \A k : (InRun(k)' <=> InRun(k)) /\ (PartRun(k)' <=> PartRun(k)) /\ (FullRun(k)' <=> FullRun(k))
  BY RunPrimes DEF InRun, PartRun
<1>2. (Matches(read + 1))' <=> Matches(read + 1)
  BY SameExpected DEF Matches, HeaderOf, LinesOf
<1>3. ASSUME ~stale PROVE WholeInv'
  <2>1. WholeInv
    BY <1>3 DEF ReuseInv
  <2>2. call' # "trans" /\ read' < Len(text)' => IF doFeed' THEN InRun("next")' ELSE pstate' = Ready
    <3>1. SUFFICES ASSUME call' # "trans", read < Len(text) PROVE IF doFeed THEN InRun("next") ELSE pstate = Ready
      BY <1>1
    <3>2. call # "trans"
      BY <3>1
    <3> QED
      BY <2>1, <3>1, <3>2 DEF WholeInv
  <2>3. \A k \in passed' : FullRun(k)'
    BY <1>1, <1>3, <2>1
  <2>4. call' = "trans" => InRun("trans")' /\ PartRun("trans")'
    BY <1>1, <2>1 DEF WholeInv
  <2>5. pass' = "next" => PartRun("next")'
    BY <1>1, <2>1 DEF WholeInv
  <2>6. doFeed' /\ ~(Matches(read + 1))' => pstate' = Ready \/ read' = Len(text)'
    BY <1>2, <2>1 DEF WholeInv
  <2> QED
    BY <2>1, <2>2, <2>3, <2>4, <2>5, <2>6 DEF WholeInv
<1> QED
  BY <1>3 DEF ReuseInv

LEMMA ReuseRewind ==
  ASSUME FeederInv, ReuseInv, NEW by \in {"next", "trans"}, Rewind(by), call = "none",
         call' = "trans" => by = "trans", UNCHANGED <<thrown, passed>>
  PROVE  ReuseInv'
<1>1. /\ read' = 0 /\ doFeed' = FALSE /\ pass' = by /\ stale' = (stale \/ pstate # Ready)
      /\ UNCHANGED <<text, archFilter, arch, pstate>>
  BY DEF Rewind, input
<1>2. ~thrown'
  BY DEF ReuseInv, FeederInv, TypeOK
<1>3. ASSUME ~stale' PROVE WholeInv'
  <2>1. WholeInv /\ pstate = Ready
    BY <1>1, <1>3 DEF ReuseInv
  <2>2. \A k : PartRun(k)'
    BY <1>1, <2>1, RunPrimes, NoLineYet
  <2>3. \A k : InRun(k)'
    BY <1>1, <2>1, RunPrimes DEF Run
  <2>4. \A k \in passed' : FullRun(k)'
    BY <1>1, <2>1, RunPrimes DEF WholeInv
  <2> QED
    BY <1>1, <2>1, <2>2, <2>3, <2>4 DEF WholeInv
<1> QED
  BY <1>2, <1>3 DEF ReuseInv

\* A line is refused only where no run goes on.
LEMMA ReuseThrow ==
  ASSUME ReuseInv, Throw(Line), call # "none", read < Len(text), pending = <<>>,
         ~stale /\ call \in passed => NextStates(Line) # {}
  PROVE  ReuseInv'
<1>1. UNCHANGED <<text, archFilter, read, doFeed, arch, pstate, pass, stale, call, passed, pending>>
  BY DEF Throw, input, history
<1>2. ~stale => call \notin passed
  BY DEF Throw
<1>3. ~stale /\ WholeInv => \A k \in passed' : FullRun(k)
  BY <1>1 DEF WholeInv
<1> QED
  BY <1>1, <1>2, <1>3, ReuseFrame

\* The part that reading a line of next() has to establish.
LEMMA ReuseOn ==
  ASSUME FeederInv, ReuseInv, ~thrown, call = "next", read' = read + 1, read < Len(text),
         UNCHANGED <<text, archFilter, call, thrown, pass, passed, stale>>,
         ~stale => /\ read' < Len(text) => IF doFeed' THEN InRun("next")' ELSE pstate' = Ready
                   /\ doFeed' => archFilter \in {NoArch, arch'}
                   /\ doFeed' /\ ~(Matches(read + 1))' => pstate' = Ready
                   /\ pass = "next" => PartRun("next")'
  PROVE  ReuseInv'
<1>1. ASSUME ~stale PROVE WholeInv'
  <2>1. \A k \in passed' : FullRun(k)'
    BY <1>1, RunPrimes DEF ReuseInv, WholeInv
  <2> QED
    BY <1>1, <2>1 DEF WholeInv
<1> QED
  BY <1>1 DEF ReuseInv

LEMMA ReuseReadSection == ASSUME FeederInv, OwnInv, ReuseInv, ReadSection PROVE ReuseInv'
<1>1. /\ call = "next" /\ pending = <<>> /\ read < Len(text) /\ ~thrown
      /\ Line.type \in {"HeaderFlag", "FuncName"} /\ Line \in Lines /\ Line.type \in SectionTypes
  BY LineIs DEF ReadSection, Reading, FeederInv, SectionTypes
<1>2. CASE Throw(Line)
  <2>1. ASSUME ~stale, "next" \in passed PROVE NextStates(Line) # {}
    <3>1. WholeInv
      BY <2>1 DEF ReuseInv
    <3>2. PICK st : Run("next", st, Len(text))
      BY <2>1, <3>1 DEF WholeInv, FullRun
    <3>3. st[read] = Ready /\ ~(Line.type = "HeaderFlag" /\ FamilyOf[Line.arch] = "none")
      BY <1>1, <3>2, SectionInRun
    <3>4. pstate = Ready
      BY <1>1, <3>1, <3>2, <3>3 DEF WholeInv, InRun
    <3> QED
      BY <1>1, <3>3, <3>4, SectionNext
  <2> QED
    BY <1>1, <1>2, <2>1, ReuseThrow
<1>3. CASE ~Throw(Line)
  <2>1. PICK to \in NextStates(Line) :
          /\ Feed(Line, to)
          /\ read' = read + 1
          /\ doFeed' = IF Line.type = "HeaderFlag" THEN archFilter \in {NoArch, Line.arch} ELSE doFeed
          /\ UNCHANGED <<input, started, pending, buf, call, thrown, history>>
    BY <1>3 DEF ReadSection
  <2>2. UNCHANGED <<text, archFilter, call, thrown, pass, passed, stale>>
    BY <2>1 DEF input, history
  <2>3. to = Ready /\ pstate' = Ready /\ arch' = IF Line.type = "HeaderFlag" THEN Line.arch ELSE arch
    BY <1>1, <2>1, SectionNext DEF Feed
  <2>4. ASSUME NEW st, Run("next", st, Len(text)) PROVE pstate' = st[read']
    BY <1>1, <2>1, <2>3, <2>4, SectionInRun
  <2>5. InRun("next")'
    BY <2>2, <2>4, RunPrimes
  <2>6. ASSUME ~stale PROVE doFeed' => archFilter \in {NoArch, arch'}
    BY <2>1, <2>3, <2>6 DEF ReuseInv, WholeInv
  <2>7. ASSUME ~stale, pass = "next" PROVE PartRun("next")'
    <3>1. PartRun("next")
      BY <2>7 DEF ReuseInv, WholeInv
    <3>2. FedBy("next", read + 1)
      BY <1>1 DEF FedBy, Line
    <3>3. \E st : Run("next", st, read + 1) /\ st[read + 1] = to
      BY <1>1, <3>1, <3>2, FedPartRun
    <3>4. \E st : Run("next", st, read') /\ st[read'] = pstate'
      BY <2>1, <2>3, <3>3
    <3> QED
      BY <2>2, <3>4, RunPrimes
  <2> QED
    BY <1>1, <2>1, <2>2, <2>3, <2>5, <2>6, <2>7, ReuseOn
<1> QED
  BY <1>2, <1>3

LEMMA ReuseSkip == ASSUME FeederInv, CountInv, ReuseInv, Skip PROVE ReuseInv'
<1>1. /\ call = "next" /\ read < Len(text) /\ ~thrown /\ ~doFeed /\ Line.type \notin {"HeaderFlag", "FuncName"}
      /\ read' = read + 1 /\ UNCHANGED <<text, archFilter, doFeed, pstate, call, thrown, pass, passed, stale>>
  BY DEF Skip, Reading, input, history
<1>2. ASSUME ~stale, pass = "next" PROVE PartRun("next")'
  <2>1. PICK st : Run("next", st, read) /\ st[read] = pstate
    BY <1>2 DEF ReuseInv, WholeInv, PartRun
  <2>2. ~FedBy("next", read + 1)
    BY <1>1, <1>2 DEF FedBy, CountInv, Line
  <2>3. Moves("next", read + 1, st[read], pstate)
    BY <2>1, <2>2 DEF Moves
  <2>4. read \in Nat
    BY TextIs DEF FeederInv
  <2>5. \E s : Run("next", s, read + 1) /\ s[read + 1] = pstate
    BY <2>1, <2>3, <2>4, RunOn
  <2>6. \E s : Run("next", s, read') /\ s[read'] = pstate'
    BY <1>1, <2>5
  <2> QED
    BY <1>1, <2>6, RunPrimes
<1>3. ~stale => pstate = Ready
  BY <1>1 DEF ReuseInv, WholeInv
<1> QED
  BY <1>1, <1>2, <1>3, ReuseOn

LEMMA ReuseReadIns == ASSUME FeederInv, OwnInv, CountInv, ReuseInv, ReadIns PROVE ReuseInv'
<1>1. /\ call = "next" /\ pending = <<>> /\ read < Len(text) /\ ~thrown /\ doFeed
      /\ Line.type \notin {"HeaderFlag", "FuncName"} /\ Line \in Lines
  BY LineIs DEF ReadIns, Reading, FeederInv
<1>2. Line.type \in CodeTypes \/ Line.type = "Others"
  BY <1>1 DEF Lines, LineTypes, CodeTypes, InsTypes
<1>3. ASSUME ~stale PROVE WholeInv /\ InRun("next") /\ (~Matches(read + 1) => Line.type = "Others" /\ pstate = Ready)
  <2>1. WholeInv
    BY <1>3 DEF ReuseInv
  <2>2. InRun("next")
    BY <1>1, <2>1 DEF WholeInv
  <2>3. ASSUME ~Matches(read + 1) PROVE Line.type = "Others"
    BY <1>1, <1>2, <2>1, <2>3, FedMatches
  <2>4. read # Len(text)
    BY <1>1, TextIs DEF FeederInv
  <2>5. ASSUME ~Matches(read + 1) PROVE pstate = Ready
    BY <1>1, <2>1, <2>4, <2>5 DEF WholeInv
  <2> QED
    BY <2>1, <2>2, <2>3, <2>5
<1>4. Matches(read + 1) => FedBy("next", read + 1)
  BY DEF FedBy
<1>5. CASE Throw(Line)
  <2>1. ASSUME ~stale, "next" \in passed PROVE NextStates(Line) # {}
    <3>1. CASE Matches(read + 1)
      <4>1. FullRun("next")
        BY <1>3, <2>1 DEF WholeInv
      <4> QED
        BY <1>1, <1>3, <1>4, <2>1, <3>1, <4>1, FedInRun
    <3>2. CASE ~Matches(read + 1)
      BY <1>1, <1>3, <2>1, <3>2, SectionNext DEF SectionTypes
    <3> QED
      BY <3>1, <3>2
  <2> QED
    BY <1>1, <1>5, <2>1, ReuseThrow
<1>6. CASE ~Throw(Line)
  <2>1. PICK to \in NextStates(Line) :
          /\ Feed(Line, to)
          /\ read' = read + 1
          /\ UNCHANGED <<input, started, doFeed, buf, call, thrown, history>>
    BY <1>6 DEF ReadIns
  <2>2. UNCHANGED <<text, archFilter, doFeed, call, thrown, pass, passed, stale>>
    BY <2>1 DEF input, history
  <2>3. pstate' = to /\ (Line.type # "HeaderFlag" => arch' = arch)
    BY <2>1 DEF Feed
  <2>4. (Matches(read + 1))' <=> Matches(read + 1)
    BY <1>1, <2>1, <2>2, MatchOn DEF FeederInv
  <2>5. Line.type = "Others" => to = Ready
    BY <1>1, SectionNext DEF SectionTypes
  <2>6. ASSUME ~stale PROVE InRun("next")'
    <3>1. ASSUME NEW st, Run("next", st, Len(text)) PROVE to = st[read + 1]
      <4>1. CASE Matches(read + 1)
        BY <1>1, <1>3, <1>4, <2>6, <3>1, <4>1, FedInRun
      <4>2. CASE ~Matches(read + 1)
        <5>1. ~FedBy("next", read + 1)
          BY <1>1, <4>2 DEF FedBy, Line
        <5>2. st[read + 1] = st[read]
          BY <1>1, <3>1, <5>1, RunAtLine DEF Moves
        <5> QED
          BY <1>3, <2>5, <2>6, <3>1, <4>2, <5>2 DEF InRun
      <4> QED
        BY <4>1, <4>2
    <3>2. \A st : Run("next", st, Len(text)) => pstate' = st[read']
      BY <2>1, <2>3, <3>1
    <3> QED
      BY <2>2, <3>2, RunPrimes
  <2>7. ASSUME ~stale, pass = "next" PROVE PartRun("next")'
    <3>1. PartRun("next")
      BY <1>3, <2>7 DEF WholeInv
    <3>2. FedBy("next", read + 1)
      BY <1>1, <1>4, <2>7 DEF CountInv
    <3>3. \E st : Run("next", st, read + 1) /\ st[read + 1] = to
      BY <1>1, <3>1, <3>2, FedPartRun
    <3>4. \E st : Run("next", st, read') /\ st[read'] = pstate'
      BY <2>1, <2>3, <3>3
    <3> QED
      BY <2>2, <3>4, RunPrimes
  <2>8. ASSUME ~stale PROVE archFilter \in {NoArch, arch'}
    BY <1>1, <1>3, <2>3, <2>8 DEF WholeInv
  <2>9. ASSUME ~stale, ~(Matches(read + 1))' PROVE pstate' = Ready
    BY <1>3, <2>3, <2>4, <2>5, <2>9
  <2> QED
    BY <1>1, <2>1, <2>2, <2>6, <2>7, <2>8, <2>9, ReuseOn
<1> QED
  BY <1>5, <1>6

LEMMA ReuseReadTrans == ASSUME FeederInv, OwnInv, ReuseInv, ReadTrans PROVE ReuseInv'
<1>1. call = "trans" /\ read < Len(text) /\ ~thrown /\ ~doFeed /\ pending = <<>> /\ pass = "trans"
  BY DEF ReadTrans, Reading, FeederInv, GroupInv
<1>2. FedBy("trans", read + 1)
  BY DEF FedBy
<1>3. CASE Throw(Line)
  <2>1. ASSUME ~stale, "trans" \in passed PROVE NextStates(Line) # {}
    <3>1. InRun("trans") /\ FullRun("trans")
      BY <1>1, <2>1 DEF ReuseInv, WholeInv
    <3> QED
      BY <1>1, <1>2, <3>1, FedInRun
  <2> QED
    BY <1>1, <1>3, <2>1, ReuseThrow
<1>4. CASE ~Throw(Line)
  <2>1. PICK to \in NextStates(Line) :
          /\ Feed(Line, to)
          /\ read' = read + 1
          /\ UNCHANGED <<input, started, doFeed, pending, call, thrown, pass, passed, stale, asked>>
    BY <1>4 DEF ReadTrans
  <2>2. UNCHANGED <<text, archFilter, doFeed, call, thrown, pass, passed, stale>> /\ pstate' = to
    BY <2>1 DEF input, Feed
  <2>3. ASSUME ~stale PROVE WholeInv'
    <3>1. InRun("trans") /\ PartRun("trans") /\ \A k \in passed : FullRun(k)
      BY <1>1, <2>3 DEF ReuseInv, WholeInv
    <3>2. \A st : Run("trans", st, Len(text)) => to = st[read + 1]
      BY <1>1, <1>2, <3>1, FedInRun
    <3>3. \A st : Run("trans", st, Len(text)) => pstate' = st[read']
      BY <2>1, <2>2, <3>2
    <3>4. \E st : Run("trans", st, read + 1) /\ st[read + 1] = to
      BY <1>1, <1>2, <3>1, FedPartRun
    <3>5. \E st : Run("trans", st, read') /\ st[read'] = pstate'
      BY <2>1, <2>2, <3>4
    <3>6. InRun("trans")' /\ PartRun("trans")' /\ \A k \in passed' : FullRun(k)'
      BY <2>2, <3>1, <3>3, <3>5, RunPrimes
    <3> QED
      BY <1>1, <2>2, <3>6 DEF WholeInv
  <2> QED
    BY <1>1, <2>2, <2>3 DEF ReuseInv
<1> QED
  BY <1>3, <1>4

\* A call that reaches the end of the stream has seen a run of all of it.
LEMMA ReuseEnd == ASSUME FeederInv, ReuseInv, EndNext \/ EndTrans PROVE ReuseInv'
<1>1. /\ UNCHANGED <<text, archFilter, read, doFeed, arch, pstate, pass, stale, thrown>>
      /\ call' = "none" /\ read = Len(text) /\ call \in {"next", "trans"}
      /\ passed' = passed \/ (passed' = passed \cup {call} /\ (call = "trans" \/ pass = "next"))
  BY DEF EndNext, EndTrans, input
<1>2. ~thrown'
  BY <1>1, TextIs DEF ReuseInv, FeederInv
<1>3. ASSUME ~stale, WholeInv PROVE \A k \in passed' : FullRun(k)
  <2>1. ASSUME call = "trans" \/ pass = "next" PROVE FullRun(call)
    <3>1. PartRun(call)
      BY <1>1, <1>3, <2>1 DEF WholeInv
    <3> QED
      BY <1>1, <3>1 DEF PartRun, FullRun
  <2> QED
    BY <1>1, <1>3, <2>1 DEF WholeInv
<1> QED
  BY <1>1, <1>2, <1>3, ReuseFrame

\* extract() stops after a line of a section, where any pass is between groups.
LEMMA ReuseExtract == ASSUME FeederInv, ReuseInv, Extract PROVE ReuseInv'
<1>1. call = "none" /\ pass' = "moved" /\ ~thrown
      /\ UNCHANGED <<text, archFilter, doFeed, arch, pstate, call, thrown, passed, stale>>
  BY DEF Extract, Idle, input, ReuseInv, FeederInv, TypeOK
<1>2. read \in Nat /\ Len(text) \in Nat
  BY TextIs DEF FeederInv
<1>3. CASE read' = Len(text)
  <2>1. ASSUME ~stale PROVE WholeInv'
    <3>1. \A k \in passed' : FullRun(k)'
      BY <1>1, <2>1, RunPrimes DEF ReuseInv, WholeInv
    <3> QED
      BY <1>1, <1>2, <1>3, <2>1, <3>1 DEF ReuseInv, WholeInv
  <2> QED
    BY <1>1, <2>1 DEF ReuseInv
<1>4. CASE read' # Len(text)
  <2>1. read' \in read + 2 .. Len(text) /\ text[read'].type = "FuncName"
    BY <1>4 DEF Extract
  <2>2. read' \in 1..Len(text) /\ read < Len(text) /\ read # Len(text)
    BY <1>2, <2>1
  <2>3. ASSUME ~stale PROVE pstate = Ready
    BY <1>1, <2>2, <2>3 DEF ReuseInv, WholeInv, FeederInv, GroupInv
  <2>4. ASSUME NEW st, Run("next", st, Len(text)) PROVE st[read'] = Ready
    <3>1. Moves("next", read', st[read' - 1], st[read'])
      BY <2>2, <2>4 DEF Run
    <3>2. st[read'] \in StatesAfter(read', st[read' - 1])
      BY <2>1, <3>1 DEF Moves, FedBy
    <3> QED
      BY <2>1, <3>2 DEF StatesAfter, SectionTypes
  <2>5. ASSUME ~stale PROVE WholeInv'
    <3>1. \A st : Run("next", st, Len(text)) => pstate' = st[read']
      BY <1>1, <2>3, <2>4, <2>5
    <3>2. InRun("next")' /\ \A k \in passed' : FullRun(k)'
      BY <1>1, <2>5, <3>1, RunPrimes DEF ReuseInv, WholeInv
    <3> QED
      BY <1>1, <2>3, <2>5, <3>2 DEF ReuseInv, WholeInv
  <2> QED
    BY <1>1, <2>5 DEF ReuseInv
<1> QED
  BY <1>3, <1>4

LEMMA ReuseInvStep == FeederInv /\ OwnInv /\ CountInv /\ ReuseInv /\ [Next]_vars => ReuseInv'
<1> SUFFICES ASSUME FeederInv, OwnInv, CountInv, ReuseInv, [Next]_vars PROVE ReuseInv'
  OBVIOUS
<1> USE DEF ReuseInv
<1>1. CASE UNCHANGED vars
  <2>1. UNCHANGED <<text, archFilter, read, doFeed, arch, pstate, pass, stale, thrown, call, pending, passed>>
    BY <1>1 DEF vars, object, input, history
  <2>2. ~stale /\ WholeInv => \A k \in passed' : FullRun(k)
    BY <2>1 DEF WholeInv
  <2> QED
    BY <2>1, <2>2, ReuseFrame
<1>2. CASE Restart \/ CallTrans
  <2>1. CASE Restart
    BY <2>1, ReuseRewind DEF Restart, Idle
  <2>2. CASE CallTrans
    BY <2>2, ReuseRewind DEF CallTrans, Idle
  <2> QED
    BY <1>2, <2>1, <2>2
<1>3. CASE CallNext
  <2>1. call = "none" /\ call' = "next" /\ UNCHANGED <<thrown, passed>> /\ (~started => Rewind("next"))
    BY <1>3 DEF CallNext, Idle
  <2>2. CASE started
    <3>1. UNCHANGED <<text, archFilter, read, doFeed, arch, pstate, pass, stale>>
      BY <1>3, <2>2 DEF CallNext, input
    <3>2. ~thrown' /\ (~stale /\ WholeInv => \A k \in passed' : FullRun(k))
      BY <2>1 DEF WholeInv
    <3> QED
      BY <2>1, <3>1, <3>2, ReuseFrame
  <2>3. CASE ~started
    BY <2>1, <2>3, ReuseRewind
  <2> QED
    BY <2>2, <2>3
<1>4. CASE Deliver
  <2>1. /\ UNCHANGED <<text, archFilter, read, doFeed, arch, pstate, pass, stale, thrown, passed>>
        /\ call = "next" /\ call' = "none" /\ pending # <<>>
    BY <1>4 DEF Deliver, input
  <2>2. ~thrown' /\ (~stale /\ WholeInv => \A k \in passed' : FullRun(k))
    BY <2>1 DEF WholeInv
  <2> QED
    BY <2>1, <2>2, ReuseFrame
<1> QED
  BY <1>1, <1>2, <1>3, <1>4, ReuseReadSection, ReuseSkip, ReuseReadIns, ReuseReadTrans, ReuseEnd, ReuseExtract DEF Next

\* A call that has read the whole stream once does not throw on it later, in
\* whatever order next(), trans(), extract() and restart() are called, as long
\* as no pass is begun in the middle of a group.
THEOREM FeederCanBeReused == Spec => []ReuseNeverThrowsIfWhole
<1>1. Init => FeederInv /\ OwnInv /\ CountInv /\ ReuseInv
  BY FeederInvInit, OwnInvInit, CountInvInit, ReuseInvInit
<1>2. FeederInv /\ OwnInv /\ CountInv /\ ReuseInv /\ [Next]_vars => (FeederInv /\ OwnInv /\ CountInv /\ ReuseInv)'
  BY FeederInvStep, OwnInvStep, CountInvStep, ReuseInvStep
<1>3. ReuseInv => ReuseNeverThrowsIfWhole
  BY DEF ReuseInv, ReuseNeverThrowsIfWhole, ReuseNeverThrows
<1> QED
  BY <1>1, <1>2, <1>3, PTL DEF Spec

=============================================================================
