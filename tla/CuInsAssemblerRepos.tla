------------------------- MODULE CuInsAssemblerRepos --------------------------
(***************************************************************************)
(* CuInsAssemblerRepos, at one instruction key (the keys do not influence  *)
(* each other: every operation does the same at each): a repository that   *)
(* is updated from listings, merged with others, rebuilt, completed with   *)
(* guarded variants, and that assembles.                                   *)
(***************************************************************************)
EXTENDS CuInsAssembler

CONSTANTS Samples,            \* what the repository may be updated with
          Others,             \* other repositories, as what they were fed
          Inputs,             \* instructions somebody may want to assemble
          NoGuard,            \* value of the guard predicate PT
          GuardPos,           \* weight of the lowest bit of the guard's field
          GuardSize,          \* number of values of the field
          TrueCode(_)         \* the encoding the hardware has

Guard(s) == s.vals[1]

ASSUME SampleAssumption ==
  \A s \in Samples \cup UNION {ToSet(o) : o \in Others} :
    /\ s.code \in Nat /\ s.modi # <<>> /\ Len(s.vals) > 0
    /\ Guard(s) = (s.code \div GuardPos) % GuardSize

VARIABLE asm

Init == asm = Fresh

\* One record of update(); its parsed modifiers begin with the opcode, so a
\* fresh assembler always learns its first sample.
Update(s) == asm' = Push(asm, s)

Other(o) == PushAll(Fresh, o)

\* mergeFrom: the other's records, then its conflicts, are pushed.
Merged(a, other) == PushAll(a, Records(other))

Merge(o) == asm' = Merged(asm, Other(o))

\* rebuild, with the parser that read the records before.
Rebuilt(a) == PushAll(Fresh, Records(a))

Rebuild == asm' = Rebuilt(asm)

\* genPredCode: the text with @P0, and the code with the guard's bits cleared.
Guarded(s) ==
  [s EXCEPT !.vals[1] = 0, !.code = @ - GuardPos * ((@ \div GuardPos) % GuardSize)]

\* Mutant: the last record is taken.
PredRecordsLast(a) ==
  IF a.repos # <<>> /\ Guard(Last(a.repos)) = NoGuard THEN <<Guarded(Last(a.repos))>> ELSE <<>>

\* genPredRecords: of the first record, unless it has a guard.
PredRecords(a) ==
  IF a.repos # <<>> /\ Guard(a.repos[1]) = NoGuard THEN <<Guarded(a.repos[1])>> ELSE <<>>

Completed(a) == PushAll(a, PredRecords(a))

CompletePredCodes == asm' = Completed(asm)

ClearErrRecords == asm' = [asm EXCEPT !.errs = <<>>]

Next ==
  \/ \E s \in Samples : Update(s)
  \/ \E o \in Others : Merge(o)
  \/ Rebuild
  \/ CompletePredCodes
  \/ ClearErrRecords

Spec == Init /\ [][Next]_asm

-------------------------------------------------------------------------------
(***************************************************************************)
(* Linear algebra by determinants, for reference.                          *)
(***************************************************************************)
Orders(k) == {f \in [1..k -> 1..k] : \A i, j \in 1..k : i # j => f[i] # f[j]}
Sign(f) == IF Cardinality({p \in (DOMAIN f) \X (DOMAIN f) : p[1] < p[2] /\ f[p[1]] > f[p[2]]}) % 2 = 0
             THEN 1 ELSE -1
Product(v) == FoldLeft(LAMBDA x, y : x * y, 1, v)
Det(m, cols) ==
  LET k == Len(m)
      sorted == SetToSortSeq(cols, <)
  IN  MapThenSumSet(LAMBDA f : Sign(f) * Product([i \in 1..k |-> m[i][sorted[f[i]]]]), Orders(k))
Independent(rows) ==
  rows # <<>> => \E cols \in kSubset(Len(rows), 1..Len(rows[1])) : Det(rows, cols) # 0

Learned == Vector(Len(asm.repos), LAMBDA i : ValVec(asm, asm.repos[i]))

\* canAssemble's basis test is exact: an instruction is accepted when its
\* vector is a rational combination of the learned ones, and only then.
AcceptsSpan ==
  asm # Fresh => \A i \in Inputs : Known(asm, i) =>
    (CanAssemble(asm, i) <=> ~Independent(Append(Learned, ValVec(asm, i))))

\* A repository whose learned samples are right assembles every instruction
\* it accepts to its true code, fractions in the solution notwithstanding.
AssemblesTruth ==
  (\A k \in 1..Len(asm.repos) : asm.repos[k].code = TrueCode(asm.repos[k])) =>
    \A i \in Inputs : CanAssemble(asm, i) => BuildCode(asm, i) = TrueCode(i)

\* What a repository can assemble it can assemble for good, to the same code,
\* whatever it is updated, merged, completed or rebuilt with.
LearnedStays ==
  [][\A i \in Inputs : CanAssemble(asm, i) =>
       CanAssemble(asm', i) /\ BuildCode(asm', i) = BuildCode(asm, i)]_asm

\* Replaying records loses nothing: rebuilding with an unchanged parser gives the
\* repository again, conflicts included, and whatever merges another repository
\* can assemble all the other could.
ReplayLosesNothing ==
  /\ Rebuilt(asm) = asm
  /\ \A o \in Others, i \in Inputs :
       CanAssemble(Other(o), i) => CanAssemble(Merged(asm, Other(o)), i)

\* completePredCodes: when the first sample has no guard, every instruction
\* that assembles without a guard assembles under one.
PredCompletes ==
  asm # Fresh /\ Guard(asm.repos[1]) = NoGuard =>
    \A i \in Inputs : Guard(i) = NoGuard /\ CanAssemble(asm, i) =>
      CanAssemble(Completed(asm), [i EXCEPT !.vals[1] = 0])
===============================================================================
