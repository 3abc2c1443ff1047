---------------------------- MODULE CuInsAssembler ----------------------------
(***************************************************************************)
(* CuInsAssembler: learns the encoding of one kind of instruction from     *)
(* samples.  The code of an instruction is taken for a linear function of  *)
(* its values and of a 0/1 column for each modifier seen so far; samples   *)
(* that no combination of the learned ones gives are learned, the others   *)
(* are verified against the solution and recorded when they differ.        *)
(*                                                                         *)
(* A sample is a record with the parsed values and modifiers of an         *)
(* instruction and its code; it stands for its record (address, code and   *)
(* text) too.  The text of the records is left out.                        *)
(***************************************************************************)
EXTENDS RationalMatrix

Fresh ==
  [modiSet |-> <<>>,   \* modifiers in the order of their columns
   repos   |-> <<>>,   \* learned samples, also m_InsRecords
   psol    |-> <<>>, psolFac |-> 1,   \* the solution is psol / psolFac
   nullMat |-> <<>>,
   errs    |-> <<>>]   \* samples that conflict, by the difference of the codes

Known(asm, s) == ToSet(s.modi) \subseteq ToSet(asm.modiSet)

\* Mutant: the values come before the modifiers.
ValVecSwapped(asm, s) ==
  s.vals \o [k \in 1..Len(asm.modiSet) |-> IF asm.modiSet[k] \in ToSet(s.modi) THEN 1 ELSE 0]

\* buildInsValVec.
ValVec(asm, s) ==
  [k \in 1..Len(asm.modiSet) |-> IF asm.modiSet[k] \in ToSet(s.modi) THEN 1 ELSE 0] \o s.vals

\* Mutant: one free variable is enough to look at.
InBasisFirst(asm, s) == asm.nullMat # <<>> => Dot(asm.nullMat[1], ValVec(asm, s)) = 0

InBasis(asm, s) == \A k \in 1..Len(asm.nullMat) : Dot(asm.nullMat[k], ValVec(asm, s)) = 0

CanAssemble(asm, s) == Known(asm, s) /\ InBasis(asm, s)

\* Floor division, as the code's.
BuildCode(asm, s) ==
  LET start == Len(asm.psol) - Len(s.vals)
      column(m) == Min({k \in 1..Len(asm.modiSet) : asm.modiSet[k] = m})
      ofVals == Dot(s.vals, SubSeq(asm.psol, start + 1, Len(asm.psol)))
      ofModi == FoldLeft(LAMBDA sum, m : sum + asm.psol[column(m)], 0, s.modi)
  IN  (ofVals + ofModi) \div asm.psolFac

\* expandModiSet.
Expanded(modiSet, modi) ==
  FoldLeft(LAMBDA set, m : IF m \in ToSet(set) THEN set ELSE Append(set, m), modiSet, modi)

Rats(v) == Vector(Len(v), LAMBDA j : Rat(v[j]))

\* The null space's rows, with a zero on the right, make the solution unique.
SolutionOf(asm, values) ==
  Solve([k \in 1..Len(asm.nullMat) |-> Rats(asm.nullMat[k])] \o values,
        [k \in 1..Len(asm.nullMat) |-> Zero] \o [i \in 1..Len(asm.repos) |-> Rat(asm.repos[i].code)])

Scale(asm, sol, factor) == [asm EXCEPT !.psol = Scaled(sol, factor), !.psolFac = factor]
SetSolution(asm, sol) == Scale(asm, sol, DenomLCM(sol))
SolveFor(asm, values) == SetSolution(asm, SolutionOf(asm, values))
SetMatrix(asm, values) == SolveFor([asm EXCEPT !.nullMat = NullMatrix(values)], values)

\* buildMatrix.  (Its intermediate results are arguments, which TLC evaluates once.)
BuildMatrix(asm) == SetMatrix(asm, Vector(Len(asm.repos), LAMBDA i : Rats(ValVec(asm, asm.repos[i]))))

Learn(asm, s) ==
  BuildMatrix([asm EXCEPT !.modiSet = Expanded(asm.modiSet, s.modi), !.repos = Append(@, s)])

WithErr(errs, key, s) == [k \in DOMAIN errs \cup {key} |-> IF k = key THEN s ELSE errs[k]]

\* Mutant: the sample is learned again, with its new code.
VerifyRelearning(asm, s) ==
  IF Dot(asm.psol, ValVec(asm, s)) = s.code * asm.psolFac THEN asm
  ELSE BuildMatrix([asm EXCEPT !.repos[Len(asm.repos)] = s])

\* push, of a sample the basis gives: a known conflict is not recorded again,
\* and one whose code is no integer is recorded under its own code.
Verify(asm, s) ==
  LET scaled == Dot(asm.psol, ValVec(asm, s))
      key == IF scaled % asm.psolFac = 0 THEN scaled \div asm.psolFac - s.code ELSE s.code
  IN  IF scaled = s.code * asm.psolFac \/ (scaled % asm.psolFac = 0 /\ key \in DOMAIN asm.errs) THEN asm
      ELSE [asm EXCEPT !.errs = WithErr(@, key, s)]

Push(asm, s) == IF CanAssemble(asm, s) THEN Verify(asm, s) ELSE Learn(asm, s)

\* Mutant: the conflicts come first.
RecordsErrsFirst(asm) ==
  [k \in 1..Cardinality(DOMAIN asm.errs) |-> asm.errs[SetToSortSeq(DOMAIN asm.errs, <)[k]]] \o asm.repos

\* iterRecords.  The order of the conflicts does not matter: none is learned.
Records(asm) ==
  asm.repos \o [k \in 1..Cardinality(DOMAIN asm.errs) |-> asm.errs[SetToSortSeq(DOMAIN asm.errs, <)[k]]]

PushAll(asm, samples) == FoldLeft(Push, asm, samples)
===============================================================================
