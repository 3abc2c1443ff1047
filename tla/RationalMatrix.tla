---------------------------- MODULE RationalMatrix ----------------------------
(***************************************************************************)
(* RationalMatrix (CuAsm/utils): the exact linear algebra the instruction  *)
(* assembler learns with.  A rational is a pair <<numerator, denominator>> *)
(* in lowest terms, a matrix a sequence of rows.                           *)
(***************************************************************************)
EXTENDS Integers, Sequences, SequencesExt, FiniteSetsExt

Abs(n) == IF n < 0 THEN -n ELSE n
Gcd(a, b) ==
  LET gcd[m \in Nat, n \in Nat] == IF n = 0 THEN m ELSE gcd[n, m % n]
  IN  gcd[Abs(a), Abs(b)]
Lcm(a, b) == Abs(a * b) \div Gcd(a, b)

Frac(n, d) ==
  LET g == Gcd(n, d)
  IN  IF d < 0 THEN <<(-n) \div g, (-d) \div g>> ELSE <<n \div g, d \div g>>
Rat(n) == <<n, 1>>
Zero == Rat(0)
Minus(x, y) == Frac(x[1] * y[2] - y[1] * x[2], x[2] * y[2])
Times(x, y) == Frac(x[1] * y[1], x[2] * y[2])
Over(x, y) == Frac(x[1] * y[2], x[2] * y[1])

\* The sequence of entry(1), ..., entry(n).  (Concatenation makes TLC evaluate
\* each entry once; of a function alone it does so at every application.)
Vector(n, entry(_)) == <<>> \o [j \in 1..n |-> entry(j)]

Dot(v, w) == FoldLeft(LAMBDA sum, i : sum + v[i] * w[i], 0, [i \in 1..Len(v) |-> i])
(* rref: Gauss-Jordan elimination that looks for pivots in the first limit *)
(* columns only.                                                           *)
EliminateColumn(e, c) ==
  LET r == Len(e.pivots) + 1
      candidates == {i \in r..Len(e.m) : e.m[i][c] # Zero}
      piv == Min(candidates)
      swapped == [e.m EXCEPT ![r] = e.m[piv], ![piv] = e.m[r]]
      row == Vector(Len(swapped[r]), LAMBDA j : Over(swapped[r][j], swapped[r][c]))
      reduced(i) == Vector(Len(row), LAMBDA j : Minus(swapped[i][j], Times(swapped[i][c], row[j])))
  IN  IF candidates = {} THEN e
      ELSE [m |-> Vector(Len(e.m), LAMBDA i : IF i = r THEN row ELSE reduced(i)),
            pivots |-> Append(e.pivots, c)]

Rref(m, limit) ==
  FoldLeft(EliminateColumn, [m |-> m, pivots |-> <<>>], [c \in 1..limit |-> c])

\* solve: the solution with the free variables zero; <<>> where the code throws.
Solve(lhs, rhs) ==
  LET cols == Len(lhs[1])
      e == Rref([i \in 1..Len(lhs) |-> Append(lhs[i], rhs[i])], cols)
      rank == Len(e.pivots)
      rowOf(j) == {k \in 1..rank : e.pivots[k] = j}
  IN  IF \E i \in rank + 1 .. Len(lhs) : e.m[i][cols + 1] # Zero THEN <<>>
      ELSE Vector(cols, LAMBDA j : IF rowOf(j) = {} THEN Zero ELSE e.m[Min(rowOf(j))][cols + 1])

\* nullspace: one vector for each column without a pivot.
Nullspace(m) ==
  LET cols == Len(m[1])
      e == Rref(m, cols)
      free == SetToSortSeq({c \in 1..cols : c \notin ToSet(e.pivots)}, <)
      rowOf(j) == Min({k \in 1..Len(e.pivots) : e.pivots[k] = j})
      vector(f) == Vector(cols, LAMBDA j :
        IF j = f THEN Rat(1)
        ELSE IF j \in ToSet(e.pivots) THEN Minus(Zero, e.m[rowOf(j)][f]) ELSE Zero)
  IN  Vector(Len(free), LAMBDA k : vector(free[k]))

\* matrixDenomLCM and scaleToIntegerMatrix.
DenomLCM(v) == FoldLeft(LAMBDA l, x : Lcm(l, x[2]), 1, v)
Scaled(v, factor) == Vector(Len(v), LAMBDA j : v[j][1] * (factor \div v[j][2]))

\* nullSpaceMatrixOf: integer rows, all scaled by the same factor.
ScaledRows(rows, factor) == Vector(Len(rows), LAMBDA k : Scaled(rows[k], factor))
IntegerRows(rows) == ScaledRows(rows, DenomLCM(FlattenSeq(rows)))
NullMatrix(m) == IntegerRows(Nullspace(m))
===============================================================================
