--------------------------- MODULE ScoreboardProofs ---------------------------
(***************************************************************************)
(* The hazard graph: the dataflow pass finds exactly the dependences of    *)
(* the forward paths, and all edges go forward.                            *)
(*                                                                         *)
(* The scoreboard walk decides Open: whatever the control codes, the queue *)
(* contents, the retired producers and the violations are at every step    *)
(* the ones the declarative Waited and Open give for the prefix walked.    *)
(* verify-cc and correct-cc instantiate it with their own codes.  Then     *)
(* what closed edges are for: a warp on straight-line code that meets no   *)
(* hazard.                                                                 *)
(***************************************************************************)
EXTENDS Warp, WellFoundedInduction, TLAPS

-----------------------------------------------------------------------------
\* The hazard graph.

ForwardEdges == \A e \in edges : e.from < e.to

ReachingEarlier ==
  \A i \in Ins, r \in Regs : writeOut[i][r] \subseteq 1..i /\ readOut[i][r] \subseteq 1..i

GraphInv == GraphTypeOK /\ ReachingEarlier /\ ForwardEdges

LEMMA InsFacts == Ins \subseteq Nat /\ N \in Ins /\ 1 \in Ins
  BY KernelAssumption DEF Ins

\* What reaches the start of instruction i was issued before it.
LEMMA ReachingInputs ==
  ASSUME GraphTypeOK, ReachingEarlier, NEW i \in Ins, NEW r \in Regs
  PROVE  /\ WriteIn(i, r) \subseteq 1..(i - 1) /\ WriteIn(i, r) \subseteq Ins
         /\ ReadIn(i, r) \subseteq 1..(i - 1) /\ ReadIn(i, r) \subseteq Ins
<1>1. ASSUME NEW p \in Preds(i) PROVE p \in Ins /\ p < i
  BY <1>1 DEF Preds
<1>2. ASSUME NEW x \in WriteIn(i, r) PROVE x \in 1..(i - 1) /\ x \in Ins
  <2>1. PICK p \in Preds(i) : x \in writeOut[p][r]
    BY <1>2 DEF WriteIn
  <2>2. p \in Ins /\ p < i /\ x \in 1..p /\ x \in Ins
    BY <2>1, <1>1 DEF ReachingEarlier, GraphTypeOK
  <2>3. QED
    BY <2>2, InsFacts
<1>3. ASSUME NEW x \in ReadIn(i, r) PROVE x \in 1..(i - 1) /\ x \in Ins
  <2>1. PICK p \in Preds(i) : x \in readOut[p][r]
    BY <1>3 DEF ReadIn
  <2>2. p \in Ins /\ p < i /\ x \in 1..p /\ x \in Ins
    BY <2>1, <1>1 DEF ReachingEarlier, GraphTypeOK
  <2>3. QED
    BY <2>2, InsFacts
<1>4. QED
  BY <1>2, <1>3

\* The edges a visit adds are well formed and forward.
LEMMA NewEdges ==
  ASSUME GraphTypeOK, ReachingEarlier, NEW i \in Ins
  PROVE  EdgesInto(i) \subseteq EdgeSet /\ \A e \in EdgesInto(i) : e.from < e.to
<1>1. SUFFICES ASSUME NEW e \in EdgesInto(i) PROVE e \in EdgeSet /\ e.from < e.to
  OBVIOUS
<1>2. PICK r \in Regs : \E p \in WriteIn(i, r) \cup ReadIn(i, r) :
        \E t \in {"RAW", "WAW", "WAR"} : e = Edge(p, i, t, r)
  BY <1>1 DEF EdgesInto
<1>3. PICK p \in WriteIn(i, r) \cup ReadIn(i, r) : \E t \in {"RAW", "WAW", "WAR"} : e = Edge(p, i, t, r)
  BY <1>2
<1>4. p \in Ins /\ p \in 1..(i - 1)
  BY <1>3, ReachingInputs
<1>5. QED
  BY <1>3, <1>4, InsFacts DEF Edge, EdgeSet

LEMMA GraphInvInit == ASSUME NEW k \in Kernels, GraphInit(k.prog) PROVE GraphInv
<1>1. k.prog \in [Ins -> Instr]
  BY KernelAssumption
<1>2. GraphTypeOK
  BY <1>1, KernelAssumption DEF GraphInit, GraphTypeOK, NoReaching, Built, Thrown
<1>3. QED
  BY <1>2 DEF GraphInit, GraphInv, ReachingEarlier, ForwardEdges, NoReaching

LEMMA GraphInvStep == GraphInv /\ [GraphNext]_graphVars => GraphInv'
<1>1. SUFFICES ASSUME GraphInv, [GraphNext]_graphVars PROVE GraphInv'
  OBVIOUS
<1>2. CASE ResolveFlow
  BY <1>1, <1>2, KernelAssumption
     DEF ResolveFlow, GraphInv, GraphTypeOK, ReachingEarlier, ForwardEdges, Thrown, Built, Ins
<1>3. CASE Visit
  <2> DEFINE w == [r \in Regs |-> IF Writes(prog[at], r) THEN {at} ELSE WriteIn(at, r)]
             d == [r \in Regs |-> IF Writes(prog[at], r) THEN {}
                                  ELSE ReadIn(at, r) \cup {i \in {at} : Reads(prog[at], r)}]
  <2>1. /\ at \in Ins /\ at' = at + 1 /\ prog' = prog
        /\ writeOut' = [writeOut EXCEPT ![at] = w]
        /\ readOut' = [readOut EXCEPT ![at] = d]
        /\ edges' = edges \cup EdgesInto(at)
    BY <1>3 DEF Visit
  <2>2. GraphTypeOK /\ ReachingEarlier /\ ForwardEdges
    BY <1>1 DEF GraphInv
  <2>3. \A r \in Regs : /\ w[r] \subseteq 1..at /\ w[r] \subseteq Ins
                        /\ d[r] \subseteq 1..at /\ d[r] \subseteq Ins
    <3> SUFFICES ASSUME NEW r \in Regs
                 PROVE  /\ w[r] \subseteq 1..at /\ w[r] \subseteq Ins
                        /\ d[r] \subseteq 1..at /\ d[r] \subseteq Ins
      OBVIOUS
    <3>1. at \in 1..at /\ 1..(at - 1) \subseteq 1..at
      BY <2>1, InsFacts DEF Ins
    <3>2. QED
      BY <2>1, <2>2, <3>1, ReachingInputs
  <2>4. w \in [Regs -> SUBSET Ins] /\ d \in [Regs -> SUBSET Ins]
    BY <2>3
  <2>5. GraphTypeOK'
    <3>1. edges' \subseteq EdgeSet
      BY <2>1, <2>2, NewEdges DEF GraphTypeOK
    <3>2. at' \in {Thrown} \cup 0..Built
      BY <2>1, KernelAssumption DEF Built, Ins
    <3> HIDE DEF w, d
    <3>3. QED
      BY <2>1, <2>2, <2>4, <3>1, <3>2 DEF GraphTypeOK
  <2>6. ReachingEarlier'
    <3> HIDE DEF w, d
    <3>1. QED
      BY <2>1, <2>2, <2>3 DEF ReachingEarlier, GraphTypeOK
  <2>7. ForwardEdges'
    BY <2>1, <2>2, NewEdges DEF ForwardEdges
  <2>8. QED
    BY <2>5, <2>6, <2>7 DEF GraphInv
<1>4. CASE UNCHANGED graphVars
  BY <1>1, <1>4 DEF graphVars, GraphInv, GraphTypeOK, ReachingEarlier, ForwardEdges
<1>5. QED
  BY <1>1, <1>2, <1>3, <1>4 DEF GraphNext

-------------------------------------------------------------------------------
(***************************************************************************)
(* The dataflow computes the path relation exactly.                        *)
(***************************************************************************)

Unwritten(p, i, r) == {k \in Ins : p < k /\ k < i /\ ~Writes(prog[k], r)}

\* A path into i ends with a step from a predecessor of i.
LEMMA PathSplit ==
  ASSUME NEW i \in Ins, NEW p \in Ins, NEW r \in Regs
  PROVE  ReachesUnwritten(p, i, r) <=>
           \E m \in Preds(i) : m = p \/ (~Writes(prog[m], r) /\ ReachesUnwritten(p, m, r))
<1>1. ASSUME ReachesUnwritten(p, i, r)
      PROVE  \E m \in Preds(i) : m = p \/ (~Writes(prog[m], r) /\ ReachesUnwritten(p, m, r))
  <2>1. PICK S \in SUBSET Unwritten(p, i, r) : IsPath(S, p, i)
    BY <1>1 DEF ReachesUnwritten, Unwritten
  <2>2. PICK m \in S \cup {p} : m < i /\ i \in Successors(prog, m) /\ \A z \in S : ~(m < z /\ z < i)
    BY <2>1 DEF IsPath
  <2>3. m \in Ins /\ m \in Preds(i)
    BY <2>1, <2>2 DEF Preds, Unwritten
  <2>4. CASE m = p
    BY <2>3, <2>4
  <2>5. CASE m # p
    <3>1. m \in S /\ ~Writes(prog[m], r) /\ p < m
      BY <2>1, <2>2, <2>5 DEF Unwritten
    <3>2. \A z \in S : z <= m
      BY <2>1, <2>2, <2>3, InsFacts DEF Unwritten
    <3>3. S \ {m} \in SUBSET Unwritten(p, m, r)
      BY <2>1, <2>3, <3>2, InsFacts DEF Unwritten
    <3>4. IsPath(S \ {m}, p, m)
      <4> SUFFICES ASSUME NEW y \in (S \ {m}) \cup {m}
                   PROVE  \E x \in (S \ {m}) \cup {p} :
                            /\ x < y
                            /\ y \in Successors(prog, x)
                            /\ \A z \in S \ {m} : ~(x < z /\ z < y)
        BY DEF IsPath
      <4>1. y \in S
        BY <3>1
      <4>2. PICK x \in S \cup {p} : x < y /\ y \in Successors(prog, x) /\ \A z \in S : ~(x < z /\ z < y)
        BY <2>1, <4>1 DEF IsPath
      <4>3. x # m
        <5>1. y <= m /\ y \in Nat /\ m \in Nat
          BY <2>1, <2>3, <3>2, <4>1, InsFacts DEF Unwritten
        <5>2. QED
          BY <4>2, <5>1
      <4>4. QED
        BY <4>2, <4>3
    <3>5. ReachesUnwritten(p, m, r)
      BY <3>3, <3>4 DEF ReachesUnwritten, Unwritten
    <3>6. QED
      BY <2>3, <3>1, <3>5
  <2>6. QED
    BY <2>4, <2>5
<1>2. ASSUME NEW m \in Preds(i), m = p \/ (~Writes(prog[m], r) /\ ReachesUnwritten(p, m, r))
      PROVE  ReachesUnwritten(p, i, r)
  <2>1. m \in Ins /\ m < i /\ i \in Successors(prog, m)
    BY <1>2 DEF Preds
  <2>2. CASE m = p
    <3>1. IsPath({}, p, i)
      BY <2>1, <2>2 DEF IsPath
    <3>2. QED
      BY <3>1 DEF ReachesUnwritten
  <2>3. CASE m # p
    <3>1. PICK S \in SUBSET Unwritten(p, m, r) : IsPath(S, p, m)
      BY <1>2, <2>3 DEF ReachesUnwritten, Unwritten
    <3>2. p < m
      <4>1. PICK x \in S \cup {p} : x < m
        BY <3>1 DEF IsPath
      <4>2. QED
        BY <2>1, <3>1, <4>1, InsFacts DEF Unwritten
    <3>3. S \cup {m} \in SUBSET Unwritten(p, i, r)
      BY <1>2, <2>1, <2>3, <3>1, <3>2, InsFacts DEF Unwritten
    <3>4. IsPath(S \cup {m}, p, i)
      <4> SUFFICES ASSUME NEW y \in (S \cup {m}) \cup {i}
                   PROVE  \E x \in (S \cup {m}) \cup {p} :
                            /\ x < y
                            /\ y \in Successors(prog, x)
                            /\ \A z \in S \cup {m} : ~(x < z /\ z < y)
        BY DEF IsPath
      <4>0. \A z \in S : z < m /\ z \in Nat
        BY <3>1, InsFacts DEF Unwritten
      <4>1. CASE y = i
        <5>1. \A z \in S \cup {m} : ~(m < z /\ z < y)
          BY <2>1, <4>0, InsFacts
        <5>2. QED
          BY <2>1, <4>1, <5>1
      <4>2. CASE y \in S \cup {m}
        <5>1. PICK x \in S \cup {p} : x < y /\ y \in Successors(prog, x) /\ \A z \in S : ~(x < z /\ z < y)
          BY <3>1, <4>2 DEF IsPath
        <5>2. ~(m < y)
          BY <2>1, <4>0, <4>2, InsFacts
        <5>3. QED
          BY <5>1, <5>2
      <4>3. QED
        BY <4>1, <4>2
    <3>5. QED
      BY <3>3, <3>4 DEF ReachesUnwritten, Unwritten
  <2>4. QED
    BY <2>2, <2>3
<1>3. QED
  BY <1>1, <1>2

\* The accesses of kind A(p, r) that reach the end of k, in terms of paths.
ExactWriteOut ==
  \A k \in Ins, r \in Regs : k < at =>
    writeOut[k][r] = {p \in Ins : Writes(prog[p], r) /\
      (p = k \/ (~Writes(prog[k], r) /\ ReachesUnwritten(p, k, r)))}

ExactReadOut ==
  \A k \in Ins, r \in Regs : k < at =>
    readOut[k][r] = {p \in Ins : Reads(prog[p], r) /\ ~Writes(prog[p], r) /\
      (p = k \/ (~Writes(prog[k], r) /\ ReachesUnwritten(p, k, r)))}

ExactEdges == edges = {e \in EdgeSet : e.to < at /\ Depends(e)}

ExactInv == GraphInv /\ ExactWriteOut /\ ExactReadOut /\ ExactEdges

LEMMA ReachesEarlier ==
  ASSUME NEW i \in Ins, NEW p \in Ins, NEW r \in Regs, ReachesUnwritten(p, i, r)
  PROVE  p < i
<1>1. PICK S \in SUBSET Unwritten(p, i, r) : IsPath(S, p, i)
  BY DEF ReachesUnwritten, Unwritten
<1>2. PICK x \in S \cup {p} : x < i
  BY <1>1 DEF IsPath
<1>3. QED
  BY <1>1, <1>2, InsFacts DEF Unwritten

\* What reaches the start of i is what a path brings there.
LEMMA ExactInputs ==
  ASSUME GraphTypeOK, ExactWriteOut, ExactReadOut, at \in Ins, NEW r \in Regs
  PROVE  /\ WriteIn(at, r) = {p \in Ins : Writes(prog[p], r) /\ ReachesUnwritten(p, at, r)}
         /\ ReadIn(at, r) = {p \in Ins : Reads(prog[p], r) /\ ~Writes(prog[p], r)
                                         /\ ReachesUnwritten(p, at, r)}
<1>1. \A m \in Preds(at) : m \in Ins /\ m < at
  BY DEF Preds
<1>2. ASSUME NEW p \in Ins, Writes(prog[p], r)
      PROVE  p \in WriteIn(at, r) <=> ReachesUnwritten(p, at, r)
  <2>1. p \in WriteIn(at, r) <=> \E m \in Preds(at) : p \in writeOut[m][r]
    BY DEF WriteIn
  <2>2. \A m \in Preds(at) : p \in writeOut[m][r] <=>
          (m = p \/ (~Writes(prog[m], r) /\ ReachesUnwritten(p, m, r)))
    BY <1>1, <1>2 DEF ExactWriteOut
  <2>3. QED
    BY <2>1, <2>2, PathSplit
<1>3. ASSUME NEW p \in WriteIn(at, r) PROVE p \in Ins /\ Writes(prog[p], r)
  <2>1. PICK m \in Preds(at) : p \in writeOut[m][r]
    BY <1>3 DEF WriteIn
  <2>2. QED
    BY <1>1, <2>1 DEF ExactWriteOut
<1>4. ASSUME NEW p \in Ins, Reads(prog[p], r), ~Writes(prog[p], r)
      PROVE  p \in ReadIn(at, r) <=> ReachesUnwritten(p, at, r)
  <2>1. p \in ReadIn(at, r) <=> \E m \in Preds(at) : p \in readOut[m][r]
    BY DEF ReadIn
  <2>2. \A m \in Preds(at) : p \in readOut[m][r] <=>
          (m = p \/ (~Writes(prog[m], r) /\ ReachesUnwritten(p, m, r)))
    BY <1>1, <1>4 DEF ExactReadOut
  <2>3. QED
    BY <2>1, <2>2, PathSplit
<1>5. ASSUME NEW p \in ReadIn(at, r) PROVE p \in Ins /\ Reads(prog[p], r) /\ ~Writes(prog[p], r)
  <2>1. PICK m \in Preds(at) : p \in readOut[m][r]
    BY <1>5 DEF ReadIn
  <2>2. QED
    BY <1>1, <2>1 DEF ExactReadOut
<1>6. WriteIn(at, r) = {p \in Ins : Writes(prog[p], r) /\ ReachesUnwritten(p, at, r)}
  BY <1>2, <1>3
<1>7. ReadIn(at, r) = {p \in Ins : Reads(prog[p], r) /\ ~Writes(prog[p], r) /\ ReachesUnwritten(p, at, r)}
  BY <1>4, <1>5
<1>8. QED
  BY <1>6, <1>7

\* The edges a visit adds are the dependences on the visited instruction.
LEMMA ExactNewEdges ==
  ASSUME GraphTypeOK, ReachingEarlier, ExactWriteOut, ExactReadOut, at \in Ins
  PROVE  EdgesInto(at) = {e \in EdgeSet : e.to = at /\ Depends(e)}
<1>1. ASSUME NEW e \in EdgesInto(at) PROVE e \in EdgeSet /\ e.to = at /\ Depends(e)
  <2>1. e \in EdgeSet /\ e.from < e.to
    BY <1>1, NewEdges
  <2>2. PICK r \in Regs :
          \/ \E p \in WriteIn(at, r) : Reads(prog[at], r) /\ e = Edge(p, at, "RAW", r)
          \/ \E p \in WriteIn(at, r) : Writes(prog[at], r) /\ e = Edge(p, at, "WAW", r)
          \/ \E p \in ReadIn(at, r) : Writes(prog[at], r) /\ e = Edge(p, at, "WAR", r)
    BY <1>1 DEF EdgesInto
  <2>3. QED
    BY <2>1, <2>2, ExactInputs DEF Edge, Depends
<1>2. ASSUME NEW e \in EdgeSet, e.to = at, Depends(e) PROVE e \in EdgesInto(at)
  <2> DEFINE p == e.from  r == e.reg
  <2>0. p \in Ins /\ r \in Regs /\ e.type \in {"RAW", "WAW", "WAR"}
        /\ e = Edge(p, at, e.type, r)
    BY <1>2 DEF EdgeSet, Edge
  <2>1. CASE e.type = "RAW"
    <3>1. p \in WriteIn(at, r) /\ Reads(prog[at], r)
      BY <1>2, <2>0, <2>1, ExactInputs DEF Depends
    <3>2. QED
      BY <2>0, <2>1, <3>1 DEF EdgesInto
  <2>2. CASE e.type = "WAW"
    <3>1. p \in WriteIn(at, r) /\ Writes(prog[at], r)
      BY <1>2, <2>0, <2>2, ExactInputs DEF Depends
    <3>2. QED
      BY <2>0, <2>2, <3>1 DEF EdgesInto
  <2>3. CASE e.type = "WAR"
    <3>1. p \in ReadIn(at, r) /\ Writes(prog[at], r)
      BY <1>2, <2>0, <2>3, ExactInputs DEF Depends
    <3>2. QED
      BY <2>0, <2>3, <3>1 DEF EdgesInto
  <2>4. QED
    BY <2>0, <2>1, <2>2, <2>3
<1>3. QED
  BY <1>1, <1>2

LEMMA ExactInvInit == ASSUME NEW k \in Kernels, GraphInit(k.prog) PROVE ExactInv
<1>1. GraphInv
  BY GraphInvInit
<1>2. at = 0 /\ edges = {}
  BY DEF GraphInit
<1>3. \A i \in Ins : ~(i < at)
  BY <1>2, InsFacts DEF Ins
<1>4. ExactWriteOut /\ ExactReadOut
  BY <1>3 DEF ExactWriteOut, ExactReadOut
<1>5. ExactEdges
  BY <1>2, <1>3 DEF ExactEdges, EdgeSet
<1>6. QED
  BY <1>1, <1>4, <1>5 DEF ExactInv

LEMMA PathsKept ==
  ASSUME prog' = prog
  PROVE  /\ \A p, i, r : ReachesUnwritten(p, i, r)' <=> ReachesUnwritten(p, i, r)
         /\ \A e : Depends(e)' <=> Depends(e)
<1>1. \A p, i, r : ReachesUnwritten(p, i, r)' <=> ReachesUnwritten(p, i, r)
  BY DEF ReachesUnwritten, IsPath
<1>2. \A e : Depends(e)' <=> Depends(e)
  BY <1>1 DEF Depends
<1>3. QED
  BY <1>1, <1>2

LEMMA ExactInvStep == ExactInv /\ [GraphNext]_graphVars => ExactInv'
<1>1. SUFFICES ASSUME ExactInv, [GraphNext]_graphVars PROVE ExactInv'
  OBVIOUS
<1>2. GraphInv' /\ GraphInv
  BY <1>1, GraphInvStep DEF ExactInv
<1>3. CASE ResolveFlow
  <2>1. at' \in {Thrown, 1} /\ prog' = prog /\ edges' = edges /\ at = 0
    BY <1>3 DEF ResolveFlow
  <2>2. \A i \in Ins : ~(i < at) /\ ~(i < at')
    BY <2>1, InsFacts DEF Thrown, Ins
  <2>3. ExactWriteOut' /\ ExactReadOut'
    BY <2>2 DEF ExactWriteOut, ExactReadOut
  <2>4. edges = {}
    BY <1>1, <2>2 DEF ExactInv, ExactEdges, EdgeSet
  <2>5. ExactEdges'
    BY <2>1, <2>2, <2>4 DEF ExactEdges, EdgeSet
  <2>6. QED
    BY <1>2, <2>3, <2>5 DEF ExactInv
<1>4. CASE Visit
  <2>1. /\ at \in Ins /\ at' = at + 1 /\ prog' = prog
        /\ writeOut' = [writeOut EXCEPT ![at] = [r \in Regs |->
             IF Writes(prog[at], r) THEN {at} ELSE WriteIn(at, r)]]
        /\ readOut' = [readOut EXCEPT ![at] = [r \in Regs |->
             IF Writes(prog[at], r) THEN {}
             ELSE ReadIn(at, r) \cup {i \in {at} : Reads(prog[at], r)}]]
        /\ edges' = edges \cup EdgesInto(at)
    BY <1>4 DEF Visit
  <2>2. GraphTypeOK /\ ReachingEarlier /\ ExactWriteOut /\ ExactReadOut /\ ExactEdges
    BY <1>1 DEF ExactInv, GraphInv
  <2>3. \A k \in Ins : k < at' <=> (k < at \/ k = at)
    BY <2>1, InsFacts
  <2>4. ExactWriteOut'
    <3> SUFFICES ASSUME NEW k \in Ins, NEW r \in Regs, k < at'
                 PROVE  writeOut'[k][r] = {p \in Ins : Writes(prog[p], r) /\
                          (p = k \/ (~Writes(prog[k], r) /\ ReachesUnwritten(p, k, r)))}
      BY <2>1, PathsKept DEF ExactWriteOut
    <3>1. CASE k < at
      <4>1. writeOut'[k] = writeOut[k]
        BY <2>1, <2>2, <3>1, InsFacts DEF GraphTypeOK
      <4>2. QED
        BY <2>2, <3>1, <4>1 DEF ExactWriteOut
    <3>2. CASE k = at
      <4>1. writeOut'[k][r] = IF Writes(prog[at], r) THEN {at} ELSE WriteIn(at, r)
        BY <2>1, <2>2, <3>2 DEF GraphTypeOK
      <4>2. WriteIn(at, r) = {p \in Ins : Writes(prog[p], r) /\ ReachesUnwritten(p, at, r)}
        BY <2>1, <2>2, ExactInputs
      <4>3. QED
        BY <2>1, <3>2, <4>1, <4>2
    <3>3. QED
      BY <2>3, <3>1, <3>2
  <2>5. ExactReadOut'
    <3> SUFFICES ASSUME NEW k \in Ins, NEW r \in Regs, k < at'
                 PROVE  readOut'[k][r] = {p \in Ins : Reads(prog[p], r) /\ ~Writes(prog[p], r) /\
                          (p = k \/ (~Writes(prog[k], r) /\ ReachesUnwritten(p, k, r)))}
      BY <2>1, PathsKept DEF ExactReadOut
    <3>1. CASE k < at
      <4>1. readOut'[k] = readOut[k]
        BY <2>1, <2>2, <3>1, InsFacts DEF GraphTypeOK
      <4>2. QED
        BY <2>2, <3>1, <4>1 DEF ExactReadOut
    <3>2. CASE k = at
      <4>1. readOut'[k][r] = IF Writes(prog[at], r) THEN {}
                             ELSE ReadIn(at, r) \cup {i \in {at} : Reads(prog[at], r)}
        BY <2>1, <2>2, <3>2 DEF GraphTypeOK
      <4>2. ReadIn(at, r) = {p \in Ins : Reads(prog[p], r) /\ ~Writes(prog[p], r)
                                        /\ ReachesUnwritten(p, at, r)}
        BY <2>1, <2>2, ExactInputs
      <4>3. QED
        BY <2>1, <3>2, <4>1, <4>2
    <3>3. QED
      BY <2>3, <3>1, <3>2
  <2>6. ExactEdges'
    <3>1. EdgesInto(at) = {e \in EdgeSet : e.to = at /\ Depends(e)}
      BY <2>1, <2>2, ExactNewEdges
    <3>2. \A e \in EdgeSet : e.to < at' <=> (e.to < at \/ e.to = at)
      BY <2>3 DEF EdgeSet
    <3>3. edges' = {e \in EdgeSet : e.to < at' /\ Depends(e)}
      BY <2>1, <2>2, <3>1, <3>2 DEF ExactEdges
    <3>4. QED
      BY <2>1, <3>3, PathsKept DEF ExactEdges
  <2>7. QED
    BY <1>2, <2>4, <2>5, <2>6 DEF ExactInv
<1>5. CASE UNCHANGED graphVars
  <2>1. prog' = prog /\ at' = at /\ writeOut' = writeOut /\ readOut' = readOut /\ edges' = edges
    BY <1>5 DEF graphVars
  <2>2. ExactWriteOut' /\ ExactReadOut'
    BY <1>1, <2>1, PathsKept DEF ExactInv, ExactWriteOut, ExactReadOut
  <2>3. ExactEdges'
    BY <1>1, <2>1, PathsKept DEF ExactInv, ExactEdges
  <2>4. QED
    BY <1>2, <2>2, <2>3 DEF ExactInv
<1>6. QED
  BY <1>1, <1>3, <1>4, <1>5 DEF GraphNext

\* The hazard graph is well typed at every step of the pass.
THEOREM GraphTypeCorrect == GraphSpec => []GraphTypeOK
<1>1. (\E k \in Kernels : GraphInit(k.prog)) => GraphInv
  BY GraphInvInit
<1>2. GraphInv => GraphTypeOK
  BY DEF GraphInv
<1>3. QED
  BY <1>1, <1>2, GraphInvStep, PTL DEF GraphSpec

\* buildHazardGraph is exact: for every kernel, the edges are the dependences
\* some forward path carries, none missing and none spurious.
THEOREM GraphIsExact == GraphSpec => []EdgesArePathDependences
<1>1. (\E k \in Kernels : GraphInit(k.prog)) => ExactInv
  BY ExactInvInit
<1>2. ExactInv => EdgesArePathDependences
  <2>1. SUFFICES ASSUME ExactInv, at = Built PROVE edges = {e \in EdgeSet : Depends(e)}
    BY DEF EdgesArePathDependences
  <2>2. \A e \in EdgeSet : e.to < at
    BY <2>1, KernelAssumption DEF Built, EdgeSet, Ins
  <2>3. QED
    BY <2>1, <2>2 DEF ExactInv, ExactEdges
<1>3. QED
  BY <1>1, <1>2, ExactInvStep, PTL DEF GraphSpec

-----------------------------------------------------------------------------
\* The scoreboard walk.

\* A set of instructions has a first one.
LEMMA LeastElement ==
  ASSUME NEW T \in SUBSET Nat, T # {}
  PROVE  \E x \in T : \A y \in T : x <= y
<1>1. IsWellFoundedOn(OpToRel(<, Nat), Nat)
  BY NatLessThanWellFounded, Zenon
<1>2. PICK x \in T : \A y \in T : ~(<<y, x>> \in OpToRel(<, Nat))
  BY <1>1, WFMin, Zenon
<1>3. \A y \in T : ~(y < x)
  BY <1>2 DEF OpToRel
<1>4. QED
  BY <1>3

\* The walk over the codes c has simulated the instructions before pos.
WalkInv(c) ==
  /\ pos \in 1..(N + 1)
  /\ retired = {p \in Ins : p < pos /\ Waited(c, p, pos - 1)}
  /\ pending = [s \in Slots |->
       {p \in Ins : p < pos /\ SlotOf(c, p) = s /\ ~Waited(c, p, pos - 1)}]
  /\ violations = {e \in edges : e.to < pos /\ Open(c, e)}

\* Nothing has been walked at the start, so there is nothing to account for.
LEMMA WalkStart ==
  ASSUME GraphInv
  PROVE  (\A p \in Ins : ~(p < 1)) /\ (\A e \in edges : ~(e.to < 1))
<1>1. \A p \in Ins : ~(p < 1)
  BY InsFacts DEF Ins
<1>2. \A e \in edges : e.to \in Ins
  BY DEF GraphInv, GraphTypeOK, EdgeSet
<1>3. QED
  BY <1>1, <1>2

\* A producer has been waited for by the end of pos if it had been before, or
\* if pos waits on its slot.
LEMMA WaitedStep ==
  ASSUME NEW STATE c, NEW i \in Ins, NEW p \in Ins, p < i
  PROVE  Waited(c, p, i) <=> (Waited(c, p, i - 1) \/ SlotOf(c, p) \in c[i].wait)
<1>1. \A w \in Ins : w <= i <=> (w <= i - 1 \/ w = i)
  BY InsFacts
<1>2. QED
  BY <1>1 DEF Waited

LEMMA WalkStep ==
  ASSUME GraphInv, NEW STATE c, c \in [Ins -> Code], WalkInv(c), SimStep(c)
  PROVE  /\ pos' \in 1..(N + 1)
         /\ retired' = {p \in Ins : p < pos' /\ Waited(c, p, pos' - 1)}
         /\ pending' = [s \in Slots |->
              {p \in Ins : p < pos' /\ SlotOf(c, p) = s /\ ~Waited(c, p, pos' - 1)}]
         /\ violations' = {e \in edges : e.to < pos' /\ Open(c, e)}
<1>1. pos \in Ins /\ pos' = pos + 1 /\ pos' - 1 = pos /\ pos \in Nat
  BY InsFacts DEF SimStep
<1>2. \A p \in Ins : p < pos' <=> (p < pos \/ p = pos)
  BY <1>1, InsFacts
<1>3. ~Waited(c, pos, pos)
  BY <1>1, InsFacts DEF Waited
<1>4. c[pos].wait \subseteq Slots
  BY <1>1 DEF Code
<1>5. retired' = {p \in Ins : p < pos' /\ Waited(c, p, pos' - 1)}
  <2>1. retired' = retired \cup UNION {pending[s] : s \in c[pos].wait}
    BY DEF SimStep
  <2>2. UNION {pending[s] : s \in c[pos].wait}
          = {p \in Ins : p < pos /\ SlotOf(c, p) \in c[pos].wait /\ ~Waited(c, p, pos - 1)}
    BY <1>4 DEF WalkInv
  <2>3. \A p \in Ins : (p < pos' /\ Waited(c, p, pos)) <=>
          (p < pos /\ (Waited(c, p, pos - 1) \/ SlotOf(c, p) \in c[pos].wait))
    BY <1>1, <1>2, <1>3, WaitedStep
  <2>4. retired = {p \in Ins : p < pos /\ Waited(c, p, pos - 1)}
    BY DEF WalkInv
  <2>5. QED
    BY <1>1, <2>1, <2>2, <2>3, <2>4
<1>6. pending' = [s \in Slots |->
        {p \in Ins : p < pos' /\ SlotOf(c, p) = s /\ ~Waited(c, p, pos' - 1)}]
  <2>1. pending' = [s \in Slots |-> (IF s \in c[pos].wait THEN {} ELSE pending[s])
                                      \cup {p \in {pos} : SlotOf(c, p) = s}]
    BY DEF SimStep
  <2>2. ASSUME NEW s \in Slots
        PROVE  (IF s \in c[pos].wait THEN {} ELSE pending[s]) \cup {p \in {pos} : SlotOf(c, p) = s}
                 = {p \in Ins : p < pos' /\ SlotOf(c, p) = s /\ ~Waited(c, p, pos)}
    <3>1. pending[s] = {p \in Ins : p < pos /\ SlotOf(c, p) = s /\ ~Waited(c, p, pos - 1)}
      BY <2>2 DEF WalkInv
    <3>2. \A p \in Ins : p < pos /\ SlotOf(c, p) = s =>
            (Waited(c, p, pos) <=> (Waited(c, p, pos - 1) \/ s \in c[pos].wait))
      BY <1>1, WaitedStep
    <3>3. QED
      BY <1>1, <1>2, <1>3, <3>1, <3>2
  <2>3. QED
    BY <1>1, <2>1, <2>2
<1>7. violations' = {e \in edges : e.to < pos' /\ Open(c, e)}
  <2>1. violations' = violations \cup {e \in edges : e.to = pos /\ ~Closed(c, e, retired')}
    BY DEF SimStep
  <2>2. \A e \in edges : e.from \in Ins /\ e.to \in Ins /\ e.from < e.to
    BY DEF GraphInv, GraphTypeOK, ForwardEdges, EdgeSet
  <2>3. ASSUME NEW e \in edges, e.to = pos PROVE Closed(c, e, retired') <=> ~Open(c, e)
    <3>1. e.from \in retired' <=> Waited(c, e.from, pos)
      BY <1>1, <1>2, <1>5, <2>2, <2>3
    <3>2. QED
      BY <2>3, <3>1 DEF Closed, Open
  <2>4. violations = {e \in edges : e.to < pos /\ Open(c, e)}
    BY DEF WalkInv
  <2>5. QED
    BY <1>1, <1>2, <2>1, <2>2, <2>3, <2>4
<1>8. pos' \in 1..(N + 1)
  BY <1>1, KernelAssumption DEF Ins
<1>9. QED
  BY <1>5, <1>6, <1>7, <1>8

\* At the end of the walk the violations are all the open edges.
LEMMA WalkEnd ==
  ASSUME GraphInv, NEW STATE c, WalkInv(c), SimDone
  PROVE  violations = OpenEdges(c)
<1>1. \A e \in edges : e.to < pos
  BY KernelAssumption DEF GraphInv, GraphTypeOK, EdgeSet, SimDone, Ins
<1>2. QED
  BY <1>1 DEF WalkInv, OpenEdges

LEMMA WalkTyped == ASSUME GraphInv, NEW STATE c, WalkInv(c) PROVE SimTypeOK
<1>1. violations \subseteq EdgeSet
  BY DEF WalkInv, GraphInv, GraphTypeOK
<1>2. pos \in 0..(N + 1)
  BY KernelAssumption DEF WalkInv
<1>3. QED
  BY <1>1, <1>2 DEF WalkInv, SimTypeOK

-------------------------------------------------------------------------------
(* The warp on a straight line. *)

\* Where the warp is: it has issued the instructions before pc, in order, and what
\* flies is what no wait among them has covered.
WarpInv(c) ==
  /\ pc \in 0..(N + 1)
  /\ pc = 0 => last = 0 /\ flying = {}
  /\ pc \in Ins =>
       /\ last = pc - 1
       /\ \A i \in Ins : i < pc => i + 1 \in Successors(prog, i)
       /\ flying = {f \in Ins : f < pc /\ SlotOf(c, f) # Unset /\ ~Waited(c, f, pc - 1)}

\* A straight line only goes on to the next instruction.
LEMMA StraightSuccessors ==
  ASSUME StraightLine, NEW i \in Ins
  PROVE  Successors(prog, i) \subseteq {i + 1}
  BY DEF StraightLine, Successors, Jumps

LEMMA WarpLaunch ==
  ASSUME NEW STATE c, WarpInv(c), Launch
  PROVE  /\ pc' = 1 /\ last' = 0 /\ flying' = {}
         /\ \A i \in Ins : ~(i < 1)
  BY InsFacts DEF WarpInv, Launch, Ins

\* An issue lands the warp on the next instruction, or after the last one.
LEMMA WarpIssue ==
  ASSUME GraphTypeOK, StraightLine, NEW STATE c, c \in [Ins -> Code], WarpInv(c), Issue(c)
  PROVE  /\ pc' \in {pc + 1, N + 1} /\ pc' \in 1..(N + 1)
         /\ pc' \in Ins =>
              /\ last' = pc' - 1
              /\ \A i \in Ins : i < pc' => i + 1 \in Successors(prog, i)
              /\ flying' = {f \in Ins : f < pc' /\ SlotOf(c, f) # Unset /\ ~Waited(c, f, pc' - 1)}
<1>1. pc \in Ins /\ pc \in Nat /\ last' = pc
  BY InsFacts DEF Issue
<1>2. pc' \in Successors(prog, pc) \/ pc' = N + 1
  BY DEF Issue
<1>3. pc' \in Successors(prog, pc) => pc' = pc + 1 /\ pc' \in Ins
  BY <1>1, StraightSuccessors DEF Successors
<1>4. N + 1 \notin Ins
  BY KernelAssumption DEF Ins
<1>5. pc' \in {pc + 1, N + 1} /\ pc' \in 1..(N + 1)
  BY <1>2, <1>3, KernelAssumption DEF Ins
<1>6. ASSUME pc' \in Ins
      PROVE  /\ last' = pc' - 1
             /\ \A i \in Ins : i < pc' => i + 1 \in Successors(prog, i)
             /\ flying' = {f \in Ins : f < pc' /\ SlotOf(c, f) # Unset /\ ~Waited(c, f, pc' - 1)}
  <2>1. pc' = pc + 1 /\ pc + 1 \in Successors(prog, pc) /\ pc' - 1 = pc
    <3>1. pc' \in Successors(prog, pc)
      BY <1>2, <1>4, <1>6
    <3>2. pc' = pc + 1
      BY <1>3, <3>1
    <3>3. (pc + 1) - 1 = pc
      BY <1>1
    <3>4. QED
      BY <3>1, <3>2, <3>3
  <2>2. \A i \in Ins : i < pc' <=> (i < pc \/ i = pc)
    BY <1>1, <2>1, InsFacts
  <2>3. \A i \in Ins : i < pc' => i + 1 \in Successors(prog, i)
    BY <1>1, <2>1, <2>2 DEF WarpInv
  <2>4. ~Waited(c, pc, pc)
    BY <1>1, InsFacts DEF Waited
  <2>5. ASSUME NEW f \in Ins, f < pc
        PROVE  f \in flying' <=> (SlotOf(c, f) # Unset /\ ~Waited(c, f, pc))
    <3>1. f # pc
      BY <2>5, InsFacts
    <3>2. f \in flying' <=> (f \in flying /\ SlotOf(c, f) \notin c[pc].wait)
      BY <3>1 DEF Issue, StillFlying
    <3>3. Waited(c, f, pc) <=> (Waited(c, f, pc - 1) \/ SlotOf(c, f) \in c[pc].wait)
      BY <1>1, <2>5, WaitedStep
    <3>4. QED
      BY <1>1, <2>5, <3>2, <3>3 DEF WarpInv
  <2>6. pc \in flying' <=> SlotOf(c, pc) # Unset
    BY DEF Issue, StillFlying
  <2>7. \A f \in flying' : f \in Ins /\ (f < pc \/ f = pc)
    BY <1>1 DEF Issue, StillFlying, WarpInv
  <2>8. flying' = {f \in Ins : f < pc' /\ SlotOf(c, f) # Unset /\ ~Waited(c, f, pc' - 1)}
    BY <1>1, <2>1, <2>2, <2>4, <2>5, <2>6, <2>7
  <2>9. QED
    BY <1>1, <2>1, <2>3, <2>8
<1>7. QED
  BY <1>5, <1>6

\* On a straight line, an access of f reaches the first instruction after it that
\* writes the register, and every one before that.
LEMMA StraightPath ==
  ASSUME NEW f \in Ins, NEW k \in Ins, f < k, NEW r \in Regs,
         \A i \in Ins : i < k => i + 1 \in Successors(prog, i),
         \A j \in Ins : f < j /\ j < k => ~Writes(prog[j], r)
  PROVE  ReachesUnwritten(f, k, r)
<1> DEFINE S == {j \in Ins : f < j /\ j < k}
<1>1. IsPath(S, f, k)
  <2> SUFFICES ASSUME NEW y \in S \cup {k}
               PROVE  \E x \in S \cup {f} : /\ x < y
                                            /\ y \in Successors(prog, x)
                                            /\ \A z \in S : ~(x < z /\ z < y)
    BY DEF IsPath
  <2>1. y \in Nat /\ f \in Nat /\ k \in Nat /\ f < y /\ y <= k /\ y \in Ins
    BY InsFacts
  <2>2. y - 1 \in Ins /\ f <= y - 1 /\ y - 1 < k /\ (y - 1) + 1 = y
    BY <2>1, KernelAssumption DEF Ins
  <2>3. y - 1 \in S \cup {f}
    BY <2>1, <2>2
  <2>4. y \in Successors(prog, y - 1)
    BY <2>2
  <2>5. \A z \in S : ~(y - 1 < z /\ z < y)
    BY <2>1, InsFacts
  <2>6. QED
    BY <2>1, <2>2, <2>3, <2>4, <2>5
<1>2. S \in SUBSET {j \in Ins : f < j /\ j < k /\ ~Writes(prog[j], r)}
  OBVIOUS
<1>3. QED
  BY <1>1, <1>2 DEF ReachesUnwritten

\* The instruction that first has to wait for f's access to r: the first one after
\* it to write r, and i at the latest.
LEMMA FirstClaim ==
  ASSUME NEW f \in Ins, NEW i \in Ins, f < i, NEW r \in Regs,
         \A j \in Ins : j < i => j + 1 \in Successors(prog, j)
  PROVE  \E k \in Ins : /\ f < k /\ k <= i
                        /\ k = i \/ Writes(prog[k], r)
                        /\ ReachesUnwritten(f, k, r)
<1> DEFINE T == {j \in Ins : f < j /\ j <= i /\ (j = i \/ Writes(prog[j], r))}
<1>1. T # {} /\ T \in SUBSET Nat
  <2>1. i \in T /\ \A j \in T : j \in Nat
    BY InsFacts
  <2>2. QED
    BY <2>1, Zenon
<1>2. PICK k \in T : \A j \in T : k <= j
  <2> HIDE DEF T
  <2>1. QED
    BY <1>1, LeastElement
<1>3. \A j \in Ins : f < j /\ j < k => ~Writes(prog[j], r)
  BY <1>2, InsFacts
<1>4. \A j \in Ins : j < k => j + 1 \in Successors(prog, j)
  BY <1>2, InsFacts
<1>5. ReachesUnwritten(f, k, r)
  BY <1>2, <1>3, <1>4, StraightPath
<1>6. QED
  BY <1>2, <1>5

\* The point of a verdict: when no dependence is left open, a warp on straight-line
\* code issues into no access that is still in flight or unsettled.
LEMMA ClosedIsSafe ==
  ASSUME GraphTypeOK, NEW STATE c, c \in [Ins -> Code], WarpInv(c), StoresOnlyRead,
         \A e \in EdgeSet : Depends(e) => ~Open(c, e)
  PROVE  ~Hazard(c)
<1>1. SUFFICES ASSUME pc \in Ins, Hazard(c) PROVE FALSE
  BY DEF Hazard
<1>2. /\ last = pc - 1
      /\ \A i \in Ins : i < pc => i + 1 \in Successors(prog, i)
      /\ flying = {f \in Ins : f < pc /\ SlotOf(c, f) # Unset /\ ~Waited(c, f, pc - 1)}
  BY <1>1 DEF WarpInv
<1>3. \A p \in Ins : LatencyOf(p) \in {"FIXED"} \cup Directions
  BY KernelAssumption DEF GraphTypeOK, Instr, LatencyOf
<1>4. ASSUME NEW f \in StillFlying(c), Conflict(f, pc, LatencyOf(f)) PROVE FALSE
  <2>1. /\ f \in Ins /\ f < pc /\ SlotOf(c, f) # Unset
        /\ ~Waited(c, f, pc - 1) /\ SlotOf(c, f) \notin c[pc].wait
    BY <1>2, <1>4 DEF StillFlying
  <2>2. LatencyOf(f) \in Directions
    BY <1>3, <2>1 DEF SlotOf
  <2>3. ~Waited(c, f, pc)
    BY <1>1, <2>1, WaitedStep
  <2>4. PICK r \in Regs :
          IF LatencyOf(f) = "WRITE"
            THEN Writes(prog[f], r) /\ (Reads(prog[pc], r) \/ Writes(prog[pc], r))
            ELSE Reads(prog[f], r) /\ Writes(prog[pc], r)
    BY <1>4 DEF Conflict
  <2>5. PICK k \in Ins : /\ f < k /\ k <= pc
                         /\ k = pc \/ Writes(prog[k], r)
                         /\ ReachesUnwritten(f, k, r)
    BY <1>1, <1>2, <2>1, FirstClaim
  <2> DEFINE t == IF LatencyOf(f) = "READ" THEN "WAR"
                  ELSE IF Writes(prog[k], r) THEN "WAW" ELSE "RAW"
             e == Edge(f, k, t, r)
  <2>6. e \in EdgeSet /\ e.from = f /\ e.to = k /\ e.type = t /\ e.reg = r
    BY <2>1 DEF Edge, EdgeSet
  <2>7. Depends(e)
    <3>1. CASE LatencyOf(f) = "READ"
      <4>1. Reads(prog[f], r) /\ ~Writes(prog[f], r) /\ Writes(prog[k], r)
        BY <2>1, <2>4, <2>5, <3>1 DEF StoresOnlyRead
      <4>2. QED
        BY <2>5, <2>6, <3>1, <4>1 DEF Depends
    <3>2. CASE LatencyOf(f) = "WRITE"
      <4>1. Writes(prog[f], r) /\ (Writes(prog[k], r) \/ Reads(prog[k], r))
        BY <2>4, <2>5, <3>2
      <4>2. QED
        BY <2>5, <2>6, <3>2, <4>1 DEF Depends
    <3>3. QED
      BY <2>2, <3>1, <3>2 DEF Directions
  <2>8. BarrierProtects(c, e)
    BY <2>1, <2>2, <2>6 DEF BarrierProtects, RelevantAccess, Directions
  <2>9. Waited(c, f, k)
    BY <2>6, <2>7, <2>8 DEF Open
  <2>10. Waited(c, f, pc)
    BY <1>1, <2>5, <2>9, InsFacts DEF Waited
  <2>11. QED
    BY <2>3, <2>10
<1>5. ASSUME last \in Ins, pc = last + 1, c[last].stall = 0, SlotOf(c, last) \notin c[pc].wait,
             NEW d \in Directions, ~Covered(c, last, d), Conflict(last, pc, d)
      PROVE  FALSE
  <2>1. last < pc /\ last \in Nat /\ pc \in Nat
    BY <1>5, InsFacts
  <2>2. ~Waited(c, last, pc)
    BY <1>1, <1>5, InsFacts DEF Waited
  <2>3. PICK r \in Regs :
          IF d = "WRITE"
            THEN Writes(prog[last], r) /\ (Reads(prog[pc], r) \/ Writes(prog[pc], r))
            ELSE Reads(prog[last], r) /\ Writes(prog[pc], r)
    BY <1>5 DEF Conflict
  <2>4. ReachesUnwritten(last, pc, r)
    <3>1. \A j \in Ins : ~(last < j /\ j < pc)
      BY <1>5, <2>1, InsFacts
    <3>2. QED
      BY <1>1, <1>2, <1>5, <2>1, <3>1, StraightPath
  <2> DEFINE t == IF Writes(prog[last], r)
                    THEN IF Writes(prog[pc], r) THEN "WAW" ELSE "RAW"
                    ELSE "WAR"
             e == Edge(last, pc, t, r)
  <2>5. e \in EdgeSet /\ e.from = last /\ e.to = pc /\ e.type = t /\ e.reg = r
    BY <1>1, <1>5 DEF Edge, EdgeSet
  <2>6. Depends(e)
    BY <2>1, <2>3, <2>4, <2>5 DEF Depends, Directions
  <2>7. TooClose(c, e)
    BY <1>5, <2>5 DEF TooClose
  <2>8. Open(c, e)
    BY <2>2, <2>5, <2>7 DEF Open
  <2>9. QED
    BY <2>5, <2>6, <2>8
<1>6. QED
  BY <1>1, <1>4, <1>5 DEF Hazard
===============================================================================
