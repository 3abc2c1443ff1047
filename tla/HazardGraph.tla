----------------------------- MODULE HazardGraph ------------------------------
(***************************************************************************)
(* buildHazardGraph (bin/ccCommon.hpp): one index-ascending pass of        *)
(* reaching-definitions and reaching-reads dataflow over the forward       *)
(* control-flow edges, adding the RAW, WAW and WAR edges of each           *)
(* instruction as it is visited.                                           *)
(***************************************************************************)
EXTENDS Kernel

VARIABLES
  prog,       \* decoded: the kernel's instructions
  at,         \* next instruction of the pass; 0 before the successors are known
  writeOut,   \* writeOut[i][r]: writers of r that reach the end of i
  readOut,    \* readOut[i][r]: readers of r since its last write, at the end of i
  edges       \* the hazard graph

graphVars == <<prog, at, writeOut, readOut, edges>>

Thrown == -1     \* value of at after computeControlFlowSuccessors threw
Built  == N + 1  \* value of at when the graph is complete

Edge(from, to, type, r) == [from |-> from, to |-> to, type |-> type, reg |-> r]
EdgeSet == [from: Ins, to: Ins, type: {"RAW", "WAW", "WAR"}, reg: Regs]

NoReaching == [r \in Regs |-> {}]

GraphInit(p) ==
  /\ prog = p
  /\ at = 0
  /\ writeOut = [i \in Ins |-> NoReaching]
  /\ readOut = [i \in Ins |-> NoReaching]
  /\ edges = {}

\* Mutant: the flat program-order scan that preceded the control-flow graph.
PredsFlat(i) == {p \in Ins : p = i - 1}

\* Forward-only: a loop's back edge is not followed.
Preds(i) == {p \in Ins : p < i /\ i \in Successors(prog, p)}

WriteIn(i, r) == UNION {writeOut[p][r] : p \in Preds(i)}
ReadIn(i, r)  == UNION {readOut[p][r] : p \in Preds(i)}

EdgesInto(i) ==
  UNION {
       {Edge(p, i, "RAW", r) : p \in {q \in WriteIn(i, r) : Reads(prog[i], r)}}
  \cup {Edge(p, i, "WAW", r) : p \in {q \in WriteIn(i, r) : Writes(prog[i], r)}}
  \cup {Edge(p, i, "WAR", r) : p \in {q \in ReadIn(i, r) : Writes(prog[i], r)}}
  : r \in Regs}

ResolveFlow ==
  /\ at = 0
  /\ at' = IF \E i \in Ins : Unresolvable(prog, i) THEN Thrown ELSE 1
  /\ UNCHANGED <<prog, writeOut, readOut, edges>>

Visit ==
  /\ at \in Ins
  /\ at' = at + 1
  /\ writeOut' = [writeOut EXCEPT ![at] = [r \in Regs |->
       IF Writes(prog[at], r) THEN {at} ELSE WriteIn(at, r)]]
  /\ readOut' = [readOut EXCEPT ![at] = [r \in Regs |->
       IF Writes(prog[at], r) THEN {}
       ELSE ReadIn(at, r) \cup {i \in {at} : Reads(prog[at], r)}]]
  /\ edges' = edges \cup EdgesInto(at)
  /\ UNCHANGED prog

GraphNext == ResolveFlow \/ Visit
GraphSpec == (\E k \in Kernels : GraphInit(k.prog)) /\ [][GraphNext]_graphVars

-------------------------------------------------------------------------------
GraphTypeOK ==
  /\ prog \in [Ins -> Instr]
  /\ at \in {Thrown} \cup 0..Built
  /\ writeOut \in [Ins -> [Regs -> SUBSET Ins]]
  /\ readOut \in [Ins -> [Regs -> SUBSET Ins]]
  /\ edges \subseteq EdgeSet

(***************************************************************************)
(* What the graph promises, with no dataflow in it: i depends on p through *)
(* r when some forward execution path leads from p to i and no instruction *)
(* strictly between them on that path writes r.  A forward path is the set *)
(* of instructions it passes.                                              *)
(***************************************************************************)
IsPath(S, p, i) ==
  \A y \in S \cup {i} : \E x \in S \cup {p} :
    /\ x < y
    /\ y \in Successors(prog, x)
    /\ \A z \in S : ~(x < z /\ z < y)

ReachesUnwritten(p, i, r) ==
  \E S \in SUBSET {k \in Ins : p < k /\ k < i /\ ~Writes(prog[k], r)} : IsPath(S, p, i)

Depends(e) ==
  /\ e.from < e.to
  /\ IF e.type = "WAR"
       THEN Reads(prog[e.from], e.reg) /\ ~Writes(prog[e.from], e.reg)
       ELSE Writes(prog[e.from], e.reg)
  /\ IF e.type = "RAW" THEN Reads(prog[e.to], e.reg) ELSE Writes(prog[e.to], e.reg)
  /\ ReachesUnwritten(e.from, e.to, e.reg)

\* buildHazardGraph's doc: an edge p->c exists only when (and, for the verdict
\* to mean anything, whenever) a real forward path reaches c from p with no
\* intervening same-register write.
EdgesArePathDependences == at = Built => edges = {e \in EdgeSet : Depends(e)}
===============================================================================
