------------------------------ MODULE Scoreboard ------------------------------
(***************************************************************************)
(* simulateAndVerify (bin/ccCommon.hpp): one walk over the instructions in *)
(* program order, one step per instruction, against the scoreboard slots.  *)
(* The walk is parameterised by the control codes c: verify-cc runs it on  *)
(* the codes the cubin has, correct-cc on the ones it has just computed.   *)
(***************************************************************************)
EXTENDS HazardGraph

VARIABLES
  pos,        \* the instruction about to be simulated; 0 before the walk
  pending,    \* slotPending: producers waiting for a wait on each slot
  retired,    \* producers some wait has closed
  violations  \* the edges found open

simVars == <<pos, pending, retired, violations>>

SimInit ==
  /\ pos = 0
  /\ pending = [s \in Slots |-> {}]
  /\ retired = {}
  /\ violations = {}

SimStart ==
  /\ pos' = 1
  /\ pending' = [s \in Slots |-> {}]
  /\ retired' = {}
  /\ violations' = {}

SimDone == pos = N + 1

-------------------------------------------------------------------------------
LatencyOf(p) == Latency[prog[p].key]

\* Which access of the producer an edge is about.
RelevantAccess(type) == IF type = "WAR" THEN "READ" ELSE "WRITE"

Field(cc, direction) == IF direction = "READ" THEN cc.rd ELSE cc.wr

\* The slot a VARIABLE instruction's own code names, Unset for a FIXED one.
SlotOf(c, p) == IF LatencyOf(p) = "FIXED" THEN Unset ELSE Field(c[p], LatencyOf(p))

BarrierProtects(c, e) ==
  /\ LatencyOf(e.from) = RelevantAccess(e.type)
  /\ SlotOf(c, e.from) # Unset

\* Mutant: the consumer's stall count in place of the producer's.
TooCloseConsumer(c, e) == e.to = e.from + 1 /\ c[e.to].stall = 0

TooClose(c, e) == e.to = e.from + 1 /\ c[e.from].stall = 0

Closed(c, e, done) ==
  IF BarrierProtects(c, e) THEN e.from \in done ELSE ~TooClose(c, e)

\* Mutant: the last producer to claim a slot displaces the one before it.
SimStepDisplacing(c) ==
  /\ pos \in Ins
  /\ retired' = retired \cup UNION {pending[s] : s \in c[pos].wait}
  /\ violations' = violations \cup {e \in edges : e.to = pos /\ ~Closed(c, e, retired')}
  /\ pending' = [s \in Slots |->
       IF SlotOf(c, pos) = s THEN {pos} ELSE IF s \in c[pos].wait THEN {} ELSE pending[s]]
  /\ pos' = pos + 1

SimStep(c) ==
  /\ pos \in Ins
  /\ retired' = retired \cup UNION {pending[s] : s \in c[pos].wait}
  /\ violations' = violations \cup {e \in edges : e.to = pos /\ ~Closed(c, e, retired')}
  /\ pending' = [s \in Slots |->
       (IF s \in c[pos].wait THEN {} ELSE pending[s])
         \cup {p \in {pos} : SlotOf(c, p) = s}]
  /\ pos' = pos + 1

-------------------------------------------------------------------------------
(***************************************************************************)
(* What the walk decides, with no walk in it: a barrier-protected edge is  *)
(* open when no instruction after the producer, up to and including the    *)
(* consumer, waits on the producer's slot.                                 *)
(***************************************************************************)
Waited(c, p, i) == \E w \in Ins : p < w /\ w <= i /\ SlotOf(c, p) \in c[w].wait

Open(c, e) ==
  IF BarrierProtects(c, e) THEN ~Waited(c, e.from, e.to) ELSE TooClose(c, e)

OpenEdges(c) == {e \in edges : Open(c, e)}

SimTypeOK ==
  /\ pos \in 0..(N + 1)
  /\ pending \in [Slots -> SUBSET Ins]
  /\ retired \subseteq Ins
  /\ violations \subseteq EdgeSet

===============================================================================
