------------------------------ MODULE CorrectCC -------------------------------
(***************************************************************************)
(* correctControlCodes (bin/ccCommon.hpp) on one decoded kernel: build the *)
(* hazard graph, collect the producers that need a scoreboard slot, colour *)
(* their intervals greedily, recompute every control code, walk the        *)
(* scoreboard over the result as a self-check, and only then commit it.    *)
(* The tool may be run again on its own output, Passes times in all.       *)
(***************************************************************************)
EXTENDS Scoreboard, FiniteSets

CONSTANTS
  MinMargin,   \* minSafeBarrierMargin: Keys -> 1.. (1 when uncurated)
  MaxShare,    \* c_MaxShareableGroupSize, 3
  Passes       \* bound on the runs of the tool

ASSUME CorrectAssumption ==
  /\ MinMargin \in [Keys -> Nat \ {0}]
  /\ MaxShare \in Nat \ {0}
  /\ Passes \in Nat

VARIABLES
  code,      \* kcc.ctrlCodeList, what the tool would write back
  live,      \* producers that need a slot (the intervals' producerIndex)
  slotOf,    \* the colouring so far: producer -> slot id
  newCode,   \* the recomputed codes, before they are committed
  verdict,   \* "none", "thrown", "Corrected", "Unrepairable", "InternalError"
  stage,     \* "graph", "collect", "colour", "emit", "walk" or "done"
  pass       \* how many times the tool has been run on this kernel

correctVars == <<code, live, slotOf, newCode, verdict, stage, pass>>
vars == <<graphVars, simVars, correctVars>>

-------------------------------------------------------------------------------
(* collectBarrierIntervals *)

Eligible(e) == LatencyOf(e.from) = RelevantAccess(e.type)

EligibleConsumers(p) == {e.to : e \in {d \in edges : d.from = p /\ Eligible(d)}}

\* Mutant: a slot is held until the last consumer.
LastConsumer(p) ==
  CHOOSE c \in EligibleConsumers(p) : \A d \in EligibleConsumers(p) : c >= d

\* firstConsumerIndex: the interval of p is p..FirstConsumer(p).
FirstConsumer(p) ==
  CHOOSE c \in EligibleConsumers(p) : \A d \in EligibleConsumers(p) : c <= d

Margin(p) == FirstConsumer(p) - p - 1 + code[p].stall

\* Mutant: the margin alone decides, whatever barrier the input has.
NeedsSlotByMargin(p) ==
  /\ EligibleConsumers(p) # {}
  /\ Margin(p) < MinMargin[prog[p].key]

NeedsSlot(p) ==
  /\ EligibleConsumers(p) # {}
  /\ Margin(p) < MinMargin[prog[p].key] \/ SlotOf(code, p) # Unset

-------------------------------------------------------------------------------
(* computeShareGroups and assignBarrierSlots.  The direction is a function *)
(* of the insKey, so one key is one class.                                 *)

SameClassBetween(p, q) ==
  \A x \in live : (p <= x /\ x <= q) => prog[x].key = prog[p].key

RunPosition(p) == Cardinality({x \in live : x < p /\ SameClassBetween(x, p)})

\* Mutant: a run of one class is one group, however long.
InOrderUncapped(p, q) == SameClassBetween(p, q)

InOrderShareable(p, q) ==
  /\ SameClassBetween(p, q)
  /\ RunPosition(p) \div MaxShare = RunPosition(q) \div MaxShare

Shareable(p, q) == IF p < q THEN InOrderShareable(p, q) ELSE InOrderShareable(q, p)

\* Mutant: intervals that touch interfere.
OverlapTouching(p, q) == p <= FirstConsumer(q) /\ q <= FirstConsumer(p)

Overlap(p, q) == p < FirstConsumer(q) /\ q < FirstConsumer(p)

Interferes(p, q) == p # q /\ Overlap(p, q) /\ ~Shareable(p, q)

\* sequential_vertex_coloring: the smallest colour no coloured neighbour has.
Coloured == DOMAIN slotOf
TakenBy(p) == {slotOf[q] : q \in {x \in Coloured : Interferes(x, p)}}
FreeColour(p) ==
  CHOOSE s \in 0..N : s \notin TakenBy(p) /\ \A t \in 0..N : t < s => t \in TakenBy(p)

-------------------------------------------------------------------------------
(* The recomputed codes. *)

WaitMask(i) == {slotOf[p] : p \in {x \in live : FirstConsumer(x) = i}}

BarrierOf(p, direction) ==
  IF p \in live /\ LatencyOf(p) = direction THEN slotOf[p] ELSE Unset

RequiredStall(p) ==
  IF \E e \in edges : e.from = p /\ e.to = p + 1 /\ ~Eligible(e) THEN 1 ELSE 0

\* Mutant: the stall the edges need, whatever the code had.
NewStallLowered(p) == RequiredStall(p)

NewStall(p) == IF code[p].stall > RequiredStall(p) THEN code[p].stall ELSE RequiredStall(p)

Recomputed ==
  [i \in Ins |-> [wait  |-> WaitMask(i),
                  rd    |-> BarrierOf(i, "READ"),
                  wr    |-> BarrierOf(i, "WRITE"),
                  stall |-> NewStall(i),
                  yield |-> code[i].yield]]

-------------------------------------------------------------------------------
Init ==
  /\ \E k \in Kernels : GraphInit(k.prog) /\ code = k.code /\ newCode = k.code
  /\ SimInit
  /\ live = {}
  /\ slotOf = [p \in {} |-> 0]
  /\ verdict = "none"
  /\ stage = "graph"
  /\ pass = 1

Finish(v) == verdict' = v /\ stage' = "done"

\* Mutant: an exception of the graph builder is swallowed.
BuildGraphSwallow ==
  /\ stage = "graph"
  /\ GraphNext
  /\ stage' = IF at' = Built THEN "collect" ELSE stage
  /\ UNCHANGED <<simVars, code, live, slotOf, newCode, verdict, pass>>

BuildGraph ==
  /\ stage = "graph"
  /\ GraphNext
  /\ CASE at' = Thrown -> Finish("thrown")
       [] at' = Built  -> stage' = "collect" /\ UNCHANGED verdict
       [] OTHER        -> UNCHANGED <<stage, verdict>>
  /\ UNCHANGED <<simVars, code, live, slotOf, newCode, pass>>

Collect ==
  /\ stage = "collect"
  /\ live' = {p \in Ins : NeedsSlot(p)}
  /\ slotOf' = [p \in {} |-> 0]
  /\ stage' = "colour"
  /\ UNCHANGED <<graphVars, simVars, code, newCode, verdict, pass>>

\* Vertices are coloured in index order: increasing producerIndex.
Colour ==
  /\ stage = "colour"
  /\ \E p \in live \ Coloured :
       /\ \A q \in live \ Coloured : p <= q
       /\ slotOf' = [x \in Coloured \cup {p} |-> IF x = p THEN FreeColour(p) ELSE slotOf[x]]
  /\ UNCHANGED <<graphVars, simVars, code, live, newCode, verdict, stage, pass>>

CheckColours ==
  /\ stage = "colour" /\ live = Coloured
  /\ IF \E p \in live : slotOf[p] >= SlotCount
       THEN Finish("Unrepairable")
       ELSE stage' = "emit" /\ UNCHANGED verdict
  /\ UNCHANGED <<graphVars, simVars, code, live, slotOf, newCode, pass>>

Emit ==
  /\ stage = "emit"
  /\ IF \E i \in Ins : NewStall(i) > MaxStall
       THEN Finish("Unrepairable") /\ UNCHANGED <<newCode, simVars>>
       ELSE /\ newCode' = Recomputed
            /\ SimStart
            /\ stage' = "walk" /\ UNCHANGED verdict
  /\ UNCHANGED <<graphVars, code, live, slotOf, pass>>

SelfCheck ==
  /\ stage = "walk"
  /\ SimStep(newCode)
  /\ UNCHANGED <<graphVars, correctVars>>

Commit ==
  /\ stage = "walk" /\ SimDone
  /\ IF violations = {}
       THEN code' = newCode /\ Finish("Corrected")
       ELSE UNCHANGED code /\ Finish("InternalError")
  /\ UNCHANGED <<graphVars, simVars, live, slotOf, newCode, pass>>

\* The tool run on the kernel it has just written.
RunAgain ==
  /\ stage = "done" /\ verdict = "Corrected" /\ pass < Passes
  /\ pass' = pass + 1
  /\ stage' = "collect" /\ verdict' = "none"
  /\ UNCHANGED <<graphVars, simVars, code, live, slotOf, newCode>>

Next ==
  \/ BuildGraph \/ Collect \/ Colour \/ CheckColours \/ Emit
  \/ SelfCheck \/ Commit \/ RunAgain

Spec == Init /\ [][Next]_vars
FairSpec == Spec /\ WF_vars(Next)

-------------------------------------------------------------------------------
TypeOK ==
  /\ GraphTypeOK
  /\ SimTypeOK
  /\ code \in [Ins -> Code]
  /\ newCode \in [Ins -> Code]
  /\ live \subseteq Ins
  /\ Coloured \subseteq live
  /\ \A p \in Coloured : slotOf[p] \in 0..N
  /\ verdict \in {"none", "thrown", "Corrected", "Unrepairable", "InternalError"}
  /\ stage \in {"graph", "collect", "colour", "emit", "walk", "done"}
  /\ pass \in Nat

\* correctControlCodes' doc: the self-check "should always report zero residual
\* violations by construction".
SelfCheckNeverFails == verdict # "InternalError"

\* Producers whose interval is open just after instruction t has issued.
InFlight(t) == {p \in live : p <= t /\ t < FirstConsumer(p)}

\* assignBarrierSlots' doc: sharing a slot inside a group never makes the greedy
\* colouring use more slots than the plain interval graph needs, so a kernel is
\* rejected only when more producers than slots really are in flight at once.
RejectedOnlyBeyondCapacity ==
  verdict = "Unrepairable" => \E t \in Ins : Cardinality(InFlight(t)) > SlotCount

\* c_MaxShareableGroupSize's doc: with the recomputed codes no slot ever tracks
\* more producers at once than the confirmed group size, nor two classes.
QueuesStayConfirmed ==
  stage = "walk" => \A s \in Slots :
    /\ Cardinality(pending[s]) <= MaxShare
    /\ \A p, q \in pending[s] : prog[p].key = prog[q].key

\* A commit leaves every dependency closed, keeps every yield flag, never
\* lowers a stall and raises one only where the old codes left an edge open.
CommitRepairs ==
  [][/\ OpenEdges(code') = {}
     /\ \A i \in Ins :
          /\ code'[i].yield = code[i].yield
          /\ code'[i].stall >= code[i].stall
          /\ code'[i].stall > code[i].stall => \E e \in OpenEdges(code) : e.from = i
    ]_code

\* Running correct-cc on its own output changes nothing.
Idempotent == [][pass > 1 => code' = code]_code

\* Every run of the tool ends with a verdict.
AlwaysFinishes == []<>(stage = "done")

\* collectBarrierIntervals' safety net: a barrier the input already opened on a
\* VARIABLE producer is never removed.
ProtectionNeverRemoved ==
  [][\A i \in Ins : SlotOf(code, i) # Unset => SlotOf(code', i) # Unset]_code
===============================================================================
