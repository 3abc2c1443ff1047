--------------------------- MODULE CorrectCCProofs ----------------------------
(***************************************************************************)
(* correct-cc for every kernel: the codes it emits always pass its own     *)
(* self-check, a commit repairs the kernel and disturbs nothing it need    *)
(* not, a kernel is rejected only when more producers than scoreboard      *)
(* slots are in flight at one instruction, no slot tracks more producers   *)
(* than a confirmed group, and a second run changes nothing.               *)
(***************************************************************************)
EXTENDS CorrectedWarp, ScoreboardProofs, FiniteSetTheorems

-------------------------------------------------------------------------------
(* Least elements: FirstConsumer and FreeColour are well defined. *)

\* The first eligible consumer is one, comes after its producer, and before any other.
LEMMA FirstConsumerFacts ==
  ASSUME GraphInv, NEW p \in Ins, EligibleConsumers(p) # {}
  PROVE  /\ FirstConsumer(p) \in EligibleConsumers(p)
         /\ FirstConsumer(p) \in Ins
         /\ p < FirstConsumer(p)
         /\ \A d \in EligibleConsumers(p) : FirstConsumer(p) <= d
<1>1. \A d \in EligibleConsumers(p) : d \in Ins /\ p < d
  BY DEF EligibleConsumers, GraphInv, GraphTypeOK, ForwardEdges, EdgeSet
<1>2. EligibleConsumers(p) \in SUBSET Nat
  BY <1>1, InsFacts
<1>3. \E c \in EligibleConsumers(p) : \A d \in EligibleConsumers(p) : c <= d
  BY <1>2, LeastElement
<1>4. /\ FirstConsumer(p) \in EligibleConsumers(p)
      /\ \A d \in EligibleConsumers(p) : FirstConsumer(p) <= d
  BY <1>3 DEF FirstConsumer
<1>5. QED
  BY <1>1, <1>4

LEMMA InsFinite == IsFiniteSet(Ins) /\ Cardinality(Ins) = N
  BY FS_Interval, KernelAssumption DEF Ins

\* With N instructions there is always one of N + 1 colours left.
LEMMA FreeColourFacts ==
  ASSUME Coloured \subseteq Ins, NEW p \in Ins \ Coloured
  PROVE  /\ FreeColour(p) \in 0..N
         /\ FreeColour(p) \notin TakenBy(p)
         /\ \A t \in 0..N : t < FreeColour(p) => t \in TakenBy(p)
<1> DEFINE Q == {x \in Coloured : Interferes(x, p)}
           Free == (0..N) \ TakenBy(p)
<1>1. IsFiniteSet(Q) /\ Cardinality(Q) <= N
  BY InsFinite, FS_Subset
<1>2. IsFiniteSet(TakenBy(p)) /\ Cardinality(TakenBy(p)) <= Cardinality(Q)
  <2>1. [q \in Q |-> slotOf[q]] \in Surjection(Q, TakenBy(p))
    BY DEF TakenBy, Surjection
  <2>2. QED
    BY <1>1, <2>1, FS_Surjection
<1>3. IsFiniteSet(0..N) /\ Cardinality(0..N) = N + 1
  BY FS_Interval, KernelAssumption
<1>4. Free # {}
  <2>1. SUFFICES ASSUME 0..N \subseteq TakenBy(p) PROVE FALSE
    OBVIOUS
  <2>2. Cardinality(0..N) <= Cardinality(TakenBy(p))
    BY <1>2, <2>1, FS_Subset
  <2>3. Cardinality(Q) \in Nat /\ Cardinality(TakenBy(p)) \in Nat
    BY <1>1, <1>2, FS_CardinalityType
  <2>4. QED
    BY <1>1, <1>2, <1>3, <2>2, <2>3, KernelAssumption
<1>5. Free \in SUBSET Nat
  BY KernelAssumption
<1>6. PICK s \in Free : \A t \in Free : s <= t
  BY <1>4, <1>5, LeastElement
<1>7. s \in 0..N /\ s \notin TakenBy(p) /\ \A t \in 0..N : t < s => t \in TakenBy(p)
  BY <1>6, KernelAssumption
<1>8. QED
  BY <1>7 DEF FreeColour

-------------------------------------------------------------------------------
(* The recomputed codes close every edge. *)

\* What the stages up to the emission have established about the colouring.
Allotted ==
  /\ live = {p \in Ins : NeedsSlot(p)}
  /\ Coloured = live
  /\ \A p \in live : slotOf[p] \in Slots

LEMMA RecomputedTyped ==
  ASSUME code \in [Ins -> Code], Allotted, \A i \in Ins : NewStall(i) <= MaxStall
  PROVE  Recomputed \in [Ins -> Code]
<1>1. SUFFICES ASSUME NEW i \in Ins
      PROVE  [wait |-> WaitMask(i), rd |-> BarrierOf(i, "READ"), wr |-> BarrierOf(i, "WRITE"),
              stall |-> NewStall(i), yield |-> code[i].yield] \in Code
  BY DEF Recomputed
<1>2. code[i].stall \in 0..MaxStall /\ code[i].yield \in BOOLEAN
  BY DEF Code
<1>3. WaitMask(i) \in SUBSET Slots
  BY DEF WaitMask, Allotted
<1>4. BarrierOf(i, "READ") \in Bars /\ BarrierOf(i, "WRITE") \in Bars
  BY DEF BarrierOf, Allotted, Bars, Unset
<1>5. NewStall(i) \in 0..MaxStall
  BY <1>2, KernelAssumption DEF NewStall, RequiredStall
<1>6. QED
  BY <1>2, <1>3, <1>4, <1>5 DEF Code

\* The slot the recomputed code of a producer names is the one it was allotted.
LEMMA RecomputedSlot ==
  ASSUME NEW p \in Ins, LatencyOf(p) \in Directions
  PROVE  SlotOf(Recomputed, p) = IF p \in live THEN slotOf[p] ELSE Unset
<1>1. LatencyOf(p) \in {"READ", "WRITE"} /\ LatencyOf(p) # "FIXED"
  BY DEF Directions
<1>2. /\ Recomputed[p].rd = BarrierOf(p, "READ")
      /\ Recomputed[p].wr = BarrierOf(p, "WRITE")
  BY DEF Recomputed
<1>3. SlotOf(Recomputed, p) = BarrierOf(p, LatencyOf(p))
  BY <1>1, <1>2 DEF SlotOf, Field
<1>4. QED
  BY <1>3 DEF BarrierOf

LEMMA RecomputedCloses ==
  ASSUME GraphInv, code \in [Ins -> Code], Allotted
  PROVE  OpenEdges(Recomputed) = {}
<1>1. SUFFICES ASSUME NEW e \in edges, Open(Recomputed, e) PROVE FALSE
  BY DEF OpenEdges
<1> DEFINE p == e.from
<1>2. p \in Ins /\ e.to \in Ins /\ p < e.to /\ e \in EdgeSet
  BY DEF GraphInv, GraphTypeOK, ForwardEdges, EdgeSet
<1>3. RelevantAccess(e.type) \in Directions
  BY DEF RelevantAccess, Directions
<1>4. Recomputed[p].stall = NewStall(p) /\ code[p].stall \in Nat
  BY <1>2 DEF Recomputed, Code
<1>5. CASE ~Eligible(e)
  <2>1. TooClose(Recomputed, e)
    BY <1>1, <1>5 DEF Open, BarrierProtects, Eligible
  <2>2. RequiredStall(p) = 1
    BY <1>5, <2>1 DEF TooClose, RequiredStall
  <2>3. NewStall(p) # 0
    BY <1>4, <2>2 DEF NewStall
  <2>4. QED
    BY <1>4, <2>1, <2>3 DEF TooClose
<1>6. CASE Eligible(e)
  <2>1. e.to \in EligibleConsumers(p) /\ EligibleConsumers(p) # {}
    BY <1>6 DEF EligibleConsumers
  <2>2. LatencyOf(p) \in Directions /\ SlotOf(Recomputed, p) = IF p \in live THEN slotOf[p] ELSE Unset
    BY <1>2, <1>3, <1>6, RecomputedSlot DEF Eligible
  <2> DEFINE f == FirstConsumer(p)
  <2>3. f \in Ins /\ p < f /\ f <= e.to
    BY <1>2, <2>1, FirstConsumerFacts
  <2>4. CASE p \in live
    <3>1. slotOf[p] \in Recomputed[f].wait
      BY <2>3, <2>4 DEF Recomputed, WaitMask
    <3>2. Waited(Recomputed, p, e.to)
      BY <2>2, <2>3, <2>4, <3>1 DEF Waited
    <3>3. SlotOf(Recomputed, p) # Unset
      BY <2>2, <2>4 DEF Allotted, Unset, Slots
    <3>4. QED
      BY <1>1, <1>6, <3>2, <3>3 DEF Open, BarrierProtects, Eligible
  <2>5. CASE p \notin live
    <3>1. TooClose(Recomputed, e)
      BY <1>1, <2>2, <2>5 DEF Open, BarrierProtects
    <3>2. ~(Margin(p) < MinMargin[prog[p].key])
      BY <1>2, <2>1, <2>5 DEF Allotted, NeedsSlot
    <3>3. MinMargin[prog[p].key] \in Nat \ {0}
      BY <1>2, CorrectAssumption DEF GraphInv, GraphTypeOK, Instr
    <3>4. f = p + 1
      BY <1>2, <2>3, <3>1, InsFacts DEF TooClose
    <3>5. Margin(p) = code[p].stall
      <4>1. Margin(p) = (f - p) - 1 + code[p].stall /\ p \in Nat
        BY <1>2, InsFacts DEF Margin
      <4>2. QED
        BY <1>4, <3>4, <4>1
    <3>6. code[p].stall # 0
      BY <1>4, <3>2, <3>3, <3>5
    <3>7. NewStall(p) # 0
      BY <1>4, <3>6 DEF NewStall, RequiredStall
    <3>8. QED
      BY <1>4, <3>1, <3>7 DEF TooClose
  <2>6. QED
    BY <2>4, <2>5
<1>7. QED
  BY <1>5, <1>6

\* What a commit of the recomputed codes does to the kernel.
LEMMA RecomputedRepairs ==
  ASSUME GraphInv, code \in [Ins -> Code], Allotted, NEW i \in Ins
  PROVE  /\ Recomputed[i].yield = code[i].yield
         /\ Recomputed[i].stall >= code[i].stall
         /\ Recomputed[i].stall > code[i].stall => \E e \in OpenEdges(code) : e.from = i
<1>1. Recomputed[i].yield = code[i].yield /\ Recomputed[i].stall = NewStall(i)
  BY DEF Recomputed
<1>2. code[i].stall \in Nat /\ RequiredStall(i) \in {0, 1}
  BY DEF Code, RequiredStall
<1>3. ASSUME NewStall(i) > code[i].stall PROVE \E e \in OpenEdges(code) : e.from = i
  <2>1. RequiredStall(i) = 1 /\ code[i].stall = 0
    BY <1>2, <1>3 DEF NewStall
  <2>2. PICK e \in edges : e.from = i /\ e.to = i + 1 /\ ~Eligible(e)
    BY <2>1 DEF RequiredStall
  <2>3. Open(code, e)
    BY <2>1, <2>2 DEF Open, TooClose, BarrierProtects, Eligible
  <2>4. QED
    BY <2>2, <2>3 DEF OpenEdges
<1>4. QED
  BY <1>1, <1>2, <1>3 DEF NewStall

-------------------------------------------------------------------------------
(* The inductive invariant. *)

Stages == {"graph", "collect", "colour", "emit", "walk", "done"}

CorrectTypes ==
  /\ GraphInv
  /\ SimTypeOK
  /\ code \in [Ins -> Code] /\ newCode \in [Ins -> Code]
  /\ verdict \in {"none", "thrown", "Corrected", "Unrepairable"}
  /\ stage \in Stages
  /\ pass \in Nat

\* Every producer holding a slot has a consumer to wait for it; the producers are
\* coloured in program order, and each colour skipped is one an earlier
\* interfering producer has.
ColouringInv ==
  /\ live \subseteq Ins /\ Coloured \subseteq live
  /\ \A p \in live : EligibleConsumers(p) # {}
  /\ \A p \in Coloured : slotOf[p] \in 0..N
  /\ \A p \in Coloured : \A q \in live : q < p => q \in Coloured
  /\ \A p \in Coloured : \A t \in 0..N : t < slotOf[p] =>
       \E q \in Coloured : q < p /\ slotOf[q] = t /\ Interferes(q, p)

StageInv ==
  /\ stage = "graph" => live = {}
  /\ stage = "colour" => live = {p \in Ins : NeedsSlot(p)}
  /\ stage \in {"emit", "walk"} => Allotted
  /\ stage = "walk" => newCode = Recomputed /\ WalkInv(newCode)
  /\ verdict # "none" => stage = "done"
  /\ verdict = "Unrepairable" => \E p \in Coloured : slotOf[p] >= SlotCount

CorrectInv == CorrectTypes /\ ColouringInv /\ StageInv

LEMMA CorrectInvInit == Init => CorrectInv
<1>1. SUFFICES ASSUME Init PROVE CorrectInv
  OBVIOUS
<1>2. PICK k \in Kernels : GraphInit(k.prog) /\ code = k.code /\ newCode = k.code
  BY <1>1 DEF Init
<1>3. GraphInv
  BY <1>2, GraphInvInit
<1>4. code \in [Ins -> Code] /\ newCode \in [Ins -> Code]
  BY <1>2, KernelAssumption
<1>5. SimTypeOK
  BY <1>1, KernelAssumption DEF Init, SimInit, SimTypeOK
<1>6. ColouringInv
  BY <1>1 DEF Init, ColouringInv, Coloured
<1>7. StageInv
  BY <1>1 DEF Init, StageInv
<1>8. QED
  BY <1>1, <1>3, <1>4, <1>5, <1>6, <1>7 DEF Init, CorrectInv, CorrectTypes, Stages

\* With the graph unchanged, so are the consumers; with the live producers
\* unchanged too, so is the interference between them; with the codes unchanged,
\* so are the producers that need a slot.
LEMMA GraphKept ==
  ASSUME UNCHANGED graphVars
  PROVE  /\ \A p : EligibleConsumers(p)' = EligibleConsumers(p)
         /\ \A p : FirstConsumer(p)' = FirstConsumer(p)
         /\ live' = live => \A p, q : Interferes(p, q)' <=> Interferes(p, q)
         /\ code' = code => \A p : NeedsSlot(p)' <=> NeedsSlot(p)
<1>1. prog' = prog /\ edges' = edges
  BY DEF graphVars
<1>2. \A p : EligibleConsumers(p)' = EligibleConsumers(p)
  BY <1>1 DEF EligibleConsumers, Eligible, LatencyOf
<1>3. \A p : FirstConsumer(p)' = FirstConsumer(p)
  BY <1>2 DEF FirstConsumer
<1>4. ASSUME live' = live PROVE \A p, q : Interferes(p, q)' <=> Interferes(p, q)
  <2>1. \A p, q : SameClassBetween(p, q)' <=> SameClassBetween(p, q)
    BY <1>1, <1>4 DEF SameClassBetween
  <2>2. \A p : RunPosition(p)' = RunPosition(p)
    BY <1>4, <2>1 DEF RunPosition
  <2>3. \A p, q : Shareable(p, q)' <=> Shareable(p, q)
    BY <2>1, <2>2 DEF Shareable, InOrderShareable
  <2>4. \A p, q : Overlap(p, q)' <=> Overlap(p, q)
    BY <1>3 DEF Overlap
  <2>5. QED
    BY <2>3, <2>4 DEF Interferes
<1>5. ASSUME code' = code PROVE \A p : NeedsSlot(p)' <=> NeedsSlot(p)
  BY <1>1, <1>2, <1>3, <1>5 DEF NeedsSlot, Margin, SlotOf, LatencyOf
<1>6. QED
  BY <1>2, <1>3, <1>4, <1>5

LEMMA ColouringKept ==
  ASSUME ColouringInv, UNCHANGED <<graphVars, live, slotOf>>
  PROVE  ColouringInv'
<1>1. /\ \A p : EligibleConsumers(p)' = EligibleConsumers(p)
      /\ \A p, q : Interferes(p, q)' <=> Interferes(p, q)
  BY GraphKept
<1>2. Coloured' = Coloured
  BY DEF Coloured
<1>3. QED
  BY <1>1, <1>2 DEF ColouringInv

LEMMA AllottedKept ==
  ASSUME UNCHANGED <<graphVars, live, slotOf, code>>
  PROVE  (Allotted' <=> Allotted) /\ Recomputed' = Recomputed
<1>1. \A p : NeedsSlot(p)' <=> NeedsSlot(p)
  BY GraphKept
<1>2. Allotted' <=> Allotted
  BY <1>1 DEF Allotted, Coloured
<1>3. /\ \A i : WaitMask(i)' = WaitMask(i)
      /\ \A i, d : BarrierOf(i, d)' = BarrierOf(i, d)
      /\ \A i : NewStall(i)' = NewStall(i)
  <2>1. \A p : FirstConsumer(p)' = FirstConsumer(p)
    BY GraphKept
  <2>2. prog' = prog /\ edges' = edges
    BY DEF graphVars
  <2>3. \A i : WaitMask(i)' = WaitMask(i)
    BY <2>1 DEF WaitMask
  <2>4. \A i, d : BarrierOf(i, d)' = BarrierOf(i, d)
    BY <2>2 DEF BarrierOf, LatencyOf
  <2>5. \A i : RequiredStall(i)' = RequiredStall(i)
    BY <2>2 DEF RequiredStall, Eligible, LatencyOf
  <2>6. QED
    BY <2>3, <2>4, <2>5 DEF NewStall
<1>4. Recomputed' = Recomputed
  BY <1>3 DEF Recomputed
<1>5. QED
  BY <1>2, <1>4

\* The self-check keeps walking the codes it was given.
LEMMA SelfCheckWalk ==
  ASSUME GraphInv, newCode \in [Ins -> Code], WalkInv(newCode), SimStep(newCode),
         UNCHANGED graphVars, UNCHANGED newCode
  PROVE  WalkInv(newCode)'
<1>1. /\ pos' \in 1..(N + 1)
      /\ retired' = {p \in Ins : p < pos' /\ Waited(newCode, p, pos' - 1)}
      /\ pending' = [s \in Slots |->
           {p \in Ins : p < pos' /\ SlotOf(newCode, p) = s /\ ~Waited(newCode, p, pos' - 1)}]
      /\ violations' = {e \in edges : e.to < pos' /\ Open(newCode, e)}
  BY WalkStep
<1>2. prog' = prog /\ edges' = edges
  BY DEF graphVars
<1>3. \A p : SlotOf(newCode, p)' = SlotOf(newCode, p)
  BY <1>2 DEF SlotOf, LatencyOf
<1>4. \A p, i : Waited(newCode, p, i)' <=> Waited(newCode, p, i)
  BY <1>3 DEF Waited
<1>5. \A p \in Ins : Waited(newCode, p, pos' - 1) <=> Waited(newCode, p, pos - 1)'
  BY <1>3 DEF Waited
<1>6. \A e : Open(newCode, e)' <=> Open(newCode, e)
  BY <1>2, <1>3, <1>4 DEF Open, BarrierProtects, TooClose, LatencyOf
<1>7. QED
  BY <1>1, <1>2, <1>3, <1>5, <1>6 DEF WalkInv

-------------------------------------------------------------------------------
(* One lemma per action. *)

LEMMA BuildGraphStep == CorrectInv /\ BuildGraph => CorrectInv'
<1>1. SUFFICES ASSUME CorrectInv, BuildGraph PROVE CorrectInv'
  OBVIOUS
<1>2. stage = "graph" /\ GraphNext /\ UNCHANGED <<simVars, code, live, slotOf, newCode, pass>>
  BY <1>1 DEF BuildGraph
<1>3. /\ stage' \in {"graph", "collect", "done"} /\ verdict' \in {verdict, "thrown"}
      /\ verdict' # "none" => stage' = "done"
  <2>1. verdict = "none"
    BY <1>1, <1>2 DEF CorrectInv, StageInv
  <2>2. CASE at' = Thrown
    BY <1>1, <2>1, <2>2, KernelAssumption DEF BuildGraph, Finish, Thrown, Built
  <2>3. CASE at' = Built
    BY <1>1, <2>1, <2>3, KernelAssumption DEF BuildGraph, Finish, Thrown, Built
  <2>4. CASE at' # Thrown /\ at' # Built
    BY <1>1, <1>2, <2>1, <2>4 DEF BuildGraph
  <2>5. QED
    BY <2>2, <2>3, <2>4
<1>4. live = {} /\ live' = {} /\ Coloured = {} /\ Coloured' = {}
  BY <1>1, <1>2 DEF CorrectInv, StageInv, ColouringInv, Coloured
<1>5. ColouringInv'
  BY <1>4 DEF ColouringInv
<1>6. GraphInv'
  BY <1>1, <1>2, GraphInvStep DEF CorrectInv, CorrectTypes
<1>7. SimTypeOK'
  BY <1>1, <1>2 DEF CorrectInv, CorrectTypes, SimTypeOK, simVars
<1>8. CorrectTypes'
  BY <1>1, <1>2, <1>3, <1>6, <1>7 DEF CorrectInv, CorrectTypes, Stages
<1>9. StageInv'
  BY <1>1, <1>2, <1>3, <1>4 DEF CorrectInv, StageInv
<1>10. QED
  BY <1>5, <1>8, <1>9 DEF CorrectInv

\* The part of the invariant every later action keeps in the same way.
LEMMA TypesKept ==
  ASSUME CorrectTypes, UNCHANGED <<graphVars, simVars, code, newCode, pass>>,
         verdict' \in {"none", "thrown", "Corrected", "Unrepairable"}, stage' \in Stages
  PROVE  CorrectTypes'
<1>1. GraphInv'
  BY GraphInvStep DEF CorrectTypes
<1>2. SimTypeOK'
  BY DEF CorrectTypes, SimTypeOK, simVars
<1>3. QED
  BY <1>1, <1>2 DEF CorrectTypes

LEMMA CollectStep == CorrectInv /\ Collect => CorrectInv'
<1>1. SUFFICES ASSUME CorrectInv, Collect PROVE CorrectInv'
  OBVIOUS
<1>2. /\ stage = "collect" /\ stage' = "colour" /\ verdict' = verdict
      /\ live' = {p \in Ins : NeedsSlot(p)}
      /\ UNCHANGED <<graphVars, simVars, code, newCode, pass>>
  BY <1>1 DEF Collect
<1>3. CorrectTypes'
  BY <1>1, <1>2, TypesKept DEF CorrectInv, CorrectTypes, Stages
<1>4. Coloured' = {}
  BY <1>1 DEF Collect, Coloured
<1>5. ColouringInv'
  <2>1. \A p \in live' : EligibleConsumers(p)' # {}
    BY <1>2, GraphKept DEF NeedsSlot
  <2>2. QED
    BY <1>2, <1>4, <2>1 DEF ColouringInv
<1>6. StageInv'
  <2>1. live' = {p \in Ins : NeedsSlot(p)'}
    BY <1>2, GraphKept
  <2>2. verdict' = "none"
    BY <1>1, <1>2 DEF CorrectInv, StageInv
  <2>3. QED
    BY <1>2, <2>1, <2>2 DEF StageInv
<1>7. QED
  BY <1>3, <1>5, <1>6 DEF CorrectInv

LEMMA ColourStep == CorrectInv /\ Colour => CorrectInv'
<1>1. SUFFICES ASSUME CorrectInv, Colour PROVE CorrectInv'
  OBVIOUS
<1>2. PICK p \in live \ Coloured :
        /\ \A q \in live \ Coloured : p <= q
        /\ slotOf' = [x \in Coloured \cup {p} |-> IF x = p THEN FreeColour(p) ELSE slotOf[x]]
  BY <1>1 DEF Colour
<1>3. /\ stage = "colour" /\ stage' = "colour" /\ verdict' = verdict /\ live' = live
      /\ UNCHANGED <<graphVars, simVars, code, newCode, pass>>
  BY <1>1 DEF Colour
<1>4. CorrectTypes'
  BY <1>1, <1>3, TypesKept DEF CorrectInv, CorrectTypes, Stages
<1>5. /\ Coloured' = Coloured \cup {p} /\ p \notin Coloured
      /\ slotOf'[p] = FreeColour(p)
      /\ \A x \in Coloured : slotOf'[x] = slotOf[x]
  BY <1>2 DEF Coloured
<1>6. ColouringInv'
  <2>1. ColouringInv /\ live \subseteq Ins /\ Coloured \subseteq live /\ p \in Ins
    BY <1>1, <1>2 DEF CorrectInv, ColouringInv
  <2>2. /\ FreeColour(p) \in 0..N
        /\ \A t \in 0..N : t < FreeColour(p) => t \in TakenBy(p)
    BY <1>5, <2>1, FreeColourFacts
  <2>3. \A q \in Coloured : q < p
    <3>1. SUFFICES ASSUME NEW q \in Coloured, ~(q < p) PROVE FALSE
      OBVIOUS
    <3>2. p < q
      BY <1>5, <2>1, <3>1, InsFacts
    <3>3. QED
      BY <1>2, <1>5, <2>1, <3>1, <3>2 DEF ColouringInv
  <2>4. \A q \in live : q < p => q \in Coloured
    BY <1>2, <2>1, InsFacts
  <2>5. (\A q : EligibleConsumers(q)' = EligibleConsumers(q))
        /\ \A q, x : Interferes(q, x)' <=> Interferes(q, x)
    BY <1>3, GraphKept
  <2>6. \A x \in Coloured' : \A t \in 0..N : t < slotOf'[x] =>
          \E q \in Coloured' : q < x /\ slotOf'[q] = t /\ Interferes(q, x)
    <3> SUFFICES ASSUME NEW x \in Coloured', NEW t \in 0..N, t < slotOf'[x]
                 PROVE  \E q \in Coloured' : q < x /\ slotOf'[q] = t /\ Interferes(q, x)
      OBVIOUS
    <3>1. CASE x = p
      <4>1. t \in TakenBy(p)
        BY <1>5, <2>2, <3>1
      <4>2. PICK q \in Coloured : Interferes(q, p) /\ slotOf[q] = t
        BY <4>1 DEF TakenBy
      <4>3. QED
        BY <1>5, <2>3, <3>1, <4>2
    <3>2. CASE x # p
      BY <1>5, <2>1, <3>2 DEF ColouringInv
    <3>3. QED
      BY <3>1, <3>2
  <2>7. QED
    BY <1>2, <1>3, <1>5, <2>1, <2>2, <2>3, <2>4, <2>5, <2>6 DEF ColouringInv
<1>7. StageInv'
  <2>1. live' = {x \in Ins : NeedsSlot(x)'}
    BY <1>1, <1>3, GraphKept DEF CorrectInv, StageInv
  <2>2. verdict' = "none"
    BY <1>1, <1>3 DEF CorrectInv, StageInv
  <2>3. QED
    BY <1>3, <2>1, <2>2 DEF StageInv
<1>8. QED
  BY <1>4, <1>6, <1>7 DEF CorrectInv

LEMMA CheckColoursStep == CorrectInv /\ CheckColours => CorrectInv'
<1>1. SUFFICES ASSUME CorrectInv, CheckColours PROVE CorrectInv'
  OBVIOUS
<1>2. /\ stage = "colour" /\ live = Coloured /\ verdict = "none"
      /\ UNCHANGED <<graphVars, simVars, code, live, slotOf, newCode, pass>>
  BY <1>1 DEF CheckColours, CorrectInv, StageInv
<1>3. ColouringInv'
  BY <1>1, <1>2, ColouringKept DEF CorrectInv
<1>4. Coloured' = Coloured
  BY <1>2 DEF Coloured
<1>5. CASE \E p \in live : slotOf[p] >= SlotCount
  <2>1. verdict' = "Unrepairable" /\ stage' = "done"
    BY <1>1, <1>5 DEF CheckColours, Finish
  <2>2. CorrectTypes'
    BY <1>1, <1>2, <2>1, TypesKept DEF CorrectInv, Stages
  <2>3. StageInv'
    BY <1>2, <1>4, <1>5, <2>1 DEF StageInv
  <2>4. QED
    BY <1>3, <2>2, <2>3 DEF CorrectInv
<1>6. CASE ~\E p \in live : slotOf[p] >= SlotCount
  <2>1. verdict' = "none" /\ stage' = "emit"
    BY <1>1, <1>2, <1>6 DEF CheckColours
  <2>2. CorrectTypes'
    BY <1>1, <1>2, <2>1, TypesKept DEF CorrectInv, Stages
  <2>3. Allotted
    <3>1. live = {p \in Ins : NeedsSlot(p)}
      BY <1>1, <1>2 DEF CorrectInv, StageInv
    <3>2. \A p \in live : slotOf[p] \in 0..N /\ ~(slotOf[p] >= SlotCount)
      BY <1>1, <1>2, <1>6 DEF CorrectInv, ColouringInv
    <3>3. \A p \in live : slotOf[p] \in Slots
      BY <3>2, KernelAssumption DEF Slots
    <3>4. QED
      BY <1>2, <3>1, <3>3 DEF Allotted
  <2>4. Allotted'
    BY <1>2, <2>3, AllottedKept
  <2>5. StageInv'
    BY <2>1, <2>4 DEF StageInv
  <2>6. QED
    BY <1>3, <2>2, <2>5 DEF CorrectInv
<1>7. QED
  BY <1>5, <1>6

\* A stall the code already fits in the field still fits: the floor is 1.
LEMMA StallFits ==
  ASSUME code \in [Ins -> Code], NEW i \in Ins
  PROVE  NewStall(i) <= MaxStall
<1>1. code[i].stall \in 0..MaxStall /\ RequiredStall(i) \in {0, 1}
  BY DEF Code, RequiredStall
<1>2. QED
  BY <1>1, KernelAssumption DEF NewStall

LEMMA EmitStep == CorrectInv /\ Emit => CorrectInv'
<1>1. SUFFICES ASSUME CorrectInv, Emit PROVE CorrectInv'
  OBVIOUS
<1>2. /\ stage = "emit" /\ verdict = "none" /\ Allotted
      /\ GraphInv /\ code \in [Ins -> Code]
      /\ UNCHANGED <<graphVars, code, live, slotOf, pass>>
  BY <1>1 DEF Emit, CorrectInv, StageInv, CorrectTypes
<1>3. \A i \in Ins : NewStall(i) <= MaxStall /\ ~(NewStall(i) > MaxStall)
  <2>1. SUFFICES ASSUME NEW i \in Ins PROVE NewStall(i) <= MaxStall /\ ~(NewStall(i) > MaxStall)
    OBVIOUS
  <2>2. NewStall(i) \in Int /\ NewStall(i) <= MaxStall
    BY <1>2, StallFits DEF NewStall, RequiredStall, Code
  <2>3. QED
    BY <2>2, KernelAssumption
<1>4. newCode' = Recomputed /\ SimStart /\ stage' = "walk" /\ verdict' = verdict
  BY <1>1, <1>3 DEF Emit
<1>5. ColouringInv'
  BY <1>1, <1>2, ColouringKept DEF CorrectInv
<1>6. Allotted' /\ Recomputed' = Recomputed
  BY <1>2, AllottedKept
<1>7. WalkInv(newCode)'
  <2>1. pos' = 1 /\ pending' = [s \in Slots |-> {}] /\ retired' = {} /\ violations' = {}
    BY <1>4 DEF SimStart
  <2>2. 1 \in 1..(N + 1) /\ edges' = edges
    BY <1>2, KernelAssumption DEF graphVars
  <2>3. QED
    BY <1>2, <2>1, <2>2, WalkStart DEF WalkInv
<1>8. SimTypeOK'
  BY <1>4, KernelAssumption DEF SimStart, SimTypeOK
<1>9. newCode' \in [Ins -> Code]
  BY <1>2, <1>3, <1>4, RecomputedTyped
<1>10. GraphInv'
  BY <1>2, GraphInvStep
<1>11. CorrectTypes'
  BY <1>1, <1>2, <1>4, <1>8, <1>9, <1>10 DEF CorrectInv, CorrectTypes, Stages
<1>12. StageInv'
  BY <1>2, <1>4, <1>6, <1>7 DEF StageInv
<1>13. QED
  BY <1>5, <1>11, <1>12 DEF CorrectInv

LEMMA SelfCheckStep == CorrectInv /\ SelfCheck => CorrectInv'
<1>1. SUFFICES ASSUME CorrectInv, SelfCheck PROVE CorrectInv'
  OBVIOUS
<1>2. /\ stage = "walk" /\ SimStep(newCode) /\ UNCHANGED <<graphVars, correctVars>>
      /\ Allotted /\ newCode = Recomputed /\ WalkInv(newCode)
      /\ GraphInv /\ newCode \in [Ins -> Code]
  BY <1>1 DEF SelfCheck, CorrectInv, StageInv, CorrectTypes
<1>3. UNCHANGED <<code, live, slotOf, newCode, verdict, stage, pass>>
  BY <1>2 DEF correctVars
<1>4. GraphInv' /\ WalkInv(newCode)'
  BY <1>2, <1>3, GraphInvStep, SelfCheckWalk
<1>5. SimTypeOK'
  <2>1. \A e \in edges' : e \in EdgeSet
    BY <1>4 DEF GraphInv, GraphTypeOK
  <2>2. pos' \in 0..(N + 1)
    BY <1>4, KernelAssumption DEF WalkInv
  <2>3. QED
    BY <1>4, <2>1, <2>2 DEF WalkInv, SimTypeOK
<1>6. ColouringInv'
  BY <1>1, <1>2, <1>3, ColouringKept DEF CorrectInv
<1>7. Allotted' /\ Recomputed' = Recomputed
  BY <1>2, <1>3, AllottedKept
<1>8. CorrectTypes'
  BY <1>1, <1>3, <1>4, <1>5 DEF CorrectInv, CorrectTypes
<1>9. StageInv'
  BY <1>1, <1>2, <1>3, <1>4, <1>7 DEF CorrectInv, StageInv
<1>10. QED
  BY <1>6, <1>8, <1>9 DEF CorrectInv

\* When the self-check has ended it has found nothing.
LEMMA SelfCheckClean ==
  ASSUME CorrectInv, stage = "walk", SimDone
  PROVE  violations = {} /\ newCode = Recomputed /\ OpenEdges(newCode) = {}
<1>1. /\ GraphInv /\ code \in [Ins -> Code] /\ Allotted
      /\ newCode = Recomputed /\ WalkInv(newCode)
  BY DEF CorrectInv, StageInv, CorrectTypes
<1>2. OpenEdges(Recomputed) = {}
  BY <1>1, RecomputedCloses
<1>3. violations = OpenEdges(newCode)
  BY <1>1, WalkEnd
<1>4. QED
  BY <1>1, <1>2, <1>3

LEMMA CommitStep == CorrectInv /\ Commit => CorrectInv' /\ code' = Recomputed
<1>1. SUFFICES ASSUME CorrectInv, Commit PROVE CorrectInv' /\ code' = Recomputed
  OBVIOUS
<1>2. /\ stage = "walk" /\ SimDone
      /\ UNCHANGED <<graphVars, simVars, live, slotOf, newCode, pass>>
  BY <1>1 DEF Commit
<1>3. violations = {} /\ newCode = Recomputed
  BY <1>1, <1>2, SelfCheckClean
<1>4. code' = newCode /\ verdict' = "Corrected" /\ stage' = "done"
  BY <1>1, <1>3 DEF Commit, Finish
<1>5. ColouringInv'
  BY <1>1, <1>2, ColouringKept DEF CorrectInv
<1>6. GraphInv' /\ SimTypeOK'
  BY <1>1, <1>2, GraphInvStep DEF CorrectInv, CorrectTypes, SimTypeOK, simVars
<1>7. CorrectTypes'
  BY <1>1, <1>2, <1>4, <1>6 DEF CorrectInv, CorrectTypes, Stages
<1>8. StageInv'
  BY <1>4 DEF StageInv
<1>9. QED
  BY <1>3, <1>4, <1>5, <1>7, <1>8 DEF CorrectInv

LEMMA RunAgainStep == CorrectInv /\ RunAgain => CorrectInv'
<1>1. SUFFICES ASSUME CorrectInv, RunAgain PROVE CorrectInv'
  OBVIOUS
<1>2. /\ stage' = "collect" /\ verdict' = "none" /\ pass' = pass + 1
      /\ UNCHANGED <<graphVars, simVars, code, live, slotOf, newCode>>
  BY <1>1 DEF RunAgain
<1>3. ColouringInv'
  BY <1>1, <1>2, ColouringKept DEF CorrectInv
<1>4. GraphInv' /\ SimTypeOK'
  BY <1>1, <1>2, GraphInvStep DEF CorrectInv, CorrectTypes, SimTypeOK, simVars
<1>5. CorrectTypes'
  BY <1>1, <1>2, <1>4 DEF CorrectInv, CorrectTypes, Stages
<1>6. StageInv'
  BY <1>2 DEF StageInv
<1>7. QED
  BY <1>3, <1>5, <1>6 DEF CorrectInv

LEMMA CorrectInvStep == CorrectInv /\ [Next]_vars => CorrectInv'
<1>1. SUFFICES ASSUME CorrectInv, UNCHANGED vars PROVE CorrectInv'
  BY BuildGraphStep, CollectStep, ColourStep, CheckColoursStep, EmitStep, SelfCheckStep,
     CommitStep, RunAgainStep DEF Next
<1>2. UNCHANGED <<graphVars, simVars, code, live, slotOf, newCode, verdict, stage, pass>>
  BY <1>1 DEF vars, correctVars
<1>3. ColouringInv'
  BY <1>1, <1>2, ColouringKept DEF CorrectInv
<1>4. CorrectTypes'
  BY <1>1, <1>2, TypesKept DEF CorrectInv, CorrectTypes
<1>5. Allotted' <=> Allotted
  BY <1>2, AllottedKept
<1>6. Recomputed' = Recomputed
  BY <1>2, AllottedKept
<1>7. live = {p \in Ins : NeedsSlot(p)} <=> live' = {p \in Ins : NeedsSlot(p)'}
  BY <1>2, GraphKept
<1>8. WalkInv(newCode)' <=> WalkInv(newCode)
  BY <1>2 DEF WalkInv, simVars, graphVars, Waited, Open, BarrierProtects, TooClose, SlotOf, LatencyOf
<1>9. StageInv'
  BY <1>1, <1>2, <1>5, <1>6, <1>7, <1>8 DEF CorrectInv, StageInv, Coloured
<1>10. QED
  BY <1>3, <1>4, <1>9 DEF CorrectInv

-------------------------------------------------------------------------------
\* The variables of correct-cc keep their types; every colour the greedy pass
\* picks exists.
THEOREM TypeCorrect == Spec => []TypeOK
<1>1. CorrectInv => TypeOK
  BY DEF CorrectInv, CorrectTypes, ColouringInv, GraphInv, TypeOK, Stages
<1>2. QED
  BY <1>1, CorrectInvInit, CorrectInvStep, PTL DEF Spec

\* The codes correctControlCodes recomputes always pass its own self-check: the
\* InternalError verdict is unreachable on every kernel.
THEOREM SelfCheckCorrect == Spec => []SelfCheckNeverFails
<1>1. CorrectInv => SelfCheckNeverFails
  BY DEF CorrectInv, CorrectTypes, SelfCheckNeverFails
<1>2. QED
  BY <1>1, CorrectInvInit, CorrectInvStep, PTL DEF Spec

\* Whatever codes a kernel comes with, the ones committed close every edge of its
\* graph, keep each yield flag and raise a stall only where an edge was open.
THEOREM CommitCorrect == Spec => CommitRepairs
<1> DEFINE Repaired ==
      /\ OpenEdges(code') = {}
      /\ \A i \in Ins :
           /\ code'[i].yield = code[i].yield
           /\ code'[i].stall >= code[i].stall
           /\ code'[i].stall > code[i].stall => \E e \in OpenEdges(code) : e.from = i
<1>1. ASSUME CorrectInv, [Next]_vars, code' # code PROVE Repaired
  <2>1. Commit
    BY <1>1 DEF Next, vars, correctVars, BuildGraph, Collect, Colour, CheckColours, Emit,
                SelfCheck, RunAgain
  <2>2. code' = Recomputed
    BY <1>1, <2>1, CommitStep
  <2>3. GraphInv /\ code \in [Ins -> Code] /\ Allotted
    BY <1>1, <2>1 DEF Commit, CorrectInv, CorrectTypes, StageInv
  <2>4. OpenEdges(Recomputed) = {}
    BY <2>3, RecomputedCloses
  <2>5. QED
    BY <2>2, <2>3, <2>4, RecomputedRepairs
<1>2. CorrectInv /\ [Next]_vars => [Repaired]_code
  BY <1>1
<1>3. QED
  BY <1>2, CorrectInvInit, CorrectInvStep, PTL DEF Spec, CommitRepairs

\* A producer whose colour is beyond the last slot has a producer of its own in
\* flight for every slot below it.
LEMMA Crowded ==
  ASSUME GraphInv, ColouringInv, NEW p \in Coloured, slotOf[p] >= SlotCount
  PROVE  Cardinality(InFlight(p)) > SlotCount
<1> DEFINE Has(q, t) == q \in Coloured /\ q < p /\ slotOf[q] = t /\ Interferes(q, p)
           Others == InFlight(p) \ {p}
           f == [t \in Slots |-> CHOOSE q : Has(q, t)]
<1>1. p \in live /\ p \in Ins /\ slotOf[p] \in 0..N /\ live \subseteq Ins
  BY DEF ColouringInv
<1>2. p < FirstConsumer(p)
  BY <1>1, FirstConsumerFacts DEF ColouringInv
<1>3. ASSUME NEW t \in Slots PROVE Has(f[t], t)
  <2>1. t \in 0..N /\ t < slotOf[p]
    BY <1>1, KernelAssumption DEF Slots
  <2>2. \E q : Has(q, t)
    BY <2>1 DEF ColouringInv
  <2>3. QED
    BY <2>2
<1>4. \A t \in Slots : f[t] \in Others
  <2>1. SUFFICES ASSUME NEW t \in Slots PROVE f[t] \in Others
    OBVIOUS
  <2>2. Has(f[t], t)
    BY <1>3
  <2> HIDE DEF f
  <2>3. f[t] \in live /\ f[t] \in Ins /\ f[t] < p /\ p < FirstConsumer(f[t])
    BY <1>1, <2>2 DEF Interferes, Overlap, ColouringInv
  <2>4. f[t] \in Nat /\ p \in Nat
    BY <2>3, <1>1, InsFacts
  <2>5. f[t] <= p /\ f[t] # p
    BY <2>3, <2>4
  <2>6. QED
    BY <2>3, <2>5 DEF InFlight
<1>5. \A t, u \in Slots : f[t] = f[u] => t = u
  <2> HIDE DEF f
  <2>1. QED
    BY <1>3
<1>6. f \in Injection(Slots, Others)
  <2>1. f \in [Slots -> Others]
    BY <1>4
  <2> HIDE DEF f
  <2>2. QED
    BY <1>5, <2>1 DEF Injection, IsInjective
<1>7. IsFiniteSet(InFlight(p)) /\ p \in InFlight(p)
  <2>1. InFlight(p) \in SUBSET Ins
    BY <1>1 DEF InFlight
  <2>2. IsFiniteSet(InFlight(p))
    BY <2>1, InsFinite, FS_Subset
  <2>3. QED
    BY <1>1, <1>2, <2>2, InsFacts DEF InFlight
<1>8. /\ IsFiniteSet(Others) /\ Cardinality(Others) = Cardinality(InFlight(p)) - 1
      /\ Cardinality(InFlight(p)) \in Nat
  BY <1>7, FS_RemoveElement, FS_CardinalityType
<1>9. Cardinality(Slots) <= Cardinality(Others)
  <2> HIDE DEF f, Others
  <2>1. QED
    BY <1>6, <1>8, FS_Injection
<1>10. Cardinality(Slots) = SlotCount
  BY FS_Interval, KernelAssumption DEF Slots
<1>11. QED
  BY <1>8, <1>9, <1>10, KernelAssumption

\* correct-cc rejects a kernel as unrepairable only when at some instruction more
\* producers than scoreboard slots really are in flight: the greedy colouring with
\* its sharing groups loses nothing against the interval graph's optimum.
THEOREM RejectionCorrect == Spec => []RejectedOnlyBeyondCapacity
<1>1. CorrectInv => RejectedOnlyBeyondCapacity
  <2>1. SUFFICES ASSUME CorrectInv, verdict = "Unrepairable"
                 PROVE  \E t \in Ins : Cardinality(InFlight(t)) > SlotCount
    BY DEF RejectedOnlyBeyondCapacity
  <2>2. PICK p \in Coloured : slotOf[p] >= SlotCount
    BY <2>1 DEF CorrectInv, StageInv
  <2>3. p \in Ins
    BY <2>1, <2>2 DEF CorrectInv, ColouringInv
  <2>4. QED
    BY <2>1, <2>2, <2>3, Crowded DEF CorrectInv, CorrectTypes
<1>2. QED
  BY <1>1, CorrectInvInit, CorrectInvStep, PTL DEF Spec
-------------------------------------------------------------------------------
(* The colouring is proper, and no slot tracks more than a confirmed group. *)

ProperInv == \A p, q \in Coloured : Interferes(p, q) => slotOf[p] # slotOf[q]

\* Interference does not depend on which producer comes first.
LEMMA InterferesBoth ==
  ASSUME NEW p \in Ins, NEW q \in Ins
  PROVE  Interferes(p, q) <=> Interferes(q, p)
<1>1. Overlap(p, q) <=> Overlap(q, p)
  BY DEF Overlap
<1>2. p # q => (Shareable(p, q) <=> Shareable(q, p))
  BY InsFacts DEF Shareable
<1>3. QED
  BY <1>1, <1>2 DEF Interferes

\* A producer is coloured when those before it are and those behind it are not.
LEMMA ColouredBefore ==
  ASSUME ColouringInv, NEW p \in live \ Coloured, \A q \in live \ Coloured : p <= q
  PROVE  /\ \A q \in Coloured : q < p
         /\ \A q \in live : q < p => q \in Coloured
<1>1. live \subseteq Ins /\ Coloured \subseteq live
  BY DEF ColouringInv
<1>2. \A q \in live : q < p => q \in Coloured
  BY <1>1, InsFacts
<1>3. ASSUME NEW q \in Coloured, ~(q < p) PROVE FALSE
  <2>1. p < q
    BY <1>1, <1>3, InsFacts
  <2>2. QED
    BY <1>3, <2>1 DEF ColouringInv
<1>4. QED
  BY <1>2, <1>3

LEMMA ProperStep == CorrectInv /\ ProperInv /\ [Next]_vars => ProperInv'
<1>1. SUFFICES ASSUME CorrectInv, ProperInv, [Next]_vars PROVE ProperInv'
  OBVIOUS
<1>2. live \subseteq Ins /\ Coloured \subseteq live
  BY <1>1 DEF CorrectInv, ColouringInv
<1>3. CASE UNCHANGED <<graphVars, live, slotOf>>
  <2>1. \A p, q : Interferes(p, q)' <=> Interferes(p, q)
    BY <1>3, GraphKept
  <2>2. Coloured' = Coloured
    BY <1>3 DEF Coloured
  <2>3. QED
    BY <1>1, <1>3, <2>1, <2>2 DEF ProperInv
<1>4. CASE BuildGraph \/ Collect
  <2>1. Coloured' = {}
    BY <1>1, <1>4 DEF BuildGraph, Collect, CorrectInv, ColouringInv, StageInv, Coloured
  <2>2. QED
    BY <2>1 DEF ProperInv
<1>5. CASE Colour
  <2>1. PICK p \in live \ Coloured :
          /\ \A q \in live \ Coloured : p <= q
          /\ slotOf' = [x \in Coloured \cup {p} |-> IF x = p THEN FreeColour(p) ELSE slotOf[x]]
    BY <1>5 DEF Colour
  <2>2. /\ Coloured' = Coloured \cup {p} /\ slotOf'[p] = FreeColour(p)
        /\ \A x \in Coloured : x # p /\ slotOf'[x] = slotOf[x]
    BY <2>1 DEF Coloured
  <2>3. \A x, y : Interferes(x, y)' <=> Interferes(x, y)
    BY <1>5, GraphKept DEF Colour
  <2>4. FreeColour(p) \notin TakenBy(p)
    BY <1>2, FreeColourFacts
  <2>5. \A x \in Coloured : Interferes(x, p) => slotOf'[x] # slotOf'[p]
    BY <2>2, <2>4 DEF TakenBy
  <2>6. \A x \in Coloured : Interferes(p, x) => slotOf'[p] # slotOf'[x]
    BY <1>2, <2>5, InterferesBoth
  <2>7. ~Interferes(p, p)
    BY DEF Interferes
  <2>8. QED
    BY <1>1, <2>2, <2>3, <2>5, <2>6, <2>7 DEF ProperInv
<1>6. QED
  BY <1>1, <1>3, <1>4, <1>5
  DEF Next, vars, correctVars, CheckColours, Emit, SelfCheck, Commit, RunAgain

\* Producers waiting on a slot of the self-check hold it by the colouring, and
\* their first consumers have not issued.
LEMMA PendingFacts ==
  ASSUME CorrectInv, stage = "walk", NEW s \in Slots, NEW p \in pending[s]
  PROVE  p \in Ins /\ p \in live /\ slotOf[p] = s /\ p < pos /\ pos <= FirstConsumer(p)
<1>1. /\ GraphInv /\ Allotted /\ newCode = Recomputed /\ WalkInv(newCode) /\ ColouringInv
      /\ pos \in Nat
  BY DEF CorrectInv, CorrectTypes, StageInv, WalkInv
<1>2. p \in Ins /\ p < pos /\ SlotOf(Recomputed, p) = s /\ ~Waited(Recomputed, p, pos - 1)
  BY <1>1 DEF WalkInv
<1>3. s # Unset
  BY KernelAssumption DEF Slots, Unset
<1>4. LatencyOf(p) \in Directions
  <2>1. LatencyOf(p) # "FIXED"
    BY <1>2, <1>3 DEF SlotOf
  <2>2. prog[p].key \in Keys
    BY <1>1, <1>2 DEF GraphInv, GraphTypeOK, Instr
  <2>3. QED
    BY <2>1, <2>2, KernelAssumption DEF LatencyOf, Directions
<1>5. p \in live /\ slotOf[p] = s
  BY <1>2, <1>3, <1>4, RecomputedSlot
<1>6. FirstConsumer(p) \in Ins /\ p < FirstConsumer(p)
  BY <1>1, <1>2, <1>5, FirstConsumerFacts DEF ColouringInv
<1>7. s \in Recomputed[FirstConsumer(p)].wait
  BY <1>5, <1>6 DEF Recomputed, WaitMask
<1>8. ~(FirstConsumer(p) <= pos - 1)
  BY <1>2, <1>6, <1>7 DEF Waited
<1>9. QED
  BY <1>1, <1>2, <1>5, <1>6, <1>8, InsFacts

\* Two of them are in one group.
LEMMA PendingShare ==
  ASSUME CorrectInv, ProperInv, stage = "walk", NEW s \in Slots,
         NEW p \in pending[s], NEW q \in pending[s], p < q
  PROVE  InOrderShareable(p, q)
<1>1. /\ p \in Ins /\ p \in live /\ slotOf[p] = s /\ p < pos /\ pos <= FirstConsumer(p)
      /\ q \in Ins /\ q \in live /\ slotOf[q] = s /\ q < pos /\ pos <= FirstConsumer(q)
  BY PendingFacts
<1>2. GraphInv /\ ColouringInv /\ Coloured = live /\ pos \in Nat
  BY DEF CorrectInv, CorrectTypes, StageInv, Allotted, WalkInv
<1>3. FirstConsumer(p) \in Ins /\ FirstConsumer(q) \in Ins
  BY <1>1, <1>2, FirstConsumerFacts DEF ColouringInv
<1>4. Overlap(p, q)
  <2>1. p \in Nat /\ q \in Nat /\ FirstConsumer(p) \in Nat /\ FirstConsumer(q) \in Nat
    BY <1>1, <1>3, InsFacts
  <2>2. p < FirstConsumer(q) /\ q < FirstConsumer(p)
    BY <1>1, <1>2, <2>1
  <2>3. QED
    BY <2>2 DEF Overlap
<1>5. ~Interferes(p, q)
  BY <1>1, <1>2 DEF ProperInv
<1>6. QED
  BY <1>1, <1>4, <1>5, InsFacts DEF Interferes, Shareable

\* A later member of a run of one class has a later place in it.
LEMMA RunGrows ==
  ASSUME live \subseteq Ins, NEW p \in live, NEW q \in live, p < q, SameClassBetween(p, q)
  PROVE  RunPosition(p) \in Nat /\ RunPosition(q) \in Nat /\ RunPosition(p) < RunPosition(q)
<1> DEFINE Before(z) == {x \in live : x < z /\ SameClassBetween(x, z)}
<1>1. \A z : Before(z) \in SUBSET Ins
  OBVIOUS
<1>2. \A z : IsFiniteSet(Before(z))
  BY <1>1, InsFinite, FS_Subset
<1>3. p \notin Before(p)
  BY InsFacts
<1>4. Before(p) \cup {p} \subseteq Before(q)
  <2>1. p \in Before(q)
    OBVIOUS
  <2>2. ASSUME NEW x \in Before(p) PROVE x \in Before(q)
    <3>1. x < q /\ x \in Ins /\ p \in Ins /\ q \in Ins
      BY InsFacts
    <3>2. prog[p].key = prog[x].key
      BY <3>1, InsFacts DEF SameClassBetween
    <3>3. ASSUME NEW y \in live, x <= y, y <= q PROVE prog[y].key = prog[x].key
      <4>1. CASE y <= p
        BY <3>3, <4>1 DEF SameClassBetween
      <4>2. CASE p <= y
        BY <3>2, <3>3, <4>2 DEF SameClassBetween
      <4>3. y \in Nat /\ p \in Nat
        BY <3>3, InsFacts
      <4>4. QED
        BY <4>1, <4>2, <4>3
    <3>4. QED
      BY <3>1, <3>3 DEF SameClassBetween
  <2>3. QED
    BY <2>1, <2>2
<1>5. /\ Cardinality(Before(p)) \in Nat /\ Cardinality(Before(q)) \in Nat
      /\ Cardinality(Before(p) \cup {p}) = Cardinality(Before(p)) + 1
      /\ Cardinality(Before(p) \cup {p}) <= Cardinality(Before(q))
  BY <1>2, <1>3, <1>4, FS_CardinalityType, FS_AddElement, FS_Subset
<1>6. RunPosition(p) = Cardinality(Before(p)) /\ RunPosition(q) = Cardinality(Before(q))
  BY DEF RunPosition
<1>7. QED
  BY <1>5, <1>6

\* Numbers with one quotient have different remainders.
LEMMA QuotientRemainder ==
  ASSUME NEW m \in Nat \ {0}, NEW a \in Nat, NEW b \in Nat, a \div m = b \div m, a % m = b % m
  PROVE  a = b
<1>1. PICK c \in Nat, x \in 0..(m - 1) : a = m * c + x /\ a \div m = c /\ a % m = x
  OBVIOUS
<1>2. PICK d \in Nat, y \in 0..(m - 1) : b = m * d + y /\ b \div m = d /\ b % m = y
  OBVIOUS
<1>3. QED
  BY <1>1, <1>2

LEMMA QueuesConfirmed == CorrectInv /\ ProperInv => QueuesStayConfirmed
<1>1. SUFFICES ASSUME CorrectInv, ProperInv, stage = "walk", NEW s \in Slots
               PROVE  /\ Cardinality(pending[s]) <= MaxShare
                      /\ \A p, q \in pending[s] : prog[p].key = prog[q].key
  BY DEF QueuesStayConfirmed
<1> DEFINE Q == pending[s]
           Place == [p \in Q |-> RunPosition(p) % MaxShare]
<1>2. Q \subseteq live /\ live \subseteq Ins
  BY <1>1, PendingFacts DEF CorrectInv, ColouringInv
<1>3. \A p, q \in Q : p < q => SameClassBetween(p, q) /\ RunPosition(p) \div MaxShare = RunPosition(q) \div MaxShare
  BY <1>1, PendingShare DEF InOrderShareable
<1>4. \A p \in Q : p \in live /\ p \in Nat
  BY <1>2, InsFacts
<1>5. \A p, q \in Q : prog[p].key = prog[q].key
  <2>1. \A p, q \in Q : p < q => prog[q].key = prog[p].key
    <3>1. SUFFICES ASSUME NEW p \in Q, NEW q \in Q, p < q PROVE prog[q].key = prog[p].key
      OBVIOUS
    <3>2. p <= q /\ q <= q /\ q \in live /\ SameClassBetween(p, q)
      BY <1>3, <1>4, <3>1
    <3>3. QED
      BY <3>2 DEF SameClassBetween
  <2>2. \A p, q \in Q : p < q \/ q < p \/ p = q
    BY <1>4
  <2> HIDE DEF Q
  <2>3. QED
    BY <2>1, <2>2
<1>6. \A p \in live : RunPosition(p) \in Nat
  <2>1. SUFFICES ASSUME NEW p \in live PROVE RunPosition(p) \in Nat
    OBVIOUS
  <2>2. {x \in live : x < p /\ SameClassBetween(x, p)} \in SUBSET Ins
    BY <1>2
  <2>3. QED
    BY <2>2, InsFinite, FS_Subset, FS_CardinalityType DEF RunPosition
<1>7. \A p, q \in Q : p < q => Place[p] # Place[q]
  <2>1. SUFFICES ASSUME NEW p \in Q, NEW q \in Q, p < q PROVE RunPosition(p) % MaxShare # RunPosition(q) % MaxShare
    OBVIOUS
  <2>2. RunPosition(p) \in Nat /\ RunPosition(q) \in Nat /\ RunPosition(p) < RunPosition(q)
    BY <1>2, <1>3, <2>1, RunGrows
  <2>3. RunPosition(p) \div MaxShare = RunPosition(q) \div MaxShare
    BY <1>3, <2>1
  <2>4. QED
    BY <2>2, <2>3, QuotientRemainder, CorrectAssumption
<1>8. Place \in Injection(Q, 0..(MaxShare - 1))
  <2>1. \A p \in Q : RunPosition(p) % MaxShare \in 0..(MaxShare - 1)
    BY <1>2, <1>6, CorrectAssumption
  <2>2. \A p, q \in Q : p # q => Place[p] # Place[q]
    <3>1. \A p, q \in Q : p < q \/ q < p \/ p = q
      BY <1>4
    <3> HIDE DEF Q, Place
    <3>2. QED
      BY <1>7, <3>1
  <2>3. Place \in [Q -> 0..(MaxShare - 1)]
    BY <2>1
  <2> HIDE DEF Place
  <2>4. QED
    BY <2>2, <2>3 DEF Injection, IsInjective
<1>9. IsFiniteSet(0..(MaxShare - 1)) /\ Cardinality(0..(MaxShare - 1)) = MaxShare
  BY FS_Interval, CorrectAssumption
<1>10. Cardinality(Q) <= MaxShare
  <2> HIDE DEF Place, Q
  <2>1. QED
    BY <1>8, <1>9, FS_Injection
<1>11. QED
  BY <1>5, <1>10

\* With the codes correct-cc emits, no slot ever tracks more producers at once
\* than the group size its author confirmed on hardware, nor two classes.
THEOREM QueuesCorrect == Spec => []QueuesStayConfirmed
<1>1. Init => ProperInv
  BY DEF Init, ProperInv, Coloured
<1>2. QED
  BY <1>1, CorrectInvInit, CorrectInvStep, ProperStep, QueuesConfirmed, PTL DEF Spec

-------------------------------------------------------------------------------
(* A second run changes nothing: the codes name the slots of the producers that *)
(* need one, and these are the slots the colouring gives out again.             *)

\* The codes that give each live producer the slot its own code already names.
Restated ==
  [i \in Ins |-> [wait  |-> {SlotOf(code, p) : p \in {x \in live : FirstConsumer(x) = i}},
                  rd    |-> IF i \in live /\ LatencyOf(i) = "READ" THEN SlotOf(code, i) ELSE Unset,
                  wr    |-> IF i \in live /\ LatencyOf(i) = "WRITE" THEN SlotOf(code, i) ELSE Unset,
                  stall |-> NewStall(i),
                  yield |-> code[i].yield]]

\* The slot of p is the smallest that no earlier interfering producer has.
SmallestFree(p) ==
  /\ SlotOf(code, p) \in 0..N
  /\ \A q \in live : q < p /\ Interferes(q, p) => SlotOf(code, q) # SlotOf(code, p)
  /\ \A t \in 0..N : t < SlotOf(code, p) =>
       \E q \in live : q < p /\ SlotOf(code, q) = t /\ Interferes(q, p)

Settled ==
  /\ live = {p \in Ins : NeedsSlot(p)}
  /\ \A p \in live : SmallestFree(p)
  /\ \A p \in Coloured : slotOf[p] = SlotOf(code, p)
  /\ code = Restated

SettledInv ==
  /\ stage = "graph" => pass = 1
  /\ pass > 1 \/ verdict = "Corrected" => Settled

\* A step that keeps the graph, the codes and the live producers keeps what is
\* settled if the slots it gives out are the ones the codes name.
LEMMA SettledKept ==
  ASSUME Settled, UNCHANGED <<graphVars, code, live>>,
         \A p \in Coloured' : slotOf'[p] = SlotOf(code, p)
  PROVE  Settled'
<1>1. prog' = prog /\ edges' = edges /\ code' = code /\ live' = live
  BY DEF graphVars
<1>2. /\ \A p : FirstConsumer(p)' = FirstConsumer(p)
      /\ \A p, q : Interferes(p, q)' <=> Interferes(p, q)
      /\ \A p : NeedsSlot(p)' <=> NeedsSlot(p)
  BY GraphKept
<1>3. \A p : SlotOf(code, p)' = SlotOf(code, p) /\ LatencyOf(p)' = LatencyOf(p)
  BY <1>1 DEF SlotOf, LatencyOf
<1>4. \A i : NewStall(i)' = NewStall(i)
  BY <1>1 DEF NewStall, RequiredStall, Eligible, LatencyOf
<1>5. Restated' = Restated
  BY <1>1, <1>2, <1>3, <1>4 DEF Restated
<1>6. \A p : SmallestFree(p)' <=> SmallestFree(p)
  BY <1>1, <1>2, <1>3 DEF SmallestFree
<1>7. live' = {p \in Ins : NeedsSlot(p)'}
  BY <1>1, <1>2 DEF Settled
<1>8. QED
  BY <1>1, <1>3, <1>5, <1>6, <1>7 DEF Settled

\* The greedy pass picks the slot the code names.
LEMMA SameSlot ==
  ASSUME ColouringInv, Settled, NEW p \in live \ Coloured, \A q \in live \ Coloured : p <= q
  PROVE  FreeColour(p) = SlotOf(code, p)
<1> DEFINE s == SlotOf(code, p)
           f == FreeColour(p)
<1>1. live \subseteq Ins /\ Coloured \subseteq live /\ SmallestFree(p)
  BY DEF ColouringInv, Settled
<1>2. /\ f \in 0..N /\ f \notin TakenBy(p)
      /\ \A t \in 0..N : t < f => t \in TakenBy(p)
  BY <1>1, FreeColourFacts
<1>3. (\A q \in Coloured : q < p) /\ (\A q \in live : q < p => q \in Coloured)
  BY ColouredBefore
<1>4. s \in 0..N
  BY <1>1 DEF SmallestFree
<1>5. ASSUME s < f PROVE FALSE
  <2>1. PICK q \in Coloured : Interferes(q, p) /\ slotOf[q] = s
    BY <1>2, <1>4, <1>5 DEF TakenBy
  <2>2. SlotOf(code, q) = s
    BY <2>1 DEF Settled
  <2>3. QED
    BY <1>1, <1>3, <2>1, <2>2 DEF SmallestFree
<1>6. ASSUME f < s PROVE FALSE
  <2>1. PICK q \in live : q < p /\ SlotOf(code, q) = f /\ Interferes(q, p)
    BY <1>1, <1>2, <1>6 DEF SmallestFree
  <2>2. q \in Coloured /\ slotOf[q] = f
    BY <1>3, <2>1 DEF Settled
  <2>3. QED
    BY <1>2, <2>1, <2>2 DEF TakenBy
<1>7. s \in Nat /\ f \in Nat
  BY <1>2, <1>4, KernelAssumption
<1>8. QED
  BY <1>5, <1>6, <1>7

\* A commit settles the codes, whatever they were.
LEMMA CommitSettles ==
  ASSUME CorrectInv, ProperInv, Commit, code' = Recomputed
  PROVE  Settled'
<1>1. /\ GraphInv /\ code \in [Ins -> Code] /\ Allotted /\ ColouringInv
      /\ live \subseteq Ins /\ Coloured = live /\ UNCHANGED <<graphVars, live, slotOf>>
  BY DEF Commit, CorrectInv, CorrectTypes, StageInv, ColouringInv, Allotted
<1>2. prog' = prog /\ edges' = edges /\ live' = live /\ Coloured' = live
  BY <1>1 DEF graphVars, Coloured
<1>3. /\ \A p : EligibleConsumers(p)' = EligibleConsumers(p)
      /\ \A p : FirstConsumer(p)' = FirstConsumer(p)
      /\ \A p, q : Interferes(p, q)' <=> Interferes(p, q)
  BY <1>1, GraphKept
<1>4. \A p : LatencyOf(p)' = LatencyOf(p) /\ SlotOf(code, p)' = SlotOf(Recomputed, p)
  BY <1>2 DEF SlotOf, LatencyOf
<1>5. ASSUME NEW p \in Ins, EligibleConsumers(p) # {}
      PROVE  LatencyOf(p) \in Directions
  BY <1>5 DEF EligibleConsumers, Eligible, RelevantAccess, Directions
<1>6. \A p \in live : SlotOf(code, p)' = slotOf[p]
  BY <1>1, <1>4, <1>5, RecomputedSlot DEF ColouringInv
<1>7. ASSUME NEW i \in Ins
      PROVE  /\ code'[i].stall = NewStall(i) /\ NewStall(i) \in Nat
             /\ NewStall(i) >= code[i].stall /\ NewStall(i)' = NewStall(i) /\ code[i].stall \in Nat
  <2>1. code'[i].stall = NewStall(i)
    BY DEF Recomputed
  <2>2. code[i].stall \in Nat /\ RequiredStall(i) \in {0, 1}
    BY <1>1 DEF Code, RequiredStall
  <2>3. RequiredStall(i)' = RequiredStall(i)
    BY <1>2 DEF RequiredStall, Eligible, LatencyOf
  <2>4. QED
    BY <2>1, <2>2, <2>3 DEF NewStall
<1>8. live' = {p \in Ins : NeedsSlot(p)'}
  <2>1. SUFFICES ASSUME NEW p \in Ins PROVE NeedsSlot(p)' <=> NeedsSlot(p)
    BY <1>1, <1>2 DEF Allotted
  <2>2. CASE EligibleConsumers(p) = {}
    BY <1>3, <2>2 DEF NeedsSlot
  <2>3. CASE EligibleConsumers(p) # {} /\ p \in live
    <3>1. SlotOf(code, p)' # Unset
      BY <1>1, <1>6, <2>3 DEF Allotted, Slots, Unset
    <3>2. QED
      BY <1>1, <1>3, <2>3, <3>1 DEF NeedsSlot, Allotted
  <2>4. CASE EligibleConsumers(p) # {} /\ p \notin live
    <3>1. SlotOf(code, p)' = Unset
      BY <1>4, <1>5, <2>4, RecomputedSlot
    <3>2. ~NeedsSlot(p) /\ ~(Margin(p) < MinMargin[prog[p].key])
      BY <1>1, <2>4 DEF Allotted, NeedsSlot
    <3>3. FirstConsumer(p) \in Nat /\ p \in Nat
      BY <1>1, <2>4, FirstConsumerFacts, InsFacts
    <3>4. MinMargin[prog[p].key] \in Nat
      BY <1>1, CorrectAssumption DEF GraphInv, GraphTypeOK, Instr
    <3>5. Margin(p)' = FirstConsumer(p) - p - 1 + NewStall(p)
      BY <1>3, <1>7 DEF Margin
    <3>6. Margin(p) = FirstConsumer(p) - p - 1 + code[p].stall
      BY DEF Margin
    <3>7. ~(Margin(p)' < MinMargin[prog[p].key])
      BY <1>7, <3>2, <3>3, <3>4, <3>5, <3>6
    <3>8. QED
      BY <1>2, <3>1, <3>2, <3>7 DEF NeedsSlot
  <2>5. QED
    BY <2>2, <2>3, <2>4
<1>9. ASSUME NEW p \in live PROVE SmallestFree(p)'
  <2>1. SlotOf(code, p)' \in 0..N
    BY <1>1, <1>6 DEF ColouringInv
  <2>2. \A q \in live : q < p /\ Interferes(q, p) => SlotOf(code, q)' # SlotOf(code, p)'
    BY <1>1, <1>6 DEF ProperInv
  <2>3. \A t \in 0..N : t < SlotOf(code, p)' =>
          \E q \in live : q < p /\ SlotOf(code, q)' = t /\ Interferes(q, p)
    BY <1>1, <1>6 DEF ColouringInv
  <2>4. QED
    BY <1>2, <1>3, <2>1, <2>2, <2>3 DEF SmallestFree
<1>10. code' = Restated'
  <2>1. \A i \in Ins : WaitMask(i) = {SlotOf(code, p)' : p \in {x \in live : FirstConsumer(x) = i}}
    BY <1>6 DEF WaitMask
  <2>2. \A i \in Ins : BarrierOf(i, "READ")
           = IF i \in live /\ LatencyOf(i) = "READ" THEN SlotOf(code, i)' ELSE Unset
    BY <1>6 DEF BarrierOf
  <2>3. \A i \in Ins : BarrierOf(i, "WRITE")
           = IF i \in live /\ LatencyOf(i) = "WRITE" THEN SlotOf(code, i)' ELSE Unset
    BY <1>6 DEF BarrierOf
  <2>4. \A i \in Ins : code'[i].yield = code[i].yield
    BY DEF Recomputed
  <2>5. QED
    BY <1>2, <1>3, <1>4, <1>7, <2>1, <2>2, <2>3, <2>4 DEF Recomputed, Restated
<1>11. \A p \in Coloured' : slotOf'[p] = SlotOf(code, p)'
  BY <1>1, <1>2, <1>6
<1>12. QED
  BY <1>2, <1>8, <1>9, <1>10, <1>11 DEF Settled

LEMMA SettledStep == CorrectInv /\ ProperInv /\ SettledInv /\ [Next]_vars => SettledInv'
<1>1. SUFFICES ASSUME CorrectInv, ProperInv, SettledInv, [Next]_vars PROVE SettledInv'
  OBVIOUS
<1>2. pass \in Nat /\ (verdict # "none" => stage = "done")
  BY <1>1 DEF CorrectInv, CorrectTypes, StageInv
<1>3. CASE BuildGraph
  <2>1. /\ stage = "graph" /\ verdict = "none" /\ pass = 1 /\ pass' = 1
        /\ verdict' \in {"none", "thrown"}
    BY <1>1, <1>2, <1>3 DEF BuildGraph, SettledInv, Finish
  <2>2. QED
    BY <2>1 DEF SettledInv
<1>4. CASE Collect
  <2>1. stage' = "colour" /\ pass' = pass /\ verdict' = "none" /\ Coloured' = {}
    BY <1>2, <1>4 DEF Collect, Coloured
  <2>2. ASSUME pass > 1 PROVE Settled'
    <3>1. Settled /\ UNCHANGED <<graphVars, code, live>>
      BY <1>1, <1>4, <2>2 DEF Collect, SettledInv, Settled
    <3>2. QED
      BY <2>1, <3>1, SettledKept
  <2>3. QED
    BY <2>1, <2>2 DEF SettledInv
<1>5. CASE Colour
  <2>1. stage' = "colour" /\ pass' = pass /\ verdict' = "none" /\ UNCHANGED <<graphVars, code, live>>
    BY <1>2, <1>5 DEF Colour
  <2>2. PICK p \in live \ Coloured :
          /\ \A q \in live \ Coloured : p <= q
          /\ slotOf' = [x \in Coloured \cup {p} |-> IF x = p THEN FreeColour(p) ELSE slotOf[x]]
    BY <1>5 DEF Colour
  <2>3. ASSUME pass > 1 PROVE Settled'
    <3>1. Settled /\ ColouringInv
      BY <1>1, <2>3 DEF SettledInv, CorrectInv
    <3>2. FreeColour(p) = SlotOf(code, p)
      BY <2>2, <3>1, SameSlot
    <3>3. \A x \in Coloured' : slotOf'[x] = SlotOf(code, x)
      BY <2>2, <3>1, <3>2 DEF Coloured, Settled
    <3>4. QED
      BY <2>1, <3>1, <3>3, SettledKept
  <2>4. QED
    BY <2>1, <2>3 DEF SettledInv
<1>6. CASE Commit
  <2>1. code' = Recomputed /\ stage' = "done"
    BY <1>1, <1>6, CommitStep DEF Commit, Finish
  <2>2. Settled'
    BY <1>1, <1>6, <2>1, CommitSettles
  <2>3. QED
    BY <2>1, <2>2 DEF SettledInv
<1>7. CASE RunAgain
  <2>1. Settled /\ UNCHANGED <<graphVars, code, live, slotOf>> /\ stage' = "collect"
    BY <1>1, <1>7 DEF RunAgain, SettledInv
  <2>2. Settled'
    BY <2>1, SettledKept DEF Settled, Coloured
  <2>3. QED
    BY <2>1, <2>2 DEF SettledInv
<1>8. CASE CheckColours \/ Emit \/ SelfCheck \/ UNCHANGED vars
  <2>1. /\ UNCHANGED <<graphVars, code, live, slotOf, pass>>
        /\ verdict' \in {verdict, "Unrepairable"} /\ (stage' = "graph" => stage = "graph")
    BY <1>8 DEF CheckColours, Emit, SelfCheck, vars, correctVars, Finish
  <2>2. Settled => Settled'
    BY <2>1, SettledKept DEF Settled, Coloured
  <2>3. QED
    BY <1>1, <2>1, <2>2 DEF SettledInv
<1>9. QED
  BY <1>1, <1>3, <1>4, <1>5, <1>6, <1>7, <1>8 DEF Next

\* A commit of a later run writes the codes that are there.
LEMMA SecondCommitKeeps ==
  ASSUME CorrectInv, SettledInv, [Next]_vars, pass > 1
  PROVE  code' = code
<1>1. SUFFICES ASSUME code' # code PROVE code' = code
  OBVIOUS
<1>2. Commit
  BY <1>1 DEF Next, vars, correctVars, BuildGraph, Collect, Colour, CheckColours, Emit,
              SelfCheck, RunAgain
<1>3. code' = Recomputed /\ Settled /\ Coloured = live
  BY <1>1, <1>2, CommitStep DEF SettledInv, Commit, CorrectInv, StageInv, Allotted
<1>4. Recomputed = Restated
  <2>1. \A p \in live : slotOf[p] = SlotOf(code, p)
    BY <1>3 DEF Settled
  <2>2. \A i : WaitMask(i) = {SlotOf(code, p) : p \in {x \in live : FirstConsumer(x) = i}}
    BY <2>1 DEF WaitMask
  <2>3. \A i, d : BarrierOf(i, d) = IF i \in live /\ LatencyOf(i) = d THEN SlotOf(code, i) ELSE Unset
    BY <2>1 DEF BarrierOf
  <2>4. QED
    BY <2>2, <2>3 DEF Recomputed, Restated
<1>5. QED
  BY <1>3, <1>4 DEF Settled

\* Running correct-cc on the codes it has written writes the same codes: it needs
\* the same slots, gives out the same ones and raises no stall.
THEOREM SecondRunKeeps == Spec => Idempotent
<1>1. Init => ProperInv /\ SettledInv
  BY DEF Init, ProperInv, SettledInv, Coloured
<1>2. CorrectInv /\ SettledInv /\ [Next]_vars => [pass > 1 => code' = code]_code
  BY SecondCommitKeeps
<1>3. QED
  BY <1>1, <1>2, CorrectInvInit, CorrectInvStep, ProperStep, SettledStep, PTL DEF Spec, Idempotent

-------------------------------------------------------------------------------
(* The warp that runs a corrected kernel. *)

\* Behind every stage after the graph, and every verdict but a throw, is a finished
\* graph; a corrected kernel is closed, and stays so under a warp and a second run.
LaunchInv ==
  /\ CorrectInv /\ ProperInv /\ SettledInv
  /\ ExactInv
  /\ stage \in {"collect", "colour", "emit", "walk"} => at = Built
  /\ verdict = "Corrected" => at = Built /\ OpenEdges(code) = {}
  /\ pc # 0 => /\ at = Built /\ OpenEdges(code) = {}
               /\ stage # "graph" /\ (pass > 1 \/ verdict = "Corrected")
  /\ StraightLine => WarpInv(code)
  /\ pass >= 1

LEMMA LaunchInvInit == LaunchInit => LaunchInv
<1>1. SUFFICES ASSUME LaunchInit PROVE LaunchInv
  OBVIOUS
<1>2. pc = 0 /\ last = 0 /\ flying = {} /\ stage = "graph" /\ verdict = "none" /\ pass = 1
  BY <1>1 DEF LaunchInit, WarpInit, Init
<1>3. WarpInv(code)
  BY <1>2, KernelAssumption DEF WarpInv, Ins
<1>4. ProperInv /\ SettledInv
  BY <1>1 DEF LaunchInit, Init, ProperInv, SettledInv, Coloured
<1>5. ExactInv
  BY <1>1, ExactInvInit DEF LaunchInit, Init
<1>6. QED
  BY <1>1, <1>2, <1>3, <1>4, <1>5, CorrectInvInit DEF LaunchInit, LaunchInv

\* With the kernel, the codes and the warp unchanged, the warp is where it was.
LEMMA WarpKept ==
  ASSUME UNCHANGED <<prog, code, warpVars>>
  PROVE  (StraightLine' <=> StraightLine) /\ (WarpInv(code)' <=> WarpInv(code))
<1>1. prog' = prog /\ code' = code /\ pc' = pc /\ last' = last /\ flying' = flying
  BY DEF warpVars
<1>2. \A p : SlotOf(code, p)' = SlotOf(code, p)
  BY <1>1 DEF SlotOf, LatencyOf
<1>3. \A p : Waited(code, p, pc - 1)' <=> Waited(code, p, pc - 1)
  BY <1>1, <1>2 DEF Waited
<1>4. WarpInv(code)' <=> WarpInv(code)
  BY <1>1, <1>2, <1>3 DEF WarpInv
<1>5. QED
  BY <1>1, <1>4 DEF StraightLine

\* The edges a finished graph has open depend on the kernel and the codes only.
LEMMA OpenKept ==
  ASSUME UNCHANGED <<prog, edges, code>>
  PROVE  OpenEdges(code)' = OpenEdges(code)
<1>1. \A p : SlotOf(code, p)' = SlotOf(code, p)
  BY DEF SlotOf, LatencyOf
<1>2. \A p, i : Waited(code, p, i)' <=> Waited(code, p, i)
  BY <1>1 DEF Waited
<1>3. QED
  BY <1>1, <1>2 DEF OpenEdges, Open, BarrierProtects, TooClose, LatencyOf

\* A step of the tool while nothing runs, or under a running warp.
LEMMA ToolStep ==
  ASSUME LaunchInv, [Next]_vars, UNCHANGED warpVars
  PROVE  LaunchInv'
<1>1. CorrectInv' /\ ProperInv' /\ SettledInv'
  BY CorrectInvStep, ProperStep, SettledStep DEF LaunchInv
<1>2. [GraphNext]_graphVars
  BY DEF Next, BuildGraph, Collect, Colour, CheckColours, Emit, SelfCheck, Commit, RunAgain, vars
<1>3. ExactInv' /\ prog' = prog
  BY <1>2, ExactInvStep DEF LaunchInv, GraphNext, ResolveFlow, Visit, graphVars
<1>4. CASE BuildGraph
  <2>1. stage = "graph" /\ verdict = "none" /\ pc = 0 /\ UNCHANGED code
    BY <1>4 DEF BuildGraph, LaunchInv, CorrectInv, StageInv
  <2>2. /\ verdict' \in {"none", "thrown"}
        /\ stage' \in {"collect", "colour", "emit", "walk"} => at' = Built
    BY <1>4, <2>1 DEF BuildGraph, Finish
  <2>3. pass' = pass
    BY <1>4 DEF BuildGraph
  <2>4. QED
    BY <1>1, <1>3, <2>1, <2>2, <2>3, WarpKept DEF LaunchInv, warpVars
<1>5. CASE Commit
  <2>1. /\ code' = Recomputed /\ at = Built /\ UNCHANGED graphVars
        /\ GraphInv /\ code \in [Ins -> Code] /\ Allotted
        /\ stage' = "done" /\ stage # "graph" /\ pass' = pass
    BY <1>5, CommitStep
       DEF LaunchInv, Commit, Finish, CorrectInv, CorrectTypes, StageInv
  <2>2. OpenEdges(Recomputed) = {}
    BY <2>1, RecomputedCloses
  <2>3. OpenEdges(code)' = OpenEdges(Recomputed)
    BY <2>1 DEF OpenEdges, Open, BarrierProtects, TooClose, LatencyOf, SlotOf, Waited, graphVars
  <2>4. at' = Built /\ pc' = pc
    BY <2>1 DEF graphVars, warpVars
  <2>5. pc # 0 => code' = code /\ pass > 1
    <3>1. SUFFICES ASSUME pc # 0 PROVE code' = code /\ pass > 1
      OBVIOUS
    <3>2. verdict = "none" /\ pass > 1
      BY <1>5, <3>1 DEF LaunchInv, Commit, CorrectInv, StageInv
    <3>3. QED
      BY <3>2, SecondCommitKeeps DEF LaunchInv
  <2>6. StraightLine' => WarpInv(code)'
    <3>1. CASE pc = 0
      BY <1>3, <3>1, KernelAssumption DEF LaunchInv, WarpInv, StraightLine, warpVars, Ins
    <3>2. CASE pc # 0
      BY <1>3, <2>5, <3>2, WarpKept DEF LaunchInv
    <3>3. QED
      BY <3>1, <3>2
  <2>7. QED
    BY <1>1, <1>3, <2>1, <2>2, <2>3, <2>4, <2>5, <2>6 DEF LaunchInv
<1>6. CASE Collect \/ Colour \/ CheckColours \/ Emit \/ SelfCheck \/ RunAgain \/ UNCHANGED vars
  <2>1. /\ UNCHANGED <<graphVars, code>>
        /\ verdict' \in {verdict, "none", "Unrepairable"}
        /\ stage' \in {stage, "collect", "colour", "emit", "walk", "done"}
    BY <1>6 DEF Collect, Colour, CheckColours, Emit, SelfCheck, RunAgain, vars, correctVars, Finish
  <2>2. UNCHANGED <<prog, edges, code, at, pc>> /\ OpenEdges(code)' = OpenEdges(code)
    BY <2>1, OpenKept DEF graphVars, warpVars
  <2>3. stage' \in {"collect", "colour", "emit", "walk"} => at' = Built
    BY <1>6, <2>2
       DEF LaunchInv, Collect, Colour, CheckColours, Emit, SelfCheck, RunAgain, vars, correctVars
  <2>4. /\ pass > 1 \/ verdict = "Corrected" => pass' > 1 \/ verdict' = "Corrected"
        /\ pass' >= 1
    <3>1. pass \in Nat /\ pass >= 1 /\ (verdict # "none" => stage = "done")
      BY DEF LaunchInv, CorrectInv, CorrectTypes, StageInv
    <3>2. QED
      BY <1>6, <3>1
         DEF Collect, Colour, CheckColours, Emit, SelfCheck, RunAgain, vars, correctVars, Finish
  <2>5. StraightLine' => WarpInv(code)'
    BY <2>2, WarpKept DEF LaunchInv
  <2>6. QED
    BY <1>1, <1>3, <2>1, <2>2, <2>3, <2>4, <2>5 DEF LaunchInv
<1>7. QED
  BY <1>4, <1>5, <1>6 DEF Next

\* When the warp moves, the tool's variables do not.
LEMMA ToolKept ==
  ASSUME UNCHANGED vars
  PROVE  /\ UNCHANGED <<prog, edges, code, at, stage, verdict, pass>>
         /\ StraightLine' <=> StraightLine
         /\ \A p : SlotOf(code, p)' = SlotOf(code, p)
         /\ \A p : Waited(code, p, pc' - 1) <=> Waited(code, p, pc - 1)'
  BY DEF vars, graphVars, correctVars, StraightLine, SlotOf, LatencyOf, Waited

LEMMA WarpStep ==
  ASSUME LaunchInv, UNCHANGED vars, Start \/ Step
  PROVE  LaunchInv'
<1>1. CorrectInv' /\ ProperInv' /\ SettledInv' /\ ExactInv'
  BY CorrectInvStep, ProperStep, SettledStep, ExactInvStep DEF LaunchInv, vars
<1>2. OpenEdges(code)' = OpenEdges(code)
  BY ToolKept, OpenKept
<1>3. pc = 0 => verdict = "Corrected" /\ stage = "done"
  BY KernelAssumption DEF Start, Step, Issue, Ins, LaunchInv, CorrectInv, StageInv
<1>4. StraightLine' => WarpInv(code)'
  <2>1. SUFFICES ASSUME StraightLine PROVE WarpInv(code)'
    BY ToolKept
  <2>2. GraphTypeOK /\ code \in [Ins -> Code] /\ WarpInv(code)
    BY <2>1 DEF LaunchInv, CorrectInv, CorrectTypes, GraphInv
  <2>3. CASE Start
    <3>1. pc' = 1 /\ last' = 0 /\ flying' = {} /\ \A i \in Ins : ~(i < 1)
      BY <2>2, <2>3, WarpLaunch DEF Start
    <3>2. pc' \in 0..(N + 1) /\ pc' # 0 /\ last' = pc' - 1
      BY <3>1, KernelAssumption
    <3>3. QED
      BY <3>1, <3>2 DEF WarpInv
  <2>4. CASE Step
    <3>1. /\ pc' \in 1..(N + 1)
          /\ pc' \in Ins =>
               /\ last' = pc' - 1
               /\ \A i \in Ins : i < pc' => i + 1 \in Successors(prog, i)
               /\ flying' = {f \in Ins : f < pc' /\ SlotOf(code, f) # Unset
                                          /\ ~Waited(code, f, pc' - 1)}
      BY <2>1, <2>2, <2>4, WarpIssue DEF Step
    <3>2. pc' \in 0..(N + 1) /\ pc' # 0
      BY <3>1, KernelAssumption
    <3>3. QED
      BY <3>1, <3>2, ToolKept DEF WarpInv
  <2>5. QED
    BY <2>3, <2>4
<1>5. QED
  BY <1>1, <1>2, <1>3, <1>4, ToolKept DEF LaunchInv

\* What correct-cc is for: a warp that runs a corrected kernel without branches
\* never issues an instruction into an access that is in flight or unsettled, also
\* while the tool is run on the kernel again.
THEOREM CorrectedRunsSafely == LaunchSpec => []StraightIsSafe
<1>1. LaunchInv /\ [LaunchNext]_launchVars => LaunchInv'
  BY ToolStep, WarpStep DEF LaunchNext, Tool, Start, Step, launchVars
<1>2. LaunchInv => StraightIsSafe
  <2>1. SUFFICES ASSUME LaunchInv, StraightLine, StoresOnlyRead, pc \in Ins PROVE ~Hazard(code)
    BY DEF StraightIsSafe, Hazard
  <2>2. at = Built /\ OpenEdges(code) = {} /\ WarpInv(code)
    BY <2>1, KernelAssumption DEF LaunchInv, Ins
  <2>3. GraphTypeOK /\ code \in [Ins -> Code] /\ ExactEdges
    BY <2>1 DEF LaunchInv, CorrectInv, CorrectTypes, ExactInv, GraphInv
  <2>4. \A e \in EdgeSet : Depends(e) => e \in edges
    <3>1. \A e \in EdgeSet : e.to < at
      BY <2>2, KernelAssumption DEF Built, EdgeSet, Ins
    <3>2. QED
      BY <2>3, <3>1 DEF ExactEdges
  <2>5. QED
    BY <2>1, <2>2, <2>3, <2>4, ClosedIsSafe DEF OpenEdges
<1>3. QED
  BY <1>1, <1>2, LaunchInvInit, PTL DEF LaunchSpec
===============================================================================
