---------------------------- MODULE VerifyCCProofs ----------------------------
(***************************************************************************)
(* verify-cc's verdict is exact, for every kernel: the graph is exact and  *)
(* the walk decides Open (ScoreboardProofs), and the verdict is read off   *)
(* a finished walk over a finished graph.  And it is worth having: a       *)
(* straight-line kernel it passes runs without a hazard.                   *)
(***************************************************************************)
EXTENDS VerifiedWarp, ScoreboardProofs

Verdicts == {"none", "thrown", "Verified", "Violated"}

BeforeWalk == pos = 0 /\ pending = [s \in Slots |-> {}] /\ retired = {} /\ violations = {}

VerifyInv ==
  /\ ExactInv
  /\ code \in [Ins -> Code]
  /\ verdict \in Verdicts
  /\ BeforeWalk \/ (at = Built /\ WalkInv(code))
  /\ verdict \in {"Verified", "Violated"} => SimDone

LEMMA VerifyInvInit == Init => VerifyInv
<1>1. SUFFICES ASSUME Init PROVE VerifyInv
  OBVIOUS
<1>2. PICK k \in Kernels : GraphInit(k.prog) /\ code = k.code
  BY <1>1 DEF Init
<1>3. ExactInv
  BY <1>2, ExactInvInit
<1>4. code \in [Ins -> Code]
  BY <1>2, KernelAssumption
<1>5. QED
  BY <1>1, <1>3, <1>4 DEF Init, SimInit, VerifyInv, BeforeWalk, Verdicts

\* With the kernel, the graph and the codes unchanged, so is what the walk decides.
LEMMA WalkKept ==
  ASSUME UNCHANGED graphVars, UNCHANGED code
  PROVE  /\ \A p : SlotOf(code, p)' = SlotOf(code, p)
         /\ \A p, i : Waited(code, p, i)' <=> Waited(code, p, i)
         /\ \A e : Open(code, e)' <=> Open(code, e)
<1>1. prog' = prog /\ code' = code
  BY DEF graphVars
<1>2. \A p : SlotOf(code, p)' = SlotOf(code, p)
  BY <1>1 DEF SlotOf, LatencyOf
<1>3. \A p, i : Waited(code, p, i)' <=> Waited(code, p, i)
  BY <1>1, <1>2 DEF Waited
<1>4. \A e : Open(code, e)' <=> Open(code, e)
  BY <1>1, <1>2, <1>3 DEF Open, BarrierProtects, TooClose, LatencyOf
<1>5. QED
  BY <1>2, <1>3, <1>4

LEMMA VerifyInvStep == VerifyInv /\ [Next]_vars => VerifyInv'
<1>1. SUFFICES ASSUME VerifyInv, [Next]_vars PROVE VerifyInv'
  OBVIOUS
<1>2. ExactInv /\ GraphInv
  BY <1>1 DEF VerifyInv, ExactInv
<1>3. CASE BuildGraph
  <2>1. at # Built
    BY <1>3, KernelAssumption DEF BuildGraph, GraphNext, ResolveFlow, Visit, Built, Ins
  <2>2. BeforeWalk
    BY <1>1, <2>1 DEF VerifyInv
  <2>3. ExactInv'
    BY <1>2, <1>3, ExactInvStep DEF BuildGraph
  <2>4. BeforeWalk'
    BY <1>3, <2>2 DEF BuildGraph, simVars, BeforeWalk
  <2>5. verdict \notin {"Verified", "Violated"}
    BY <1>1, <2>2, KernelAssumption DEF VerifyInv, BeforeWalk, SimDone
  <2>6. verdict' \in Verdicts /\ verdict' \notin {"Verified", "Violated"}
    BY <1>1, <1>3, <2>5 DEF BuildGraph, Verdicts, VerifyInv
  <2>7. code' \in [Ins -> Code]
    BY <1>1, <1>3 DEF BuildGraph, VerifyInv
  <2>8. QED
    BY <2>3, <2>4, <2>6, <2>7 DEF VerifyInv
<1>4. CASE StartWalk
  <2>1. ExactInv' /\ UNCHANGED <<graphVars, code, verdict>> /\ pos = 0 /\ at = Built
    BY <1>2, <1>4, ExactInvStep DEF StartWalk
  <2>2. WalkInv(code)'
    <3>1. pos' = 1 /\ pending' = [s \in Slots |-> {}] /\ retired' = {} /\ violations' = {}
      BY <1>4 DEF StartWalk, SimStart
    <3>2. 1 \in 1..(N + 1)
      BY KernelAssumption
    <3>3. edges' = edges
      BY <2>1 DEF graphVars
    <3>4. QED
      BY <1>2, <3>1, <3>2, <3>3, WalkStart DEF WalkInv
  <2>3. ~SimDone
    BY <2>1, KernelAssumption DEF SimDone
  <2>4. at' = Built
    BY <2>1 DEF graphVars
  <2>5. QED
    BY <1>1, <2>1, <2>2, <2>3, <2>4 DEF VerifyInv
<1>5. CASE Walk
  <2>1. ExactInv' /\ UNCHANGED <<graphVars, code, verdict>> /\ SimStep(code)
    BY <1>2, <1>5, ExactInvStep DEF Walk
  <2>2. pos \in Ins /\ pos # 0
    BY <2>1, InsFacts DEF SimStep, Ins
  <2>3. at = Built /\ WalkInv(code) /\ code \in [Ins -> Code]
    BY <1>1, <2>2 DEF VerifyInv, BeforeWalk
  <2>4. WalkInv(code)'
    <3>1. /\ pos' \in 1..(N + 1)
          /\ retired' = {p \in Ins : p < pos' /\ Waited(code, p, pos' - 1)}
          /\ pending' = [s \in Slots |->
               {p \in Ins : p < pos' /\ SlotOf(code, p) = s /\ ~Waited(code, p, pos' - 1)}]
          /\ violations' = {e \in edges : e.to < pos' /\ Open(code, e)}
      BY <1>2, <2>1, <2>3, WalkStep
    <3>2. edges' = edges
      BY <2>1 DEF graphVars
    <3>3. \A p \in Ins : SlotOf(code, p)' = SlotOf(code, p)
      BY <2>1, WalkKept
    <3>4. \A p \in Ins : Waited(code, p, pos' - 1) <=> Waited(code, p, pos - 1)'
      BY <2>1 DEF Waited, SlotOf, LatencyOf, graphVars
    <3>5. \A e \in edges : Open(code, e)' <=> Open(code, e)
      BY <2>1, WalkKept
    <3>6. QED
      BY <3>1, <3>2, <3>3, <3>4, <3>5 DEF WalkInv
  <2>5. ~SimDone
    BY <2>2, KernelAssumption DEF SimDone, Ins
  <2>6. at' = Built
    BY <2>1, <2>3 DEF graphVars
  <2>7. QED
    BY <1>1, <2>1, <2>4, <2>5, <2>6 DEF VerifyInv
<1>6. CASE Report
  <2>1. ExactInv' /\ UNCHANGED <<graphVars, simVars, code>> /\ SimDone
    BY <1>2, <1>6, ExactInvStep DEF Report
  <2>2. BeforeWalk' <=> BeforeWalk
    BY <2>1 DEF simVars, BeforeWalk
  <2>3. (at = Built /\ WalkInv(code))' <=> (at = Built /\ WalkInv(code))
    BY <2>1, WalkKept DEF simVars, graphVars, WalkInv
  <2>4. SimDone' /\ verdict' \in {"Verified", "Violated"}
    BY <1>6, <2>1 DEF simVars, SimDone, Report
  <2>5. QED
    BY <1>1, <2>1, <2>2, <2>3, <2>4 DEF VerifyInv, Verdicts
<1>7. CASE UNCHANGED vars
  <2>1. ExactInv' /\ UNCHANGED <<graphVars, simVars, code>> /\ verdict' = verdict
    BY <1>2, <1>7, ExactInvStep DEF vars
  <2>2. BeforeWalk' <=> BeforeWalk
    BY <2>1 DEF simVars, BeforeWalk
  <2>3. (at = Built /\ WalkInv(code))' <=> (at = Built /\ WalkInv(code))
    BY <2>1, WalkKept DEF simVars, graphVars, WalkInv
  <2>4. SimDone' <=> SimDone
    BY <2>1 DEF simVars, SimDone
  <2>5. QED
    BY <1>1, <2>1, <2>2, <2>3, <2>4 DEF VerifyInv
<1>8. QED
  BY <1>1, <1>3, <1>4, <1>5, <1>6, <1>7 DEF Next

\* The variables of verify-cc keep their types.
THEOREM TypeCorrect == Spec => []TypeOK
<1>1. VerifyInv => TypeOK
  <2>1. SUFFICES ASSUME VerifyInv PROVE TypeOK
    OBVIOUS
  <2>2. SimTypeOK
    <3>1. CASE BeforeWalk
      BY <3>1, KernelAssumption DEF BeforeWalk, SimTypeOK
    <3>2. CASE WalkInv(code)
      BY <2>1, <3>2, WalkTyped DEF VerifyInv, ExactInv
    <3>3. QED
      BY <2>1, <3>1, <3>2 DEF VerifyInv
  <2>3. QED
    BY <2>1, <2>2 DEF VerifyInv, ExactInv, GraphInv, TypeOK, Verdicts
<1>2. QED
  BY <1>1, VerifyInvInit, VerifyInvStep, PTL DEF Spec

\* The verdict of a finished walk over a finished graph.
LEMMA InvIsExact == VerifyInv => VerdictIsExact
<1>1. SUFFICES ASSUME VerifyInv, verdict \in {"Verified", "Violated"}
               PROVE  violations = {e \in EdgeSet : Depends(e) /\ Open(code, e)}
  BY DEF VerdictIsExact
<1>2. SimDone /\ ~BeforeWalk
  BY <1>1, KernelAssumption DEF VerifyInv, BeforeWalk, SimDone
<1>3. at = Built /\ WalkInv(code) /\ ExactInv /\ GraphInv
  BY <1>1, <1>2 DEF VerifyInv, ExactInv
<1>4. violations = OpenEdges(code)
  BY <1>2, <1>3, WalkEnd
<1>5. edges = {e \in EdgeSet : Depends(e)}
  <2>1. \A e \in EdgeSet : e.to < at
    BY <1>3, KernelAssumption DEF Built, EdgeSet, Ins
  <2>2. QED
    BY <1>3, <2>1 DEF ExactInv, ExactEdges
<1>6. QED
  BY <1>4, <1>5 DEF OpenEdges

\* simulateAndVerify's verdict on any kernel is exact: a kernel is Verified just
\* when no dependence on any forward path is left open by its codes.
THEOREM VerdictCorrect == Spec => []VerdictIsExact
<1>1. VerifyInv => VerdictIsExact
  BY InvIsExact
<1>2. QED
  BY <1>1, VerifyInvInit, VerifyInvStep, PTL DEF Spec

-------------------------------------------------------------------------------
(* The warp that runs a verified kernel. *)

\* Nothing is launched before the verdict, and nothing changes after the launch.
LaunchInv ==
  /\ VerifyInv
  /\ StraightLine => WarpInv(code)
  /\ pc # 0 => verdict = "Verified"
  /\ verdict = "Verified" => violations = {}

LEMMA LaunchInvInit == LaunchInit => LaunchInv
<1>1. SUFFICES ASSUME LaunchInit PROVE LaunchInv
  OBVIOUS
<1>2. pc = 0 /\ last = 0 /\ flying = {}
  BY <1>1 DEF LaunchInit, WarpInit
<1>3. WarpInv(code)
  BY <1>2, KernelAssumption DEF WarpInv, Ins
<1>4. QED
  BY <1>1, <1>2, <1>3, VerifyInvInit DEF LaunchInit, LaunchInv, Init

\* With the kernel, the codes and the warp unchanged, the warp is where it was.
LEMMA WarpKept ==
  ASSUME UNCHANGED <<prog, code, warpVars>>
  PROVE  (StraightLine' <=> StraightLine) /\ (WarpInv(code)' <=> WarpInv(code))
<1>1. prog' = prog /\ code' = code /\ pc' = pc /\ last' = last /\ flying' = flying
  BY DEF warpVars
<1>2. \A p : SlotOf(code, p)' = SlotOf(code, p)
  BY <1>1 DEF SlotOf, LatencyOf
<1>3. \A p : Waited(code, p, pc - 1)' <=> Waited(code, p, pc - 1)
  BY <1>1, <1>2 DEF Waited
<1>4. WarpInv(code)' <=> WarpInv(code)
  BY <1>1, <1>2, <1>3 DEF WarpInv
<1>5. QED
  BY <1>1, <1>4 DEF StraightLine

\* When the warp moves, the tool's variables do not.
LEMMA ToolKept ==
  ASSUME UNCHANGED vars
  PROVE  /\ StraightLine' <=> StraightLine
         /\ \A p : SlotOf(code, p)' = SlotOf(code, p)
         /\ \A p : Waited(code, p, pc' - 1) <=> Waited(code, p, pc - 1)'
  BY DEF vars, graphVars, StraightLine, SlotOf, LatencyOf, Waited

LEMMA LaunchInvStep == LaunchInv /\ [LaunchNext]_launchVars => LaunchInv'
<1>1. SUFFICES ASSUME LaunchInv, [LaunchNext]_launchVars PROVE LaunchInv'
  OBVIOUS
<1>2. VerifyInv'
  BY <1>1, VerifyInvStep DEF LaunchInv, LaunchNext, Tool, Start, Step, launchVars
<1>3. CASE Tool \/ UNCHANGED launchVars
  <2>1. [Next]_vars /\ UNCHANGED warpVars
    BY <1>3 DEF Tool, launchVars
  <2>2. UNCHANGED <<prog, code>>
    BY <2>1 DEF Next, BuildGraph, StartWalk, Walk, Report, vars, graphVars, GraphNext,
                ResolveFlow, Visit
  <2>3. ASSUME verdict = "Verified" PROVE UNCHANGED <<verdict, violations>>
    <3>1. SimDone /\ at = Built
      BY <1>1, <2>3, KernelAssumption DEF LaunchInv, VerifyInv, BeforeWalk, SimDone
    <3>2. ~BuildGraph /\ ~StartWalk /\ ~Walk /\ ~Report
      BY <2>3, <3>1, KernelAssumption
         DEF BuildGraph, GraphNext, ResolveFlow, Visit, Built, Ins, StartWalk, Walk, SimStep,
             SimDone, Report
    <3>3. QED
      BY <2>1, <3>2 DEF Next, vars, simVars
  <2>4. verdict # "Verified" /\ verdict' = "Verified" => violations' = {}
    BY <2>1 DEF Next, BuildGraph, StartWalk, Walk, Report, vars, simVars
  <2>5. (pc' # 0 => verdict' = "Verified") /\ (verdict' = "Verified" => violations' = {})
    BY <1>1, <2>1, <2>3, <2>4 DEF LaunchInv, warpVars
  <2>6. QED
    BY <1>1, <1>2, <2>1, <2>2, <2>5, WarpKept DEF LaunchInv
<1>4. CASE Start
  <2>1. Launch /\ UNCHANGED vars /\ verdict = "Verified"
    BY <1>4 DEF Start
  <2>2. StraightLine => WarpInv(code)'
    <3>1. SUFFICES ASSUME StraightLine PROVE WarpInv(code)'
      OBVIOUS
    <3>2. pc' = 1 /\ last' = 0 /\ flying' = {} /\ \A i \in Ins : ~(i < 1)
      BY <1>1, <2>1, <3>1, WarpLaunch DEF LaunchInv
    <3>3. pc' \in 0..(N + 1) /\ pc' # 0 /\ last' = pc' - 1
      BY <3>2, KernelAssumption
    <3>4. QED
      BY <3>2, <3>3 DEF WarpInv
  <2>3. QED
    BY <1>1, <1>2, <2>1, <2>2, ToolKept DEF LaunchInv, vars, simVars
<1>5. CASE Step
  <2>1. Issue(code) /\ UNCHANGED vars /\ pc \in Ins
    BY <1>5 DEF Step, Issue
  <2>2. StraightLine => WarpInv(code)'
    <3>1. SUFFICES ASSUME StraightLine PROVE WarpInv(code)'
      OBVIOUS
    <3>2. GraphTypeOK /\ code \in [Ins -> Code] /\ WarpInv(code)
      BY <1>1, <3>1 DEF LaunchInv, VerifyInv, ExactInv, GraphInv
    <3>3. /\ pc' \in 1..(N + 1)
          /\ pc' \in Ins =>
               /\ last' = pc' - 1
               /\ \A i \in Ins : i < pc' => i + 1 \in Successors(prog, i)
               /\ flying' = {f \in Ins : f < pc' /\ SlotOf(code, f) # Unset
                                          /\ ~Waited(code, f, pc' - 1)}
      BY <2>1, <3>1, <3>2, WarpIssue
    <3>4. prog' = prog
      BY <2>1 DEF vars, graphVars
    <3>5. pc' \in 0..(N + 1) /\ pc' # 0
      BY <3>3, KernelAssumption
    <3>6. QED
      BY <2>1, <3>3, <3>4, <3>5, ToolKept DEF WarpInv
  <2>3. verdict' = "Verified"
    BY <1>1, <2>1, KernelAssumption DEF LaunchInv, vars, Ins
  <2>4. QED
    BY <1>1, <1>2, <2>1, <2>2, <2>3, ToolKept DEF LaunchInv, vars, simVars
<1>6. QED
  BY <1>1, <1>3, <1>4, <1>5 DEF LaunchNext

\* What verify-cc is for: a warp that runs a Verified kernel without branches never
\* issues an instruction into an access that is in flight or unsettled.
THEOREM VerifiedRunsSafely == LaunchSpec => []VerifiedIsSafe
<1>1. LaunchInv => VerifiedIsSafe
  <2>1. SUFFICES ASSUME LaunchInv, StraightLine, StoresOnlyRead, pc \in Ins PROVE ~Hazard(code)
    BY DEF VerifiedIsSafe, Hazard
  <2>2. verdict = "Verified"
    BY <2>1, KernelAssumption DEF LaunchInv, Ins
  <2>3. GraphTypeOK /\ code \in [Ins -> Code] /\ WarpInv(code) /\ VerifyInv
    BY <2>1 DEF LaunchInv, VerifyInv, ExactInv, GraphInv
  <2>4. violations = {e \in EdgeSet : Depends(e) /\ Open(code, e)}
    BY <2>2, <2>3, InvIsExact DEF VerdictIsExact
  <2>5. violations = {}
    BY <2>1, <2>2 DEF LaunchInv
  <2>6. QED
    BY <2>1, <2>3, <2>4, <2>5, ClosedIsSafe
<1>2. QED
  BY <1>1, LaunchInvInit, LaunchInvStep, PTL DEF LaunchSpec
===============================================================================
