------------------------------- MODULE VerifyCC -------------------------------
(***************************************************************************)
(* verifyControlCodes (bin/ccCommon.hpp) on one decoded kernel: build the  *)
(* hazard graph, walk the scoreboard over the kernel's current control     *)
(* codes, report Verified or Violated; a throw of the graph builder is the *)
(* verdict "thrown".                                                       *)
(***************************************************************************)
EXTENDS Scoreboard

VARIABLES
  code,      \* each instruction's current control code
  verdict    \* "none" until the verdict

vars == <<graphVars, simVars, code, verdict>>

Init ==
  /\ \E k \in Kernels : GraphInit(k.prog) /\ code = k.code
  /\ SimInit
  /\ verdict = "none"

BuildGraph ==
  /\ GraphNext
  /\ verdict' = IF at' = Thrown THEN "thrown" ELSE verdict
  /\ UNCHANGED <<simVars, code>>

StartWalk ==
  /\ at = Built /\ pos = 0
  /\ SimStart
  /\ UNCHANGED <<graphVars, code, verdict>>

Walk ==
  /\ SimStep(code)
  /\ UNCHANGED <<graphVars, code, verdict>>

Report ==
  /\ SimDone /\ verdict = "none"
  /\ verdict' = IF violations = {} THEN "Verified" ELSE "Violated"
  /\ UNCHANGED <<graphVars, simVars, code>>

Next == BuildGraph \/ StartWalk \/ Walk \/ Report

Spec == Init /\ [][Next]_vars

-------------------------------------------------------------------------------
TypeOK ==
  /\ GraphTypeOK
  /\ SimTypeOK
  /\ code \in [Ins -> Code]
  /\ verdict \in {"none", "thrown", "Verified", "Violated"}

\* verifyControlCodes' doc: Verified means every real data dependency is closed.
\* The violations reported are the dependences of the kernel's forward paths that
\* its codes leave open: neither the dataflow nor the queueing of several
\* producers on one slot loses a hazard or invents one.
VerdictIsExact ==
  verdict \in {"Verified", "Violated"} =>
    violations = {e \in EdgeSet : Depends(e) /\ Open(code, e)}
===============================================================================
