---------------------------- MODULE CorrectedWarp -----------------------------
(* A kernel goes through correct-cc, and is launched when it is corrected. *)
EXTENDS CorrectCC, Warp

launchVars == <<vars, warpVars>>

LaunchInit == Init /\ WarpInit

Tool   == Next /\ UNCHANGED warpVars
Start  == verdict = "Corrected" /\ Launch /\ UNCHANGED vars
Step   == Issue(code) /\ UNCHANGED vars

LaunchNext == Tool \/ Start \/ Step

LaunchSpec == LaunchInit /\ [][LaunchNext]_launchVars
LaunchFairSpec == LaunchSpec /\ WF_launchVars(LaunchNext)

\* correctControlCodes' doc: a wait on the earliest consumer is sufficient for
\* every later consumer too, so no path the warp takes meets a hazard.
CorrectedIsSafe == ~Hazard(code)

\* The same doc where the earliest consumer is on every path: on a kernel without
\* branches whose stores only read, the codes correct-cc commits are enough.
StraightIsSafe == StraightLine /\ StoresOnlyRead => ~Hazard(code)
===============================================================================
