----------------------------- MODULE VerifiedWarp -----------------------------
(* A kernel goes through verify-cc, and is launched when it passes. *)
EXTENDS VerifyCC, Warp

launchVars == <<vars, warpVars>>

LaunchInit == Init /\ WarpInit

Tool   == Next /\ UNCHANGED warpVars
Start  == verdict = "Verified" /\ Launch /\ UNCHANGED vars
Step   == Issue(code) /\ UNCHANGED vars

LaunchNext == Tool \/ Start \/ Step

LaunchSpec == LaunchInit /\ [][LaunchNext]_launchVars

\* verifyControlCodes' doc: Verified means every hazard edge is correctly closed
\* by the current control codes: the warp that executes a verified kernel without
\* branches meets no hazard, if stores only read.
VerifiedIsSafe == StraightLine /\ StoresOnlyRead => ~Hazard(code)
===============================================================================
