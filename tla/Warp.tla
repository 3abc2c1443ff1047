--------------------------------- MODULE Warp ---------------------------------
(***************************************************************************)
(* What the control codes are for: one warp issuing a kernel's             *)
(* instructions along a path of its control-flow graph, as the comments of *)
(* bin/ccCommon.hpp describe the hardware.  An instruction issues once     *)
(* every slot in its wait mask is clear, so an operation whose code names  *)
(* a slot is in flight until some executed instruction waits on that slot. *)
(* Any other access is settled by the next issue, unless that issue is the *)
(* next instruction and the stall count is 0.                              *)
(***************************************************************************)
EXTENDS Scoreboard

VARIABLES
  pc,        \* the instruction about to issue; 0 before launch, N + 1 after exit
  last,      \* the instruction issued before it, 0 if none
  flying     \* operations no executed wait has covered yet

warpVars == <<pc, last, flying>>

WarpInit == pc = 0 /\ last = 0 /\ flying = {}

Launch ==
  /\ pc = 0
  /\ pc' = 1
  /\ UNCHANGED <<last, flying>>

\* In flight when pc issues: its own wait mask has been honoured.
StillFlying(c) == {f \in flying : SlotOf(c, f) \notin c[pc].wait}

Exits(p, i) == Successors(p, i) = {} \/ p[i].flow = "exit"

Issue(c) ==
  /\ pc \in Ins
  /\ flying' = (StillFlying(c) \ {pc}) \cup {p \in {pc} : SlotOf(c, p) # Unset}
  /\ last' = pc
  /\ \/ pc' \in Successors(prog, pc)
     \/ Exits(prog, pc) /\ pc' = N + 1

Conflict(p, i, direction) ==
  \E r \in Regs :
    IF direction = "WRITE"
      THEN Writes(prog[p], r) /\ (Reads(prog[i], r) \/ Writes(prog[i], r))
      ELSE Reads(prog[p], r) /\ Writes(prog[i], r)

Covered(c, p, direction) == LatencyOf(p) = direction /\ SlotOf(c, p) # Unset

\* The instruction about to issue touches a register an operation in flight has
\* not finished with, or one the previous instruction has not settled (an
\* operation that has just been waited for has settled all its registers).
Hazard(c) ==
  pc \in Ins /\
  ( \/ \E f \in StillFlying(c) : Conflict(f, pc, LatencyOf(f))
    \/ /\ last \in Ins /\ pc = last + 1 /\ c[last].stall = 0
       /\ SlotOf(c, last) \notin c[pc].wait
       /\ \E d \in Directions : ~Covered(c, last, d) /\ Conflict(last, pc, d) )

-------------------------------------------------------------------------------
StraightLine == \A i \in Ins : prog[i].flow \in {"seq", "exit"}

\* Every insKey the curated tables class VARIABLE:READ is a store or a reduction
\* (RED, ST, STG, STL, STS, SUST), all of whose operands are read.
StoresOnlyRead ==
  \A i \in Ins : LatencyOf(i) = "READ" => \A r \in Regs : ~Writes(prog[i], r)
===============================================================================
