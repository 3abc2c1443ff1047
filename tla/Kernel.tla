-------------------------------- MODULE Kernel --------------------------------
(***************************************************************************)
(* One kernel as bin/ccCommon.hpp sees it after decoding: N instructions,  *)
(* each with its curated operand roles, latency class, guard and control   *)
(* flow, and a control code per instruction.  Instruction i of this module *)
(* is element i - 1 of the std::vector<DecodedInstruction>.                *)
(*                                                                         *)
(* Registers of the four RegisterSpaces are one set, Regs; RZ stands for   *)
(* every sentinel (RZ, URZ, PT, UPT).  Addresses are counted in            *)
(* instructions, the unit getInsOffsetFromIndex() is linear in.            *)
(***************************************************************************)
EXTENDS Integers

CONSTANTS
  N,          \* number of instructions of the kernel
  Regs,       \* real registers (GPR, UGPR, PRED and UPRED)
  RZ,         \* the sentinel registers
  Keys,       \* insKeys: opcode and operand shape
  Latency,    \* LatencyClassTable: Keys -> {"FIXED", "READ", "WRITE"}
  SlotCount,  \* physical scoreboard slots (c_ScoreboardSlotCount, 6)
  MaxStall,   \* largest stall count (c_MaxStallCount, 15)
  Kernels     \* the kernels the tools may be given, with their control codes

Ins   == 1..N
Slots == 0..(SlotCount - 1)

(***************************************************************************)
(* A barrier field is a slot, -1 when the code says 7 (unset), or          *)
(* SlotCount: the one encoding of the 3-bit field that names no slot (6).  *)
(***************************************************************************)
Unset == -1
Bars  == Slots \cup {Unset, SlotCount}

Modes      == {"READ", "WRITE", "READ_WRITE"}
Directions == {"READ", "WRITE"}
Guards     == {"AlwaysTrue", "AlwaysFalse"} \cup Regs
Flows      == {"seq", "exit", "rel", "abs", "indirect"}

Instr == [key: Keys, roles: SUBSET ((Regs \cup {RZ}) \X Modes),
          guard: Guards, flow: Flows, imm: Int]

Code == [wait: SUBSET Slots, rd: Bars, wr: Bars,
         stall: 0..MaxStall, yield: BOOLEAN]

ASSUME KernelAssumption ==
  /\ N \in Nat \ {0}
  /\ RZ \notin Regs
  /\ {"AlwaysTrue", "AlwaysFalse"} \cap Regs = {}
  /\ Latency \in [Keys -> {"FIXED"} \cup Directions]
  /\ SlotCount \in Nat \ {0}
  /\ MaxStall \in Nat \ {0}
  /\ Kernels \subseteq [prog: [Ins -> Instr], code: [Ins -> Code]]

-------------------------------------------------------------------------------
(* Register accesses: the roles plus the guard predicate, merged per register. *)

Reads(ins, r) ==
  \/ ins.guard = r
  \/ \E m \in {"READ", "READ_WRITE"} : <<r, m>> \in ins.roles

Writes(ins, r) ==
  \E m \in {"WRITE", "READ_WRITE"} : <<r, m>> \in ins.roles

-------------------------------------------------------------------------------
(* Control flow inside the kernel. *)

Target(p, i) ==
  IF p[i].flow = "abs" THEN p[i].imm + 1 ELSE p[i].imm + i + 1

Jumps(p, i) == p[i].flow \in {"rel", "abs"} /\ p[i].guard # "AlwaysFalse"

\* The throw of computeControlFlowSuccessors: an indirect branch, a relative
\* one with no second instruction to infer the stride from, a target outside.
Unresolvable(p, i) ==
  \/ p[i].flow = "indirect"
  \/ Jumps(p, i) /\ (Target(p, i) \notin Ins \/ (p[i].flow = "rel" /\ N < 2))

FallsThrough(p, i) ==
  i < N /\ (p[i].flow = "seq" \/ p[i].guard # "AlwaysTrue")

Successors(p, i) ==
  {s \in Ins : (FallsThrough(p, i) /\ s = i + 1) \/ (Jumps(p, i) /\ s = Target(p, i))}
===============================================================================
