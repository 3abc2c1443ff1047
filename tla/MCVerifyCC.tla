------------------------------ MODULE MCVerifyCC ------------------------------
(* Kernels of four instructions with their codes: producers of each latency  *)
(* class on shared, distinct, unphysical and unset barriers, consumers that  *)
(* wait or not, and each kind of control flow in between; and the warp that  *)
(* executes the verified ones.                                               *)
EXTENDS VerifiedWarp

CONSTANTS r, q, pr    \* two general registers and a predicate register

MCRegs == {r, q, pr}
MCKeys == {"ALU", "LD", "ST"}
MCLatency == [ALU |-> "FIXED", LD |-> "WRITE", ST |-> "READ"]

Op(key, roles, guard, flow, imm) ==
  [key |-> key, roles |-> roles, guard |-> guard, flow |-> flow, imm |-> imm]
CC(wait, rd, wr, stall) ==
  [wait |-> wait, rd |-> rd, wr |-> wr, stall |-> stall, yield |-> FALSE]
Seq(key, roles) == Op(key, roles, "AlwaysTrue", "seq", 0)

Loads == [op: {Seq("LD", {<<r, "READ_WRITE">>})}, cc: {CC({}, Unset, b, 0) : b \in Bars}]
         \cup [op: {Seq("LD", {<<q, "WRITE">>, <<r, "READ">>})}, cc: {CC({}, Unset, 0, 0), CC({0}, Unset, 1, 0)}]
Stores == [op: {Seq("ST", {<<r, "READ">>, <<q, "READ">>})}, cc: {CC({}, 0, Unset, 1), CC({}, Unset, Unset, 0)}]
Writes1 == [op: {Seq("ALU", {<<r, "WRITE">>})}, cc: {CC({}, Unset, Unset, 0), CC({0}, Unset, Unset, 1)}]
Reads1 == [op: {Seq("ALU", {<<r, "READ">>})}, cc: {CC({}, Unset, Unset, 0), CC({0, 1}, Unset, Unset, 1)}]

Flow(flows) == [op: flows, cc: {CC({}, Unset, Unset, 0)}]
Jumping == Flow({
  Seq("ALU", {<<pr, "WRITE">>, <<RZ, "READ">>}),
  Op("ALU", {<<r, "READ_WRITE">>}, pr, "seq", 0),
  Op("ALU", {}, pr, "rel", 1),
  Op("ALU", {}, "AlwaysTrue", "abs", 3),
  Op("ALU", {}, "AlwaysFalse", "rel", 7),
  Op("ALU", {}, pr, "rel", -2),
  Op("ALU", {}, pr, "exit", 0),
  Op("ALU", {}, "AlwaysTrue", "exit", 0),
  Op("ALU", {}, "AlwaysTrue", "indirect", 0),
  Op("ALU", {}, "AlwaysTrue", "rel", 0) })
OverNext == Flow({Op("ALU", {}, pr, "rel", 1)})

Middle == Loads \cup Stores \cup Writes1 \cup Reads1 \cup Jumping
MCKernels ==
  {[prog |-> <<a.op, b.op, c.op, d.op>>, code |-> <<a.cc, b.cc, c.cc, d.cc>>] :
     a \in Loads \cup Stores \cup Writes1 \cup OverNext, b \in Middle, c \in Middle,
     d \in Reads1 \cup Writes1}
===============================================================================
