--------------------------- MODULE MCCorrectedWarp ----------------------------
(* Two small kernels with a branch: a skipped first consumer and a loop. *)
EXTENDS CorrectedWarp

CONSTANTS r, pr    \* a general register and a predicate register

MCRegs == {r, pr}
MCKeys == {"ALU", "LDS", "LDG", "ST"}
MCLatency == [ALU |-> "FIXED", LDS |-> "WRITE", LDG |-> "WRITE", ST |-> "READ"]
MCMinMargin == [ALU |-> 1, LDS |-> 1, LDG |-> 3, ST |-> 1]

Op(key, roles, guard, flow, imm) ==
  [key |-> key, roles |-> roles, guard |-> guard, flow |-> flow, imm |-> imm]
CC(wait, rd, wr, stall) ==
  [wait |-> wait, rd |-> rd, wr |-> wr, stall |-> stall, yield |-> FALSE]
Seq(key, roles) == Op(key, roles, "AlwaysTrue", "seq", 0)

Plain == CC({}, Unset, Unset, 0)

(* A load, a branch over its first use, and two uses, each waiting. *)
Skipping ==
  { [prog |-> <<Seq("LDG", {<<r, "WRITE">>}), Op("ALU", {}, pr, "rel", 1),
                Seq("ALU", {<<r, "READ">>}), Seq("ALU", {<<r, "READ">>})>>,
     code |-> <<CC({}, Unset, 0, 1), Plain, CC({0}, Unset, Unset, 1), CC({0}, Unset, Unset, 1)>>] }

(* A loop whose load, at its end, is used by the next iteration. *)
Looping ==
  { [prog |-> <<Seq("ALU", {<<r, "READ">>}), Seq("LDG", {<<r, "WRITE">>}),
                Op("ALU", {}, pr, "rel", -3), Seq("ALU", {})>>,
     code |-> <<CC({0}, Unset, Unset, 1), CC({}, Unset, 0, 1),
                CC({}, Unset, Unset, 1), Plain>>] }
===============================================================================
