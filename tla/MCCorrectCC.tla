----------------------------- MODULE MCCorrectCC ------------------------------
(* Every kernel of N instructions drawn from a menu of loads of two classes, *)
(* a store, a synchronous write and uses, on input codes with and without    *)
(* barriers and stalls, run through correct-cc twice.                        *)
EXTENDS CorrectCC

CONSTANTS r, q, s    \* registers

MCRegs == {r, q, s}
MCKeys == {"ALU", "LDS", "LDG", "ST"}
MCLatency == [ALU |-> "FIXED", LDS |-> "WRITE", LDG |-> "WRITE", ST |-> "READ"]
MCMinMargin == [ALU |-> 1, LDS |-> 1, LDG |-> 3, ST |-> 1]

Op(key, roles) ==
  [key |-> key, roles |-> roles, guard |-> "AlwaysTrue", flow |-> "seq", imm |-> 0]
CC(rd, wr, stall, yield) ==
  [wait |-> {}, rd |-> rd, wr |-> wr, stall |-> stall, yield |-> yield]

MCMenu == {
  [op |-> Op("LDS", {<<r, "WRITE">>}), cc |-> CC(Unset, Unset, 0, TRUE)],
  [op |-> Op("LDS", {<<q, "WRITE">>}), cc |-> CC(Unset, 0, 1, FALSE)],
  [op |-> Op("LDS", {<<s, "WRITE">>}), cc |-> CC(Unset, 0, 1, FALSE)],
  [op |-> Op("LDG", {<<s, "WRITE">>, <<r, "READ">>}), cc |-> CC(Unset, Unset, 0, FALSE)],
  [op |-> Op("ST", {<<q, "READ">>, <<s, "READ">>}), cc |-> CC(1, Unset, 1, FALSE)],
  [op |-> Op("ALU", {<<r, "READ_WRITE">>, <<q, "READ">>, <<s, "READ">>}), cc |-> CC(Unset, Unset, 0, FALSE)] }

Indirect == [op |-> [Op("ALU", {}) EXCEPT !.flow = "indirect"], cc |-> CC(Unset, Unset, 0, FALSE)]

MCKernels ==
  {[prog |-> [i \in Ins |-> f[i].op], code |-> [i \in Ins |-> f[i].cc]]
     : f \in [Ins -> MCMenu] \cup {[i \in Ins |-> Indirect]}}
===============================================================================
