------------------------------ MODULE InsOffset ------------------------------
(***************************************************************************)
(* Where an instruction is in its .text section (CuSMVersion).  Grouped is *)
(* the layout up to version 6x, three words behind a control word; from 7x *)
(* on an instruction is a double word of its own.                          *)
(***************************************************************************)
EXTENDS Integers

CONSTANT Grouped

\* getInstructionLength, and the size of the bytes a section is padded with.
Unit == IF Grouped THEN 8 ELSE 16
PadUnit == IF Grouped THEN 32 ELSE 16

\* The number of instructions of a section made of n.
PaddedLen(n) == IF Grouped THEN 3 * ((n + 2) \div 3) ELSE n
CodeSize(n) == IF Grouped THEN 32 * ((n + 2) \div 3) ELSE 16 * n

\* Mutant: the control word of the instruction's own group is forgotten.
OffsetBare(i) == IF Grouped THEN 8 * (i \div 3) + 8 * i ELSE 16 * i

\* getInsOffsetFromIndex and getInsIndexFromOffset.
Offset(i) == IF Grouped THEN 8 * (i \div 3 + 1) + 8 * i ELSE 16 * i
Index(offset) ==
  LET word == offset \div 8
  IN  CASE ~Grouped -> offset \div 16
        [] Grouped /\ word % 4 = 0 -> -1
        [] OTHER -> 3 * (word \div 4) + (word % 4) - 1
=============================================================================
