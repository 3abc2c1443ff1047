----------------------------- MODULE SectionCode -----------------------------
(***************************************************************************)
(* CuSMVersion's layout of a .text section: how the codes of instructions  *)
(* and their control codes share its words, and at which offset an         *)
(* instruction is.  The assembler writes a section, correct-cc splits it,  *)
(* replaces the control codes and writes it back in place.                 *)
(*                                                                         *)
(* Grouped is the layout up to version 6x: three instructions of a word    *)
(* each behind a control word, with the reuse bits of an instruction (the  *)
(* part of its code above the word) beside its control code.  From 7x on   *)
(* the control code is a field in the middle of a double word.  The sizes  *)
(* are the numbers of values of the fields: 2^17, 2^4, 2^64, 2^105, 2^6.   *)
(***************************************************************************)
EXTENDS InsOffset, Sequences

CONSTANTS CtrlSize, ReuseSize, InsSize,  \* control code, reuse bits, word
          LowSize, HighSize,             \* below and above the control code
          PadIns, PadCtrl,               \* NOP and its control code
          Kernels,                       \* the assembled kernels: [ins, ctrl]
          NewCodes                       \* what a correction may compute

Slot == CtrlSize * ReuseSize
Ctrls == {c \in Nat : c < CtrlSize}

\* An instruction's code leaves the place of the control code empty.
IsIns(i) ==
  IF Grouped
  THEN \E a \in 0..(InsSize - 1), b \in 0..(ReuseSize - 1) : i = a + InsSize * (CtrlSize * b)
  ELSE \E a \in 0..(LowSize - 1), b \in 0..(HighSize - 1) : i = a + LowSize * (CtrlSize * b)

ASSUME SizeAssumption ==
  /\ Grouped \in BOOLEAN
  /\ {CtrlSize, ReuseSize, InsSize, LowSize, HighSize} \subseteq Nat \ {0}
  /\ PadCtrl \in Ctrls /\ IsIns(PadIns)
  /\ NewCodes \subseteq Ctrls

ASSUME KernelAssumption ==
  \A k \in Kernels : /\ k.ins \in Seq(Nat) /\ k.ctrl \in Seq(Ctrls)
                     /\ Len(k.ins) = Len(k.ctrl)
                     /\ \A i \in 1..Len(k.ins) : IsIns(k.ins[i])

-----------------------------------------------------------------------------
\* Mutant: the reuse bits of the instruction are lost.
MixedBare(i, c) == c

\* The control word of a group: each instruction's reuse bits above its
\* control code.  What does not fit the word is cut off.
Mixed(i, c) == c + (i \div InsSize)

\* Mutant: the reuse bits have no place of their own.
CtrlWordTight(i0, i1, i2, c0, c1, c2) ==
  (Mixed(i0, c0) + CtrlSize * (Mixed(i1, c1) + CtrlSize * Mixed(i2, c2))) % (2 * Slot * Slot * Slot)

CtrlWord(i0, i1, i2, c0, c1, c2) ==
  (Mixed(i0, c0) + Slot * (Mixed(i1, c1) + Slot * Mixed(i2, c2))) % (2 * Slot * Slot * Slot)

\* The elements of a list from 0 on, and the list with its group filled up.
Elem(list, k, pad) == IF k < Len(list) THEN list[k + 1] ELSE pad
Padded(list, pad) == [k \in 1..PaddedLen(Len(list)) |-> Elem(list, k - 1, pad)]

\* mergeCtrlCodes: the words of a section.
Merge(is, cs) ==
  LET I(k) == Elem(is, k, PadIns)
      C(k) == Elem(cs, k, PadCtrl)
      word(g, p) == IF p = 0 THEN CtrlWord(I(3 * g), I(3 * g + 1), I(3 * g + 2), C(3 * g), C(3 * g + 1), C(3 * g + 2))
                             ELSE I(3 * g + p - 1) % InsSize
  IN  IF Grouped
      THEN [n \in 1..(4 * ((Len(is) + 2) \div 3)) |-> word((n - 1) \div 4, (n - 1) % 4)]
      ELSE [n \in 1..Len(is) |-> (is[n] + LowSize * cs[n]) % (LowSize * CtrlSize * HighSize)]

\* The part of a control word that belongs to the p-th instruction behind it.
Share(word, p) ==
  CASE p = 0 -> word % Slot
    [] p = 1 -> (word \div Slot) % Slot
    [] p = 2 -> (word \div (Slot * Slot)) % Slot

\* splitCtrlCodeFromBytes.
Split(words) ==
  IF Grouped
  THEN LET ctrlWord(k) == words[4 * (k \div 3) + 1]
           insWord(k) == words[4 * (k \div 3) + (k % 3) + 2]
           n == 3 * (Len(words) \div 4)
       IN  [ins |-> [k \in 1..n |-> insWord(k - 1) + InsSize * (CtrlSize * (Share(ctrlWord(k - 1), (k - 1) % 3) \div CtrlSize))],
            ctrl |-> [k \in 1..n |-> Share(ctrlWord(k - 1), (k - 1) % 3) % CtrlSize]]
  ELSE [ins |-> [k \in 1..Len(words) |-> words[k] - LowSize * ((words[k] \div LowSize) % CtrlSize)],
        ctrl |-> [k \in 1..Len(words) |-> (words[k] \div LowSize) % CtrlSize]]

-----------------------------------------------------------------------------
VARIABLES kernel,   \* what the assembler was given
          section,  \* the words of the section
          ins, ctrl,\* KernelControlCodes
          stage,    \* "source", "section", "loaded"
          thrown    \* the size check of a store failed

vars == <<kernel, section, ins, ctrl, stage, thrown>>

Init ==
  /\ kernel \in Kernels
  /\ section = <<>> /\ ins = <<>> /\ ctrl = <<>>
  /\ stage = "source" /\ thrown = FALSE

\* CuKernelAssembler: the section of a kernel.
Assemble ==
  /\ stage = "source"
  /\ section' = Merge(kernel.ins, kernel.ctrl)
  /\ stage' = "section"
  /\ ins' = Padded(kernel.ins, PadIns) /\ ctrl' = Padded(kernel.ctrl, PadCtrl)
  /\ UNCHANGED <<kernel, thrown>>

Load ==
  /\ stage = "section" /\ ~thrown
  /\ ins' = Split(section).ins /\ ctrl' = Split(section).ctrl
  /\ stage' = "loaded"
  /\ UNCHANGED <<kernel, section, thrown>>

\* Any control codes of the right number.
Correct ==
  /\ stage = "loaded"
  /\ ctrl' \in [1..Len(ctrl) -> NewCodes]
  /\ UNCHANGED <<kernel, section, ins, stage, thrown>>

Store ==
  /\ stage = "loaded"
  /\ LET merged == Merge(ins, ctrl)
     IN  IF Len(merged) = Len(section)
         THEN section' = merged /\ UNCHANGED thrown
         ELSE thrown' = TRUE /\ UNCHANGED section
  /\ stage' = "section"
  /\ UNCHANGED <<kernel, ins, ctrl>>

Next == Assemble \/ Load \/ Correct \/ Store
Spec == Init /\ [][Next]_vars

-----------------------------------------------------------------------------
\* The section always holds the instructions that were assembled, and NOPs
\* where the last group was filled up, whatever codes were stored into it.
InstructionsKept == stage # "source" => Split(section).ins = Padded(kernel.ins, PadIns)

\* The control codes of a section are the ones last put there, each at its
\* own instruction: none reaches into a neighbour's.
CodesKept == stage = "section" => Split(section).ctrl = ctrl

\* Merging what was split from a section gives a section of the same size.
SizeKept == ~thrown

\* The offset of an instruction is where its word is, and leads back to it.
OffsetsFind ==
  stage # "source" =>
    \A i \in 1..Len(kernel.ins) :
      /\ Index(Offset(i - 1)) = i - 1
      /\ LET word == section[Offset(i - 1) \div Unit + 1]
         IN  IF Grouped THEN word = kernel.ins[i] % InsSize
                        ELSE word % LowSize = kernel.ins[i] % LowSize
=============================================================================
