---------------------------- MODULE MCSectionCode ----------------------------
(***************************************************************************)
(* Fields of one or two bits, kernels of up to four instructions with      *)
(* every bit of an instruction set or clear, and corrections that set or   *)
(* clear every bit of a control code.                                      *)
(***************************************************************************)
EXTENDS SectionCode, SequencesExt

Codes == IF Grouped THEN {a + InsSize * (CtrlSize * b) : a \in {0, InsSize - 1}, b \in {0, ReuseSize - 1}}
                    ELSE {a + LowSize * (CtrlSize * b) : a \in {0, LowSize - 1}, b \in {0, HighSize - 1}}
Extremes == {0, CtrlSize - 1}

\* Each of the instructions and codes of a kernel one of the extremes.
MCKernels ==
  UNION {{[ins |-> is, ctrl |-> [i \in 1..n |-> IF i = at THEN c ELSE d]] :
            is \in [1..n -> Codes], at \in 1..n, c \in Extremes, d \in Extremes} : n \in 1..3}
  \cup {[ins |-> [i \in 1..4 |-> IF i = 4 THEN a ELSE b], ctrl |-> [i \in 1..4 |-> IF i = 4 THEN c ELSE d]] :
            a \in Codes, b \in Codes, c \in Extremes, d \in Extremes}
=============================================================================
