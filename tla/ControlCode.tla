----------------------------- MODULE ControlCode -----------------------------
(***************************************************************************)
(* CuControlCode: a control code as 17 bits, as five fields and as the     *)
(* text "B--2---:R0:W1:-:S07" that disassemblies show and assembly files   *)
(* contain.                                                                *)
(*                                                                         *)
(* A text is what its characters say: the slots after B, the digits after  *)
(* R and W (Unset for "-"), the yield letter and the number after S.       *)
(***************************************************************************)
EXTENDS Integers

Unset == 7
Codes == {c \in Nat : c < 131072}   \* 17 bits
Slots == 0..5

Fields == [wait : 0..63, read : 0..7, write : 0..7, yield : 0..1, stall : 0..15]
Texts == [wait : SUBSET Slots, read : 0..7, write : 0..7, yield : {"Y", "-"}, stall : 0..99]

Split(code) ==
  [stall |-> code % 16, yield |-> (code \div 16) % 2, write |-> (code \div 32) % 8,
   read |-> (code \div 256) % 8, wait |-> (code \div 2048) % 64]

\* The fields are added, whatever their size.
Merge(f) == 2048 * f.wait + 256 * f.read + 32 * f.write + 16 * f.yield + f.stall

Bit(mask, i) == (mask \div (2^i)) % 2
Weight(S, i) == IF i \in S THEN 2^i ELSE 0
Mask(S) == Weight(S, 0) + Weight(S, 1) + Weight(S, 2) + Weight(S, 3) + Weight(S, 4) + Weight(S, 5)

Decode(code) ==
  LET f == Split(code)
  IN  [wait |-> {i \in Slots : Bit(f.wait, i) = 1}, read |-> f.read, write |-> f.write,
       yield |-> IF f.yield = 1 THEN "-" ELSE "Y", stall |-> f.stall]

\* matchesControlCodePattern: R[0-5-], W[0-5-], S and two digits.
Matches(t) == {t.read, t.write} \subseteq Slots \cup {Unset}

Encode(t) == Merge([wait |-> Mask(t.wait), read |-> t.read, write |-> t.write,
                    yield |-> IF t.yield = "Y" THEN 0 ELSE 1, stall |-> t.stall])
=============================================================================
