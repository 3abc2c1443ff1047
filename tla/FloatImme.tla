------------------------------ MODULE FloatImme ------------------------------
(***************************************************************************)
(* CuSMVersion::convertFloatImme: the bits an instruction has for a float  *)
(* in its text.  A half is rounded from the binary32 value of the text,    *)
(* the wider formats lose their low bits.                                  *)
(*                                                                         *)
(* A float is [neg, hex, single, upper, bits]: is it negative, is it       *)
(* written as bits ("0f...", then these are bits), and of its magnitude    *)
(* the binary32 and the upper word of the binary64.                        *)
(***************************************************************************)
EXTENDS Integers

\* Of a binary32 the factor of the exponent, and the infinity; of a half.
Exp32 == 2^23
Inf32 == 255 * Exp32
HalfExp == 1024
HalfInf == 31 * HalfExp
HalfNaN == HalfInf + 512

\* Mutant: a tie is rounded up.
NearestUp(m, d) == (m \div d) + (IF 2 * (m % d) >= d THEN 1 ELSE 0)

\* To the nearest quotient, of two as near the even one.
Nearest(m, d) ==
  LET rest == 2 * (m % d)
      odd == (m \div d) % 2 = 1
  IN  (m \div d) + (IF rest > d \/ (rest = d /\ odd) THEN 1 ELSE 0)

\* floatBitsToHalfBits, of a magnitude.  A mantissa that is rounded up to the
\* next power of two takes the exponent along.
HalfBits(single) ==
  LET exponent == (single \div Exp32) - 112
      mantissa == single % Exp32
  IN  CASE single > Inf32 -> HalfNaN
        [] single = Inf32 -> HalfInf
        [] exponent < -10 -> 0
        [] exponent \in -10..0 -> Nearest(mantissa + Exp32, 2^(14 - exponent))
        [] exponent \in 1..30 -> exponent * HalfExp + Nearest(mantissa, 2^13)
        [] OTHER -> HalfInf

\* packFloatBits, without the lower word of a binary64, which is never kept.
Packed(f, prec) ==
  CASE prec = "H" -> HalfBits(f.single) [] prec = "F" -> f.single [] prec = "D" -> f.upper
FullBits(prec) == IF prec = "H" THEN 16 ELSE 32
KeepBits(prec, legacy) == IF prec = "H" THEN 16 ELSE IF legacy THEN 20 ELSE 32

\* Up to version 6x the sign is a modifier, and from 7x on a part of the bits.
\* There "-0f..." is read as a number, which is minus zero.
Modifiers(f, legacy) == IF legacy /\ f.neg THEN <<"FINeg">> ELSE <<>>
FloatBits(f, prec, wide, legacy) ==
  LET signed == f.neg /\ ~legacy
      sign == IF signed THEN 2^(FullBits(prec) - 1) ELSE 0
      dropped == FullBits(prec) - (IF wide THEN 32 ELSE KeepBits(prec, legacy))
  IN  IF f.hex /\ ~signed THEN f.bits
      ELSE ((IF f.hex THEN 0 ELSE Packed(f, prec)) + sign) \div (IF dropped > 0 THEN 2^dropped ELSE 1)

-----------------------------------------------------------------------------
\* The binary32 in the middle between a half and the next, and the half's own.
Middle(h) ==
  LET subnormal(twice) == LET e == CHOOSE n \in 0..11 : 2^n <= twice /\ twice < 2^(n + 1)
                          IN  (e + 102) * Exp32 + (twice - 2^e) * 2^(23 - e)
  IN  IF h < HalfExp THEN subnormal(2 * h + 1)
      ELSE ((h \div HalfExp) + 112) * Exp32 + (2 * (h % HalfExp) + 1) * 2^12
==============================================================================
