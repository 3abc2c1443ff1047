----------------------------- MODULE CachePolicy -----------------------------
(***************************************************************************)
(* The descriptor bits of a kernel (CubinUtils.cpp).  From SM 8.0 on a     *)
(* memory access goes through a cache-policy descriptor in a uniform       *)
(* register.  The compiler sets the instruction's bit for a descriptor the *)
(* program asks for and leaves it clear for the kernel's default one;      *)
(* nvdisasm shows the descriptor only where the bit is set.                *)
(*                                                                         *)
(* A kernel is a sequence of instructions with, among others, the fields   *)
(* desc, the register or NoDesc, and bit.                                  *)
(***************************************************************************)
EXTENDS Integers, FiniteSets

NoDesc == -1

\* What nvdisasm shows.
Shown(ins) == IF ins.bit THEN ins.desc ELSE NoDesc

\* fixCubinDesc: the bit is set of the instructions that show a descriptor
\* once all have it set.
Fixed(kernel) ==
  LET all == [i \in DOMAIN kernel |-> [kernel[i] EXCEPT !.bit = TRUE]]
  IN  [i \in DOMAIN kernel |-> IF Shown(all[i]) # NoDesc THEN all[i] ELSE kernel[i]]

Hits(kernel) == {i \in DOMAIN kernel : Shown(kernel[i]) # NoDesc}
HitsOf(kernel, ur) == {i \in Hits(kernel) : kernel[i].desc = ur}

\* Mutant: more than the others of some register suffice, not more than half.
IsMost(kernel, ur) == /\ HitsOf(kernel, ur) # {}
                      /\ \A i \in Hits(kernel) : Cardinality(HitsOf(kernel, kernel[i].desc)) <= Cardinality(HitsOf(kernel, ur))

\* Taken for the default: the register of more than half the descriptors shown.
IsDefault(kernel, ur) == 2 * Cardinality(HitsOf(kernel, ur)) > Cardinality(Hits(kernel))

\* demoteDefaultDescBits.
Demoted(kernel) ==
  [i \in DOMAIN kernel |->
     IF i \in Hits(kernel) /\ IsDefault(kernel, kernel[i].desc) THEN [kernel[i] EXCEPT !.bit = FALSE] ELSE kernel[i]]

\* The compiler's kernel, with ur for the default.
Compiled(kernel, ur) ==
  [i \in DOMAIN kernel |-> [kernel[i] EXCEPT !.bit = kernel[i].desc \notin {NoDesc, ur}]]
==============================================================================
