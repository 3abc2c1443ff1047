----------------------------- MODULE ParsedRepos -----------------------------
(***************************************************************************)
(* The repositories and their parser: the texts of a listing are parsed    *)
(* one after the other, each key learns from its own, and at any time      *)
(* other texts may be assembled.                                           *)
(***************************************************************************)
EXTENDS CuInsAssembler, CuInsParser

CONSTANTS Unseen,       \* texts somebody may want to assemble
          Hardware(_)   \* the code a text stands for

ASSUME TextAssumption == \A t \in ToSet(Listing) \cup Unseen : Parses(t)

VARIABLES repos,   \* of the versions up to 6x (TRUE) and from 7x on: an assembler for each key
          fed      \* how many texts of the listing have been read

RInit == repos = [legacy \in BOOLEAN |-> <<>>] /\ fed = 0

\* A text, parsed.
Sample(t) == [legacy |-> t.legacy, key |-> Key(t), modi |-> Modi(t), vals |-> Vals(t), code |-> Hardware(t)]
Read == [k \in 1..Len(Listing) |-> Sample(Listing[k])]
Wanted == {Sample(t) : t \in ToSet(Listing) \cup Unseen}

\* One record of updateFromGenerator.
Updated(dict, s) ==
  [key \in DOMAIN dict \cup {s.key} |->
     IF key = s.key THEN Push(IF key \in DOMAIN dict THEN dict[key] ELSE Fresh, s) ELSE dict[key]]
UpdateText ==
  /\ fed < Len(Listing)
  /\ fed' = fed + 1
  /\ repos' = [repos EXCEPT ![Read[fed'].legacy] = Updated(@, Read[fed'])]
ReadSpec == RInit /\ [][UpdateText]_<<repos, fed>>

\* assemble: what it refuses, and the code.
Accepts(s) == s.key \in DOMAIN repos[s.legacy] /\ CanAssemble(repos[s.legacy][s.key], s)
Assembled(s) == BuildCode(repos[s.legacy][s.key], s)

-----------------------------------------------------------------------------
\* Parsed values and modifiers are what encodings are linear in: a repository
\* that is told the truth records no conflict, at any time assembles what it
\* accepts to the hardware's code, and having read enough texts it accepts every
\* other text of their keys, negative numbers, jumps in both directions,
\* tables, floats and conversions included.
LearnsHardware ==
  /\ \A legacy \in BOOLEAN : \A key \in DOMAIN repos[legacy] : repos[legacy][key].errs = <<>>
  /\ \A s \in Wanted : Accepts(s) => Assembled(s) = s.code
  /\ fed = Len(Listing) => \A s \in Wanted : Accepts(s)

\* The key tells the shape: operand by operand, the text that is read next has
\* the tags of every text of its key before, and a value for each, so push, which
\* does not check it, never mixes vectors of different columns, whatever parts
\* of an address are written.
KeyFixesShape ==
  fed < Len(Listing) =>
    \A k \in 1..fed : Key(Listing[k]) = Key(Listing[fed + 1]) => SameShape(Listing[k], Listing[fed + 1])

\* Every magnitude becomes the half it is nearest to, and one in the middle the
\* even half; what is over the largest by half a step is infinite.  (The order
\* of magnitudes is that of their bits.  All are looked at once, at the end.)
HalfIsNearest ==
  fed = Len(Listing) => \A h \in 0..(HalfInf - 1) :
    /\ HalfBits(Middle(h) - 1) = h
    /\ HalfBits(Middle(h)) = h + (h % 2)
    /\ HalfBits(Middle(h) + 1) = h + 1
==============================================================================
