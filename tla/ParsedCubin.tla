----------------------------- MODULE ParsedCubin -----------------------------
(***************************************************************************)
(* Editing the instructions of a cubin (ParsedCubin.hpp): the cubin is     *)
(* disassembled, the lines from the first to the last instruction of a     *)
(* kernel become a list the caller changes, each line with the labels in   *)
(* front of it, and the list replaces those lines when the file is         *)
(* assembled again.  Checking and repairing the control codes afterwards   *)
(* is VerifyCC's and CorrectCC's.                                          *)
(***************************************************************************)
EXTENDS CubinFile

CONSTANTS Edited,   \* the files whose cubins are edited
          Reach     \* the lines of a kernel that are moved, removed or put in

VARIABLE edit       \* the kernel and, of each new line, the old one or 0; or nothing

parsedVars == <<cubinVars, edit>>

\* splitAsmSection: the lines of the code section of k.
StartOfText(f, k) == CHOOSE i \in DOMAIN f.lines : f.lines[i].op = "section" /\ f.lines[i].name = <<".text", k>>
Behind(f, k) == LET ends == {i \in DOMAIN f.lines : i > StartOfText(f, k) /\ f.lines[i].op \in {"section", "segment"}}
                IN  IF ends = {} THEN Len(f.lines) + 1 ELSE CHOOSE i \in ends : \A j \in ends : i <= j

\* m_CodeRegion, empty and at the end for a kernel without instructions.
CodeAt(f, k) == SelectSeq([i \in 1..(Behind(f, k) - 1) |-> i], LAMBDA i : i > StartOfText(f, k) /\ f.lines[i].op = "code")
CodeStart(f, k) == IF CodeAt(f, k) = <<>> THEN Behind(f, k) ELSE CodeAt(f, k)[1]
CodeEnd(f, k) == IF CodeAt(f, k) = <<>> THEN Behind(f, k) ELSE 1 + CodeAt(f, k)[Len(CodeAt(f, k))]

\* Mutant: the labels behind an instruction are taken for its own.
LabelsBehind(f, k, n) ==
  LET at == CodeAt(f, k)
  IN  SelectSeq(SubSeq(f.lines, at[n] + 1, IF n = Len(at) THEN CodeEnd(f, k) - 1 ELSE at[n + 1] - 1),
                LAMBDA l : l.op \in {"label", "offset"})

\* m_LeadingLabels of the nth instruction; what is in front of the first is
\* not in the region.
LeadingLabels(f, k, n) ==
  LET at == CodeAt(f, k)
  IN  SelectSeq(SubSeq(f.lines, IF n = 1 THEN at[n] ELSE at[n - 1] + 1, at[n] - 1), LAMBDA l : l.op \in {"label", "offset"})

\* The line of an instruction that was there, its code encoded and decoded, and
\* that of a new one.
SassLine(f, k, n) == LET line == f.lines[CodeAt(f, k)[n]]
                     IN  LeadingLabels(f, k, n) \o <<[line EXCEPT !.ctrl = CC!Decode(CC!Encode(@))]>>
DefaultCode == CC!Merge([wait |-> 0, read |-> 0, write |-> 0, yield |-> 0, stall |-> 1])
NewLine == <<Ins("NOP", CC!Decode(DefaultCode))>>

\* saveAsCubin's text.
Saved(f, k, from) ==
  [f EXCEPT !.lines = SubSeq(@, 1, CodeStart(f, k) - 1)
                      \o FlattenSeq([j \in DOMAIN from |-> IF from[j] = 0 THEN NewLine ELSE SassLine(f, k, from[j])])
                      \o SubSeq(@, CodeEnd(f, k), Len(@))]

\* One line put in, removed or moved.
Same(n) == [i \in 1..n |-> i]
Edits(n) ==
  {InsertAt(Same(n), p, 0) : p \in {q \in Reach : q <= n + 1}}
  \cup {RemoveAt(Same(n), p) : p \in {q \in Reach : q <= n}}
  \cup {InsertAt(RemoveAt(Same(n), p), q, p) : p \in {r \in Reach : r <= n}, q \in {r \in Reach : r <= n}}

-----------------------------------------------------------------------------
ParsedInit == CubinInit /\ edit = <<>>

\* parseCubin, a change and saveAsCubin.
EditKernel ==
  /\ stage = "done" /\ src \in Edited /\ Loads(Cubin)
  /\ LET f == Disassembled(Cubin)
     IN  \E s \in {t \in DOMAIN sections : IsText(sections[t].name)} :
           LET k == sections[s].name[2]
           IN  \E from \in Edits(Len(CodeAt(f, k))) :
                 /\ Restart(Saved(f, k, from))
                 /\ edit' = <<[kernel |-> k, from |-> from]>>
  /\ symtab' = <<>> /\ origin' = <<Cubin>>

ParsedNext == \/ EditKernel
              \/ Disassemble /\ UNCHANGED edit
              \/ Work /\ UNCHANGED <<origin, edit>>
              \/ Parse /\ origin' = <<>> /\ edit' = <<>>
ParsedSpec == ParsedInit /\ [][ParsedNext]_parsedVars

-----------------------------------------------------------------------------
\* Every cubin the assembler saves can be disassembled, and what is assembled
\* from an unedited disassembly is the cubin that was disassembled, but for the
\* descriptor bits: those of a kernel come back if most of its descriptors are
\* the default, and whatever the default is, a bit that was set is lost only of
\* a register that more than half of the descriptors use.
Undescribed(c) == CompiledCubin(c, NoDesc)
Described(kernel) == {i \in DOMAIN kernel : kernel[i].desc # NoDesc}
BitsReturn(old, new) ==
  LET explicit == {i \in Described(old) : old[i].bit}
      sharing(i) == {j \in Described(old) : old[j].desc = old[i].desc}
  IN  /\ 2 * Cardinality(explicit) < Cardinality(Described(old)) => new = old
      /\ \A i \in explicit : 2 * Cardinality(sharing(i)) <= Cardinality(Described(old)) => new[i].bit
RoundTrip ==
  stage = "done" =>
    /\ Loads(Cubin)
    /\ origin # <<>> /\ edit = <<>> =>
         /\ Undescribed(Cubin) = Undescribed(origin[1])
         /\ \A s \in DOMAIN Cubin.sections : BitsReturn(origin[1].sections[s].slots, Cubin.sections[s].slots)

\* Is the line j now what line n was?  The labels of the first have not moved.
IsNow(from, n, j) == IF n = 1 THEN j = 1 ELSE j \in DOMAIN from /\ from[j] = n

\* After an edit the instructions that were kept have their codes and what they
\* refer to: a jump goes where the instruction it went to is now, and a symbol is
\* relocated at its new place.  What is behind them are NOPs, and the other
\* kernels and data are as they were.
JumpsFollowEdits ==
  stage = "done" /\ edit # <<>> =>
    LET k == edit[1].kernel
        from == edit[1].from
        name == <<".text", k>>
        old == SectionIn(origin[1], name)
        new == SectionIn(Cubin, name)
        moved(n) == {[r EXCEPT !.at = 0] : r \in RelocsAt(origin[1], name, Offset(n - 1))}
    IN  /\ \A j \in DOMAIN from : from[j] # 0 =>
             /\ new.slots[j].ins = old.slots[from[j]].ins /\ new.slots[j].code = old.slots[from[j]].code
             /\ {[r EXCEPT !.at = 0] : r \in RelocsAt(Cubin, name, Offset(j - 1))} = moved(from[j])
             /\ IsJump(origin[1], old, from[j]) =>
                  IsNow(from, JumpTo(old.slots[from[j]].operand), JumpTo(new.slots[j].operand))
        /\ \A j \in DOMAIN new.slots : j > Len(from) => new.slots[j] = Nop
        /\ \A t \in ToSet(origin[1].sections) : t.name # name =>
             SectionIn(Cubin, t.name).slots = t.slots /\ SectionIn(Cubin, t.name).numbers = t.numbers

\* SassLine's doc: a new line waits on and sets no scoreboard,
\* "B------:R-:W-:-:S01".
NewLinesSetNothing ==
  stage = "done" /\ edit # <<>> =>
    \A j \in DOMAIN edit[1].from : edit[1].from[j] = 0 =>
      CC!Decode(SectionIn(Cubin, <<".text", edit[1].kernel>>).slots[j].code)
        = [wait |-> {}, read |-> CC!Unset, write |-> CC!Unset, yield |-> "-", stall |-> 1]
==============================================================================
