---------------------------- MODULE CuInsFeeder ----------------------------
(***************************************************************************)
(* CuInsFeeder: a disassembly listing read line by line, its lines grouped *)
(* into instruction records by a state machine per architecture family.    *)
(* A user of the object calls next(), trans(), extract() and restart() in  *)
(* any order; a call that reads lines takes one step per line.             *)
(*                                                                         *)
(* A line is its kind and what the feeder does with its fields: the        *)
(* architecture of a header, whether an instruction passes the filter.  A  *)
(* payload (an address with its text, or a code) is the number of the line *)
(* it comes from, and a name that of the Function or .section line.  No    *)
(* version that CuSMVersion accepts selects the 3x state machine.          *)
(***************************************************************************)
EXTENDS Integers, Sequences, SequencesExt, FiniteSetsExt

CONSTANTS Texts,      \* the listings
          Archs,      \* the values of .headerflags
          FamilyOf,   \* the state machine of each, and of NoArch; "none" where
                      \* CuSMVersion refuses the version
          NoArch,     \* no .headerflags line read yet; no filter
          Filters     \* the architectures a user restricts feeding to; NoArch for none

LineTypes == {"InsCode", "InsOnly", "CodeOnly", "FuncName", "HeaderFlag", "Others"}
InsTypes == {"InsCode", "InsOnly"}
Lines == [type : LineTypes, arch : Archs \cup {NoArch}, sel : BOOLEAN]

\* What cuobjdump and nvdisasm print before the first instruction of a kernel:
\* the kernel's name, and a header of its own or one that is valid so far.
Introduced(t, n) ==
  /\ \E f \in 1..(n - 1) : t[f].type = "FuncName"
  /\ \E h \in 1..(n - 1) :
       /\ t[h].type = "HeaderFlag"
       /\ \/ \A m \in h..(n - 1) : t[m].type # "FuncName"
          \/ \A m \in 1..(n - 1) : t[m].type = "HeaderFlag" => t[m].arch = t[h].arch

ASSUME ListingAssumption ==
  \A t \in Texts : \A n \in 1..Len(t) : t[n].type \in InsTypes \cup {"CodeOnly"} => Introduced(t, n)

ASSUME FeederAssumption ==
  /\ NoArch \notin Archs
  /\ Filters \subseteq Archs \cup {NoArch}
  /\ FamilyOf \in [Archs \cup {NoArch} -> {"Default", "Sm5x6x", "Sm7x8x", "none"}]
  /\ FamilyOf[NoArch] = "Default"
  /\ Texts \subseteq Seq(Lines)

VARIABLES text,     \* the stream
          archFilter, \* m_ArchFilter
          read,     \* lines of it that were read
          started,  \* m_IterationStarted
          doFeed,   \* m_DoFeed
          arch,     \* m_CurrArchVersion, which decides m_ArchFamily
          func,     \* CurrFuncName
          pstate,   \* m_PState
          ins,      \* m_AddrList and m_AsmList, which are pushed together
          codes,    \* m_CodeList
          pending,  \* m_PendingRecords from m_PendingIdx on
          buf,      \* lineBuffers of trans
          call,     \* the call in progress
          thrown    \* that call threw, and the object is not used again

\* What happened so far, for the properties only.
VARIABLES out,      \* the records this pass gave its user
          pass,     \* what rewound the stream last, or that extract() has moved it since
          passed,   \* the calls that have read the whole stream once
          stale,    \* a pass began in the middle of a group
          asked     \* next() has been called

input == <<text, archFilter>>
object == <<input, read, started, doFeed, arch, func, pstate, ins, codes, pending, buf, call, thrown>>
history == <<out, pass, passed, stale, asked>>
vars == <<object, history>>

\* The elements of s that are in S, in their order.
Kept(s, S) ==
  LET kept[n \in 0..Len(s)] ==
        IF n = 0 THEN <<>> ELSE IF s[n] \in S THEN Append(kept[n - 1], s[n]) ELSE kept[n - 1]
  IN  kept[Len(s)]

-----------------------------------------------------------------------------
\* The states: Ready, and inside a group of instructions either waiting for
\* the n-th instruction from its end, or for that instruction's code.

Ready == <<"Ready", 0>>
Ins(n) == <<"Ins", n>>
CodeOf(n) == <<"Code", n>>
After(n) == IF n = 1 THEN Ready ELSE Ins(n - 1)
SectionSteps == {<<Ready, t, Ready>> : t \in {"FuncName", "HeaderFlag", "Others"}}

\* Mutant: a header is accepted before the first one only.
TransitionsOneHeader(family) ==
  CASE family = "Default" -> SectionSteps
    [] family = "Sm7x8x" -> {<<Ready, "FuncName", Ready>>, <<Ready, "Others", Ready>>, <<Ready, "InsCode", CodeOf(1)>>,
                             <<CodeOf(1), "CodeOnly", Ready>>, <<Ready, "CodeOnly", Ready>>}
    [] OTHER -> {}

\* Transitions of a family, as <<state, kind of line, next state>>.
Transitions(family) ==
  SectionSteps \cup
  CASE family = "Sm5x6x" ->
         {<<Ready, "CodeOnly", Ins(3)>>}
           \cup UNION {{<<Ins(n), "InsCode", After(n)>>,
                        <<Ins(n), "InsOnly", CodeOf(n)>>,
                        <<CodeOf(n), "CodeOnly", After(n)>>} : n \in 1..3}
    [] family = "Sm7x8x" ->
         {<<Ready, "InsCode", CodeOf(1)>>, <<CodeOf(1), "CodeOnly", Ready>>, <<Ready, "CodeOnly", Ready>>}
    [] OTHER -> {}

\* The state after a line; none when the line is refused.
NextStates(l) ==
  IF l.type = "HeaderFlag" /\ FamilyOf[l.arch] = "none"
  THEN {}
  ELSE {t[3] : t \in {u \in Transitions(FamilyOf[arch]) : u[1] = pstate /\ u[2] = l.type}}

\* A stray code line between groups is not kept, except by the 5x/6x family,
\* where it opens a group.
KeepsCode(l) ==
  \/ l.type = "InsCode"
  \/ l.type = "CodeOnly" /\ (pstate # Ready \/ FamilyOf[arch] = "Sm5x6x")

InsWith(l) == IF l.type \in InsTypes THEN Append(ins, read + 1) ELSE ins
CodesWith(l) == IF KeepsCode(l) THEN Append(codes, read + 1) ELSE codes

\* Mutant: the control word of a group is taken for the first code.
RecordsShifted(is, cs) ==
  [k \in 1..Min({Len(is), Len(cs)}) |-> [ins |-> is[k], code |-> <<cs[k]>>, ctrl |-> cs[1]]]

\* The records in the lists is and cs: iterPopIns.
Records(is, cs) ==
  CASE FamilyOf[arch] = "Sm5x6x" ->
         [k \in 1..Min({Len(is), 3 * (Len(cs) \div 4)}) |->
            LET group == 4 * ((k - 1) \div 3)
            IN  [ins |-> is[k], code |-> <<cs[group + 2 + ((k - 1) % 3)]>>, ctrl |-> cs[group + 1]]]
    [] FamilyOf[arch] = "Sm7x8x" ->
         [k \in 1..Min({Len(is), Len(cs) \div 2}) |->
            [ins |-> is[k], code |-> <<cs[2 * k - 1], cs[2 * k]>>, ctrl |-> cs[2 * k]]]
    [] OTHER -> <<>>

\* Mutant: the names of sections that are not fed are skipped with them.
FeedSelected(l, to) ==
  /\ pstate' = to
  /\ arch' = IF l.type = "HeaderFlag" THEN l.arch ELSE arch
  /\ func' = IF l.type = "FuncName" /\ doFeed THEN read + 1 ELSE func

\* feedLineOp: the state, and what a section line sets.
Feed(l, to) ==
  /\ pstate' = to
  /\ arch' = IF l.type = "HeaderFlag" THEN l.arch ELSE arch
  /\ func' = IF l.type = "FuncName" THEN read + 1 ELSE func

\* The lists after a line: popped, if the caller pops in the state reached.
Lists(l, popped) ==
  /\ ins' = IF popped THEN <<>> ELSE InsWith(l)
  /\ codes' = IF popped THEN <<>> ELSE CodesWith(l)

Throw(l) ==
  /\ NextStates(l) = {}
  /\ thrown' = TRUE
  /\ UNCHANGED <<input, read, started, doFeed, arch, func, pstate, ins, codes, pending, buf, call, history>>

-----------------------------------------------------------------------------
Init ==
  /\ text \in Texts /\ archFilter \in Filters
  /\ read = 0 /\ started = FALSE /\ doFeed = FALSE
  /\ arch = NoArch /\ func = 0 /\ pstate = Ready
  /\ ins = <<>> /\ codes = <<>> /\ pending = <<>> /\ buf = <<>>
  /\ call = "none" /\ thrown = FALSE
  /\ out = <<>> /\ pass = "next" /\ passed = {} /\ stale = FALSE /\ asked = FALSE

Idle == call = "none"

\* Mutant: the records not yet handed out survive.
RewindKeepsPending(by) ==
  /\ read' = 0 /\ doFeed' = FALSE /\ started' = TRUE
  /\ out' = <<>> /\ pass' = by
  /\ stale' = (stale \/ pstate # Ready)
  /\ UNCHANGED <<input, arch, func, pstate, ins, codes, pending>>

\* restart(): the stream, the line counter and the iteration, and nothing of
\* the state machine.
Rewind(by) ==
  /\ read' = 0 /\ doFeed' = FALSE /\ pending' = <<>> /\ started' = TRUE
  /\ out' = <<>> /\ pass' = by
  /\ stale' = (stale \/ pstate # Ready)
  /\ UNCHANGED <<input, arch, func, pstate, ins, codes>>

Restart ==
  /\ Idle
  /\ Rewind("next")
  /\ UNCHANGED <<buf, call, thrown, passed, asked>>

-----------------------------------------------------------------------------
\* next()

CallNext ==
  /\ Idle
  /\ call' = "next" /\ asked' = TRUE
  /\ IF started THEN UNCHANGED <<read, doFeed, pending, started, out, pass, stale,
                                 input, arch, func, pstate, ins, codes>>
                ELSE Rewind("next")
  /\ UNCHANGED <<buf, thrown, passed>>

Deliver ==
  /\ call = "next" /\ pending # <<>>
  /\ out' = Append(out, [rec |-> Head(pending), func |-> func])
  /\ pending' = Tail(pending)
  /\ call' = "none"
  /\ UNCHANGED <<input, read, started, doFeed, arch, func, pstate, ins, codes, buf, thrown,
                 pass, passed, stale, asked>>

Reading == read < Len(text) /\ ~thrown
Line == text[read + 1]

\* What insFilter leaves of the records of a group.
Filtered(recs) == Kept(recs, {r \in ToSet(recs) : text[r.ins].sel})

\* A line that names a section is fed whether or not the architecture is.
ReadSection ==
  /\ call = "next" /\ pending = <<>> /\ Reading
  /\ Line.type \in {"HeaderFlag", "FuncName"}
  /\ \/ Throw(Line)
     \/ \E to \in NextStates(Line) :
          /\ Feed(Line, to)
          /\ Lists(Line, FALSE)
          /\ read' = read + 1
          /\ doFeed' = IF Line.type = "HeaderFlag" THEN archFilter \in {NoArch, Line.arch} ELSE doFeed
          /\ UNCHANGED <<input, started, pending, buf, call, thrown, history>>

Skip ==
  /\ call = "next" /\ pending = <<>> /\ Reading
  /\ Line.type \notin {"HeaderFlag", "FuncName"} /\ ~doFeed
  /\ read' = read + 1
  /\ UNCHANGED <<input, started, doFeed, arch, func, pstate, ins, codes, pending, buf, call, thrown, history>>

ReadIns ==
  /\ call = "next" /\ pending = <<>> /\ Reading
  /\ Line.type \notin {"HeaderFlag", "FuncName"} /\ doFeed
  /\ \/ Throw(Line)
     \/ \E to \in NextStates(Line) :
          /\ Feed(Line, to)
          /\ Lists(Line, to = Ready)
          /\ pending' = IF to = Ready THEN Filtered(Records(InsWith(Line), CodesWith(Line))) ELSE pending
          /\ read' = read + 1
          /\ UNCHANGED <<input, started, doFeed, buf, call, thrown, history>>

EndNext ==
  /\ call = "next" /\ pending = <<>> /\ read = Len(text)
  /\ started' = FALSE /\ call' = "none"
  /\ passed' = IF pass = "next" THEN passed \cup {"next"} ELSE passed
  /\ UNCHANGED <<input, read, doFeed, arch, func, pstate, ins, codes, pending, buf, thrown,
                 out, pass, stale, asked>>

-----------------------------------------------------------------------------
\* trans(): no filter, and the lines of a group are kept until it is complete.

CallTrans ==
  /\ Idle
  /\ Rewind("trans")
  /\ call' = "trans" /\ buf' = <<>>
  /\ UNCHANGED <<thrown, passed, asked>>

InsLines == {n \in 1..Len(text) : text[n].type \in InsTypes}

\* The k-th instruction line of the buffer takes the k-th record's control
\* code; past the last record the code reads out of bounds.
Annotated(lines, recs) ==
  LET named == Kept(lines, InsLines)
  IN  [k \in 1..Len(named) |->
         [rec |-> IF k <= Len(recs) THEN [recs[k] EXCEPT !.ins = named[k]]
                                    ELSE [ins |-> named[k], code |-> <<>>, ctrl |-> 0],
          func |-> func]]

ReadTrans ==
  /\ call = "trans" /\ Reading
  /\ \/ Throw(Line)
     \/ \E to \in NextStates(Line) :
          /\ Feed(Line, to)
          /\ Lists(Line, to = Ready)
          /\ read' = read + 1
          /\ IF to = Ready
             THEN /\ out' = out \o Annotated(Append(buf, read + 1), Records(InsWith(Line), CodesWith(Line)))
                  /\ buf' = <<>>
             ELSE /\ buf' = Append(buf, read + 1)
                  /\ UNCHANGED out
          /\ UNCHANGED <<input, started, doFeed, pending, call, thrown, pass, passed, stale, asked>>

EndTrans ==
  /\ call = "trans" /\ read = Len(text) /\ ~thrown
  /\ call' = "none" /\ buf' = <<>>
  /\ passed' = passed \cup {"trans"}
  /\ UNCHANGED <<input, read, started, doFeed, arch, func, pstate, ins, codes, pending, thrown,
                 out, pass, stale, asked>>

-----------------------------------------------------------------------------
\* extract(): reads on to the end, or past the Function line that ends the
\* kernel it dumps, and feeds the state machine nothing.
Extract ==
  /\ Idle
  /\ \/ read' = Len(text)
     \/ \E n \in read + 2 .. Len(text) :
          /\ text[n].type = "FuncName"
          /\ \E k \in read + 1 .. n - 1 : text[k].type \in {"FuncName", "CodeOnly"} \cup InsTypes
          /\ read' = n
  /\ pass' = "moved"
  /\ UNCHANGED <<input, started, doFeed, arch, func, pstate, ins, codes, pending, buf, call, thrown,
                 out, passed, stale, asked>>

Next == \/ Restart \/ CallNext \/ Deliver \/ ReadSection \/ Skip \/ ReadIns \/ EndNext
        \/ CallTrans \/ ReadTrans \/ EndTrans \/ Extract

Spec == Init /\ [][Next]_vars

-----------------------------------------------------------------------------
\* What a listing says by itself: the code of an instruction, its control
\* word, the kernel and the architecture it stands in.

LastBefore(n, S) == Max({0} \cup {k \in S : k < n})
LinesOf(type) == {k \in 1..Len(text) : text[k].type = type}
HeaderOf(n) == LastBefore(n, LinesOf("HeaderFlag"))
OwnLine(n) == IF text[n].type = "InsCode" THEN n ELSE n + 1
ControlWords == {k \in LinesOf("CodeOnly") : text[k - 1].type # "InsOnly"}

OwnRecord(n) ==
  LET family == FamilyOf[text[HeaderOf(n)].arch]
  IN  [ins |-> n,
       code |-> IF family = "Sm7x8x" THEN <<n, n + 1>> ELSE <<OwnLine(n)>>,
       ctrl |-> IF family = "Sm7x8x" THEN n + 1 ELSE LastBefore(n, ControlWords)]

\* Every record handed out, and every control code written before an
\* instruction by trans(), is made of that instruction's own lines.
RecordsAreOwn == \A k \in 1..Len(out) : out[k].rec = OwnRecord(out[k].rec.ins)

\* A pass of next() that ends has handed out every instruction of the
\* architecture asked for that the filter selects, once and in order; trans()
\* has annotated every instruction.  Only an incomplete group at the end of
\* the listing is missing.
Selected(n) ==
  /\ text[n].sel /\ HeaderOf(n) > 0
  /\ archFilter \in {NoArch, text[HeaderOf(n)].arch}
Expected == {n \in InsLines : pass = "trans" \/ Selected(n)}
Ended == /\ Idle
         /\ \/ pass = "trans"
            \/ pass = "next" /\ asked /\ ~started
PassIsComplete ==
  Ended => [k \in 1..Len(out) |-> out[k].rec.ins] \o Kept(ins, Expected)
             = Kept([n \in 1..Len(text) |-> n], Expected)

\* While a user holds a record, CurrFuncName is the kernel the record is from,
\* as long as extract() has not read past the line that tells.
FuncIsOwnerInPass == pass # "moved" =>
  \A k \in 1..Len(out) : out[k].func = LastBefore(out[k].rec.ins, LinesOf("FuncName"))

\* A feeder can be reused: a call that has once read the whole stream does
\* not throw on it later, unless a pass stopped in the middle of a group.
ReuseNeverThrows == ~(thrown /\ call \in passed)
ReuseNeverThrowsIfWhole == stale \/ ReuseNeverThrows

=============================================================================
