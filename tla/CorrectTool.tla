----------------------------- MODULE CorrectTool -----------------------------
(***************************************************************************)
(* The correct-cc command on the file system: the checks and the backup of *)
(* main, correctCubinControlCodes's passes over the input, and the output, *)
(* through runs that fail, writes that fail and crashes, each followed by  *)
(* another run.                                                            *)
(*                                                                         *)
(* A cubin is the sequence of its kernels, a kernel the kind of its        *)
(* instructions (what decoding and correcting them comes to) and whether   *)
(* its control codes close every dependency.  What happens inside a kernel *)
(* is CorrectCC.                                                           *)
(***************************************************************************)
EXTENDS Integers, Sequences

CONSTANTS Files,        \* names of files
          Backup,       \* of a file that may be output: the name with ~
          Requests,     \* the <<input, output>> users ask for
          Cubins,       \* the cubins there are at the start
          Stores,       \* the files there may be at the start
          Absent, Cut,  \* no file; a file that lacks its end
          MaxFaults     \* bound on crashes and write errors

\* "uncurated": the tables lack an instruction; "unresolvable": a branch
\* without a target; "crowded": more producers in flight than slots; "old":
\* all kernels of an architecture before Turing.
Kinds == {"plain", "crowded", "uncurated", "unresolvable", "old"}
Kernels == [kind : Kinds, closed : BOOLEAN]

ASSUME FileAssumption ==
  /\ Requests \subseteq Files \X DOMAIN Backup
  /\ DOMAIN Backup \subseteq Files /\ Backup \in [DOMAIN Backup -> Files]
  /\ Cubins \subseteq Seq(Kernels)
  /\ Stores \subseteq [Files -> Cubins \cup {Absent}]
  /\ MaxFaults \in Nat

\* Nobody asks to correct the backup of the output, or into it.
ASSUME RequestAssumption == \A r \in Requests : Backup[r[2]] \notin {r[1], r[2]}

VARIABLES fs,          \* contents of the files
          tool,        \* the command that runs, or ran last
          at,          \* where the run is
          in, out,     \* its files
          kernels,     \* its cubin: decoded, then corrected up to next
          bytes,       \* the copy that is patched
          next,        \* the kernel to correct next
          anyUnrepairable,
          exit,        \* result of the last run: "none", "ok", "failed", "crashed"
          faults,
          start        \* history: the contents of the files when the run began

vars == <<fs, at, in, out, kernels, bytes, next, anyUnrepairable, exit, faults, start, tool>>

Loadable(content) == content \notin {Absent, Cut}

\* detectArch.
Supported(content) == \A i \in 1..Len(content) : content[i].kind # "old"

\* correctControlCodes: an unrepairable kernel keeps its codes.
Corrected(k) == IF k.kind = "crowded" THEN k ELSE [k EXCEPT !.closed = TRUE]
AllClosed(content) == \A i \in 1..Len(content) : content[i].closed

\* What a run has read goes with it.
Fresh == kernels' = <<>> /\ bytes' = <<>> /\ next' = 1 /\ anyUnrepairable' = FALSE

Fails == exit' = "failed" /\ at' = "idle" /\ Fresh /\ UNCHANGED <<in, out, faults, start, tool>>

Init ==
  /\ fs \in Stores /\ tool = "correct-cc"
  /\ at = "idle" /\ exit = "none" /\ faults = 0
  /\ \E r \in Requests : in = r[1] /\ out = r[2]
  /\ kernels = <<>> /\ bytes = <<>> /\ next = 1 /\ anyUnrepairable = FALSE
  /\ start = fs

\* main is called with a request.
Start ==
  /\ at = "idle"
  /\ \E r \in Requests : in' = r[1] /\ out' = r[2]
  /\ tool' = "correct-cc" /\ at' = "check" /\ exit' = "none" /\ start' = fs
  /\ UNCHANGED <<fs, kernels, bytes, next, anyUnrepairable, faults>>

CheckIn ==
  /\ at = "check"
  /\ IF fs[in] = Absent
     THEN Fails
     ELSE at' = "backup" /\ UNCHANGED <<in, out, kernels, bytes, next, anyUnrepairable, exit, faults, start, tool>>
  /\ UNCHANGED fs

\* Mutant: the existing file is left where it is.
KeepOld(f) == f

\* Mutant: the oldest backup is kept.
KeepOldest(f) == IF f[Backup[out]] = Absent THEN [f EXCEPT ![Backup[out]] = f[out], ![out] = Absent]
                                            ELSE [f EXCEPT ![out] = Absent]

\* Mutant: the arguments are swapped.
RenamedIn(f) == [f EXCEPT ![Backup[in]] = f[in], ![in] = Absent]

\* The files after fs::rename of the output to its backup, where there is one.
Renamed(f) == IF f[out] = Absent THEN f ELSE [f EXCEPT ![Backup[out]] = f[out], ![out] = Absent]

\* Mutant: an older backup is in the way.
BackupOnce ==
  /\ at = "backup"
  /\ IF fs[out] # Absent /\ fs[Backup[out]] # Absent
     THEN Fails /\ UNCHANGED fs
     ELSE /\ fs' = Renamed(fs) /\ at' = "load"
          /\ UNCHANGED <<in, out, kernels, bytes, next, anyUnrepairable, exit, faults, start, tool>>

\* checkOutFileBackup.
BackupOut ==
  /\ at = "backup"
  /\ fs' = Renamed(fs)
  /\ at' = "load"
  /\ UNCHANGED <<in, out, kernels, bytes, next, anyUnrepairable, exit, faults, start, tool>>

\* ef.load, detectArch and loadControlCodes: a cubin without kernels is refused.
Load ==
  /\ at = "load"
  /\ IF Loadable(fs[in]) /\ fs[in] # <<>> /\ Supported(fs[in])
     THEN /\ kernels' = fs[in] /\ at' = "decode"
          /\ UNCHANGED <<in, out, bytes, next, anyUnrepairable, exit, faults, start, tool>>
     ELSE Fails
  /\ UNCHANGED fs

\* decodeInstructions, for all kernels before the first is corrected; then
\* the bytes are read.
Decode ==
  /\ at = "decode"
  /\ IF \E i \in 1..Len(kernels) : kernels[i].kind = "uncurated"
     THEN Fails
     ELSE /\ bytes' = fs[in] /\ next' = 1 /\ anyUnrepairable' = FALSE
          /\ at' = "correct"
          /\ UNCHANGED <<in, out, kernels, exit, faults, start, tool>>
  /\ UNCHANGED fs

\* Mutant: the flag tells of the last kernel only.
NotedLast(any, k) == k.kind = "crowded"

\* report.anyUnrepairable |= ...
Noted(any, k) == any \/ k.kind = "crowded"

\* The loop body: correct a kernel and patch it into the copy.
CorrectKernel ==
  /\ at = "correct" /\ next <= Len(kernels)
  /\ IF kernels[next].kind = "unresolvable"
     THEN Fails
     ELSE /\ bytes' = [bytes EXCEPT ![next] = Corrected(kernels[next])]
          /\ anyUnrepairable' = Noted(anyUnrepairable, kernels[next])
          /\ next' = next + 1
          /\ UNCHANGED <<at, in, out, kernels, exit, faults, start, tool>>
  /\ UNCHANGED fs

\* Nothing is written when a kernel could not be repaired.
Refuse ==
  /\ at = "correct" /\ next > Len(kernels) /\ anyUnrepairable
  /\ Fails
  /\ UNCHANGED fs

\* The std::ofstream truncates the file, or fails to open it.
Open ==
  /\ at = "correct" /\ next > Len(kernels) /\ ~anyUnrepairable
  /\ \/ /\ fs' = [fs EXCEPT ![out] = Cut] /\ at' = "write"
        /\ UNCHANGED <<exit, faults, kernels, bytes, next, anyUnrepairable>>
     \/ /\ faults < MaxFaults /\ faults' = faults + 1
        /\ exit' = "ok" /\ at' = "idle" /\ Fresh /\ UNCHANGED fs
  /\ UNCHANGED <<in, out, start, tool>>

\* out.write and the stream's destructor: nothing looks at the stream's state.
Write ==
  /\ at = "write"
  /\ \/ fs' = [fs EXCEPT ![out] = bytes] /\ UNCHANGED faults
     \/ faults < MaxFaults /\ faults' = faults + 1 /\ UNCHANGED fs
  /\ exit' = "ok" /\ at' = "idle" /\ Fresh
  /\ UNCHANGED <<in, out, start, tool>>

Crash ==
  /\ at # "idle" /\ faults < MaxFaults
  /\ faults' = faults + 1
  /\ exit' = "crashed" /\ at' = "idle" /\ Fresh
  /\ UNCHANGED <<fs, in, out, start, tool>>

Run == CheckIn \/ BackupOut \/ Load \/ Decode \/ CorrectKernel \/ Refuse \/ Open \/ Write
Next == Start \/ Run \/ Crash

Spec == Init /\ [][Next]_vars

\* A run that was started goes on, unless it crashes.
FairSpec == Spec /\ WF_vars(Run)

-----------------------------------------------------------------------------
\* What correcting every kernel of a cubin gives.
Repair(content) == [i \in 1..Len(content) |-> Corrected(content[i])]
Repairable(content) ==
  Loadable(content) /\ content # <<>> /\ \A i \in 1..Len(content) : content[i].kind = "plain"

\* No file ever holds a cubin with an open dependency that was not one of
\* the files when the run began, whatever kernels were repaired before one
\* that could not be, and whenever the run ended.  Cubins before Turing are
\* not judged.
WrittenIsClosed ==
  \A f \in Files : \/ fs[f] \in {Absent, Cut} \cup {start[g] : g \in Files}
                   \/ AllClosed(fs[f]) \/ ~Supported(fs[f])

\* The input outlives the run that reads it, also where it is the output:
\* then it is the backup, and is not overwritten (but saveAsCubin, which makes
\* no backup, may be told to overwrite the file the cubin was parsed from).
InputSurvives ==
  start[in] # Absent /\ ~(tool = "saveAsCubin" /\ in = out)
    => fs[in] = start[in] \/ (in = out /\ fs[Backup[out]] = start[in])

\* A run of correct-cc that fails on an existing input leaves no file under the
\* output's name, so no older output is taken for the result.
FailedLeavesNoOutput == tool = "correct-cc" /\ exit = "failed" /\ start[in] # Absent => fs[out] = Absent

\* A file that a command replaced is still there under its backup name
\* (ParsedCubin's saveAsCubin, which is no command, overwrites its output).
PreviousIsBackup ==
  tool # "saveAsCubin" /\ start[out] # Absent /\ fs[out] # start[out] => fs[Backup[out]] = start[out]

\* Whatever runs that crashed or failed to write have left behind, a run in
\* which nothing fails any more gets a repairable input corrected (unless the
\* input is the output, which the backup takes away before it is read).
RetrySucceeds ==
  \A r \in Requests :
    tool = "correct-cc" /\ at = "check" /\ <<in, out>> = r /\ Repairable(fs[in]) /\ in # out /\ faults = MaxFaults
      ~> tool = "correct-cc" /\ exit = "ok" /\ <<in, out>> = r /\ fs[out] = Repair(start[in])
=============================================================================
