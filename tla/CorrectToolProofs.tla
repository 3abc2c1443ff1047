-------------------------- MODULE CorrectToolProofs --------------------------
(***************************************************************************)
(* What correct-cc leaves on the file system, for any files, requests,     *)
(* cubins and number of faults: wherever a run is, the files are those of  *)
(* its start, with the output renamed once the backup is made and with     *)
(* something else under its name once it is opened.  Then the same of all  *)
(* commands on each other's files, whatever the jobs.                      *)
(***************************************************************************)
EXTENDS Commands, TLAPS

Contents == Seq(Kernels) \cup {Absent, Cut}

\* The files with the output renamed, and with c written under its name.
Moved == Renamed(start)
Put(c) == [Moved EXCEPT ![out] = c]

\* The kernels before next are corrected in the copy.
Patched ==
  /\ kernels \in Seq(Kernels) /\ bytes \in Seq(Kernels) /\ Len(bytes) = Len(kernels)
  /\ next \in Nat \ {0}
  /\ \A i \in 1..Len(kernels) : i < next =>
        /\ bytes[i] = Corrected(kernels[i])
        /\ ~anyUnrepairable => kernels[i].kind # "crowded"

IInv ==
  /\ <<in, out>> \in Requests
  /\ start \in [Files -> Contents]
  /\ at \in {"idle", "check", "backup", "load", "decode", "correct", "write"}
  /\ at \in {"check", "backup"} => fs = start
  /\ at \in {"backup", "load", "decode", "correct", "write"} => start[in] # Absent
  /\ at # "idle" => exit = "none"
  /\ at \in {"load", "decode", "correct"} => fs = Moved
  /\ at = "decode" => kernels = fs[in] /\ kernels \in Seq(Kernels)
  /\ at = "correct" => Patched
  /\ at = "write" => fs = Put(Cut) /\ bytes \in Seq(Kernels) /\ AllClosed(bytes)
  /\ at = "idle" => \/ fs = start
                    \/ fs = Moved
                    \/ \E c \in Contents : (c = Cut \/ AllClosed(c)) /\ fs = Put(c)
  /\ exit = "failed" => start[in] = Absent \/ fs = Moved

\* The files of a request.
LEMMA RequestFiles ==
  ASSUME <<in, out>> \in Requests
  PROVE  /\ in \in Files /\ out \in Files /\ out \in DOMAIN Backup
         /\ Backup[out] \in Files /\ Backup[out] # in /\ Backup[out] # out
  BY FileAssumption, RequestAssumption

\* Contents stay contents when files are renamed.
LEMMA MovedType ==
  ASSUME <<in, out>> \in Requests, start \in [Files -> Contents]
  PROVE  Moved \in [Files -> Contents]
  BY RequestFiles DEF Moved, Renamed, Contents

LEMMA PutType ==
  ASSUME <<in, out>> \in Requests, start \in [Files -> Contents], NEW c \in Contents
  PROVE  Put(c) \in [Files -> Contents]
  BY RequestFiles, MovedType DEF Put

\* Whatever a run does, the files hold contents.
LEMMA FilesHold ==
  ASSUME IInv
  PROVE  fs \in [Files -> Contents]
  BY MovedType, PutType DEF IInv, Contents

\* Correcting a kernel closes it unless it is crowded.
LEMMA CorrectedClosed ==
  ASSUME NEW k \in Kernels
  PROVE  Corrected(k) \in Kernels /\ (k.kind # "crowded" => Corrected(k).closed)
<1>1. CASE k.kind = "crowded"
  BY <1>1 DEF Corrected
<1>2. CASE k.kind # "crowded"
  <2>1. Corrected(k) = [k EXCEPT !.closed = TRUE]
    BY <1>2 DEF Corrected
  <2> QED
    BY <2>1 DEF Kernels
<1> QED
  BY <1>1, <1>2

\* Correcting the next kernel in the copy.
LEMMA LoopStep ==
  ASSUME Patched, CorrectKernel, kernels[next].kind # "unresolvable"
  PROVE  Patched'
<1>1. Patched /\ next \in 1..Len(kernels)
  BY DEF CorrectKernel, Patched
<1>2. kernels[next] \in Kernels
  BY <1>1 DEF Patched
<1>3. /\ bytes' = [bytes EXCEPT ![next] = Corrected(kernels[next])]
      /\ next' = next + 1
      /\ UNCHANGED <<at, in, out, kernels, exit, faults, start, fs>>
  BY DEF CorrectKernel
<1>4. ~anyUnrepairable' => ~anyUnrepairable /\ kernels[next].kind # "crowded"
  BY Zenon DEF CorrectKernel, Noted
<1>5. bytes' \in Seq(Kernels) /\ Len(bytes') = Len(kernels')
  BY <1>1, <1>2, <1>3, CorrectedClosed DEF Patched
<1>6. ASSUME NEW i \in 1..Len(kernels'), i < next'
      PROVE  /\ bytes'[i] = Corrected(kernels'[i])
             /\ ~anyUnrepairable' => kernels'[i].kind # "crowded"
  <2>1. CASE i = next
    <3>1. bytes'[i] = Corrected(kernels'[i])
      BY <1>1, <1>3, <2>1 DEF Patched
    <3> QED
      BY <1>3, <1>4, <2>1, <3>1
  <2>2. CASE i # next
    <3>1. i < next /\ i \in 1..Len(kernels)
      BY <1>1, <1>3, <1>6, <2>2 DEF Patched
    <3>2. bytes'[i] = bytes[i] /\ kernels'[i] = kernels[i]
      BY <1>1, <1>3, <2>2, <3>1 DEF Patched
    <3>3. bytes[i] = Corrected(kernels[i]) /\ (~anyUnrepairable => kernels[i].kind # "crowded")
      BY <1>1, <3>1 DEF Patched
    <3> QED
      BY <1>3, <1>4, <3>2, <3>3
  <2> QED
    BY <2>1, <2>2
<1> QED
  BY <1>1, <1>3, <1>5, <1>6 DEF Patched, Corrected

\* At the end of the loop.
LEMMA LoopEnd ==
  ASSUME Patched, next > Len(kernels), ~anyUnrepairable
  PROVE  bytes \in Seq(Kernels) /\ AllClosed(bytes)
<1>1. ASSUME NEW i \in 1..Len(bytes) PROVE bytes[i].closed
  <2>1. i \in 1..Len(kernels) /\ i < next
    BY DEF Patched
  <2>2. bytes[i] = Corrected(kernels[i]) /\ kernels[i].kind # "crowded" /\ kernels[i] \in Kernels
    BY <2>1 DEF Patched
  <2> QED
    BY <2>2, CorrectedClosed
<1> QED
  BY <1>1 DEF Patched, AllClosed

LEMMA InitIInv == Init => IInv
<1> SUFFICES ASSUME Init PROVE IInv
  OBVIOUS
<1>1. <<in, out>> \in Requests
  <2>1. PICK r \in Requests : in = r[1] /\ out = r[2]
    BY DEF Init
  <2> QED
    BY <2>1, FileAssumption
<1>2. start \in [Files -> Contents]
  BY FileAssumption DEF Init, Contents
<1> QED
  BY <1>1, <1>2 DEF Init, IInv

LEMMA NextIInv == IInv /\ [Next]_vars => IInv'
<1> SUFFICES ASSUME IInv, [Next]_vars PROVE IInv'
  OBVIOUS
<1>0. fs \in [Files -> Contents] /\ in \in Files /\ out \in Files
  BY FilesHold, RequestFiles DEF IInv
<1>1. CASE Start
  <2>1. <<in', out'>> \in Requests
    <3>1. PICK r \in Requests : in' = r[1] /\ out' = r[2]
      BY <1>1 DEF Start
    <3> QED
      BY <3>1, FileAssumption
  <2> QED
    BY <1>0, <1>1, <2>1 DEF Start, IInv
<1>2. CASE CheckIn
  BY <1>2 DEF CheckIn, Fails, IInv, Moved, Put, Renamed
<1>3. CASE BackupOut
  BY <1>3 DEF BackupOut, IInv, Moved, Renamed
<1>4. CASE Load
  <2>1. CASE Loadable(fs[in]) /\ fs[in] # <<>> /\ Supported(fs[in])
    <3>1. fs[in] \in Seq(Kernels)
      BY <1>0, <2>1 DEF Loadable, Contents
    <3> QED
      BY <1>4, <2>1, <3>1 DEF Load, IInv, Moved, Renamed
  <2>2. CASE ~(Loadable(fs[in]) /\ fs[in] # <<>> /\ Supported(fs[in]))
    BY <1>4, <2>2 DEF Load, Fails, IInv, Moved, Renamed
  <2> QED
    BY <2>1, <2>2
<1>5. CASE Decode
  <2>1. CASE \E i \in 1..Len(kernels) : kernels[i].kind = "uncurated"
    BY <1>5, <2>1 DEF Decode, Fails, IInv, Moved, Renamed
  <2>2. CASE ~\E i \in 1..Len(kernels) : kernels[i].kind = "uncurated"
    <3>1. Patched'
      BY <1>5, <2>2 DEF Decode, IInv, Patched
    <3> QED
      BY <1>5, <2>2, <3>1 DEF Decode, IInv, Moved, Renamed
  <2> QED
    BY <2>1, <2>2
<1>6. CASE CorrectKernel
  <2>1. CASE kernels[next].kind = "unresolvable"
    BY <1>6, <2>1 DEF CorrectKernel, Fails, IInv, Moved, Renamed
  <2>2. CASE kernels[next].kind # "unresolvable"
    <3>1. Patched
      BY <1>6 DEF CorrectKernel, IInv
    <3>2. Patched'
      BY <1>6, <2>2, <3>1, LoopStep
    <3> QED
      BY <1>6, <2>2, <3>2 DEF CorrectKernel, IInv, Moved, Renamed
  <2> QED
    BY <2>1, <2>2
<1>7. CASE Refuse
  BY <1>7 DEF Refuse, Fails, IInv, Moved, Renamed
<1>8. CASE Open
  <2>1. bytes \in Seq(Kernels) /\ AllClosed(bytes)
    BY <1>8, LoopEnd DEF Open, IInv
  <2>2. CASE fs' = [fs EXCEPT ![out] = Cut] /\ at' = "write" /\ UNCHANGED <<exit, faults>>
    BY <1>8, <2>1, <2>2 DEF Open, IInv, Moved, Renamed, Put, AllClosed
  <2>3. CASE exit' = "ok" /\ at' = "idle" /\ UNCHANGED fs
    BY <1>8, <2>3 DEF Open, IInv, Moved, Renamed
  <2> QED
    BY <1>8, <2>2, <2>3 DEF Open
<1>9. CASE Write
  <2>1. /\ fs = Put(Cut) /\ bytes \in Contents /\ AllClosed(bytes) /\ Cut \in Contents
        /\ UNCHANGED <<in, out, start>> /\ exit' = "ok" /\ at' = "idle"
    BY <1>9 DEF Write, IInv, Contents
  <2>2. Moved \in [Files -> Contents]
    BY MovedType DEF IInv
  <2>3. Moved' = Moved /\ \A c : Put(c)' = Put(c)
    BY <2>1 DEF Moved, Renamed, Put
  <2>4. CASE fs' = [fs EXCEPT ![out] = bytes]
    <3>1. fs' = Put(bytes)
      BY <1>0, <2>1, <2>2, <2>4 DEF Put
    <3> QED
      BY <2>1, <2>3, <3>1 DEF IInv
  <2>5. CASE UNCHANGED fs
    BY <2>1, <2>3, <2>5 DEF IInv
  <2> QED
    BY <1>9, <2>4, <2>5 DEF Write
<1>10. CASE Crash
  <2>1. /\ UNCHANGED <<fs, in, out, start>> /\ at' = "idle" /\ exit' = "crashed" /\ at # "idle"
        /\ Cut \in Contents
    BY <1>10 DEF Crash, Contents
  <2>2. Moved' = Moved /\ \A c : Put(c)' = Put(c)
    BY <2>1 DEF Moved, Renamed, Put
  <2> QED
    BY <2>1, <2>2 DEF IInv
<1>11. CASE UNCHANGED vars
  BY <1>11 DEF vars, IInv, Moved, Renamed, Put, Patched
<1> QED
  BY <1>1, <1>2, <1>3, <1>4, <1>5, <1>6, <1>7, <1>8, <1>9, <1>10, <1>11 DEF Next, Run

LEMMA IInvHolds == Spec => []IInv
  BY InitIInv, NextIInv, PTL DEF Spec

\* The files differ from those of the start in the output and its backup.
LEMMA Places ==
  ASSUME IInv
  PROVE  \/ fs = start
         \/ /\ \A f \in Files \ {out, Backup[out]} : fs[f] = start[f]
            /\ fs[out] \in {Absent, Cut} \/ AllClosed(fs[out])
            /\ IF start[out] = Absent THEN fs[Backup[out]] = start[Backup[out]]
                                      ELSE fs[Backup[out]] = start[out]
<1>1. /\ in \in Files /\ out \in Files /\ Backup[out] \in Files /\ Backup[out] # out
      /\ start \in [Files -> Contents] /\ Moved \in [Files -> Contents]
  BY RequestFiles, MovedType DEF IInv
<1>2. fs = start \/ fs = Moved \/ \E c : (c = Cut \/ AllClosed(c)) /\ fs = Put(c)
  BY DEF IInv
<1>3. ASSUME fs = Moved
      PROVE  /\ \A f \in Files \ {out, Backup[out]} : fs[f] = start[f]
             /\ fs[out] \in {Absent, Cut} \/ AllClosed(fs[out])
             /\ IF start[out] = Absent THEN fs[Backup[out]] = start[Backup[out]]
                                       ELSE fs[Backup[out]] = start[out]
  BY <1>1, <1>3 DEF Moved, Renamed
<1>4. ASSUME NEW c, c = Cut \/ AllClosed(c), fs = Put(c)
      PROVE  /\ \A f \in Files \ {out, Backup[out]} : fs[f] = start[f]
             /\ fs[out] \in {Absent, Cut} \/ AllClosed(fs[out])
             /\ IF start[out] = Absent THEN fs[Backup[out]] = start[Backup[out]]
                                       ELSE fs[Backup[out]] = start[out]
  <2>1. /\ fs[out] = c
        /\ \A f \in Files \ {out} : fs[f] = Moved[f]
    BY <1>1, <1>4 DEF Put
  <2>2. /\ \A f \in Files \ {out, Backup[out]} : Moved[f] = start[f]
        /\ IF start[out] = Absent THEN Moved[Backup[out]] = start[Backup[out]]
                                  ELSE Moved[Backup[out]] = start[out]
    BY <1>1 DEF Moved, Renamed
  <2> QED
    BY <1>1, <1>4, <2>1, <2>2
<1> QED
  BY <1>2, <1>3, <1>4

\* For any files, requests and faults, no file gets a cubin with an open
\* dependency from the tool.
THEOREM OutputIsClosed == Spec => []WrittenIsClosed
<1>1. IInv => WrittenIsClosed
  <2> SUFFICES ASSUME IInv, NEW f \in Files
               PROVE  fs[f] \in {Absent, Cut} \cup {start[g] : g \in Files} \/ AllClosed(fs[f])
    BY DEF WrittenIsClosed
  <2>1. out \in Files /\ Backup[out] \in Files
    BY RequestFiles DEF IInv
  <2> QED
    BY <2>1, Places
<1> QED
  BY <1>1, IInvHolds, PTL

\* For any files, requests and faults, the input of a run survives it.
THEOREM InputIsKept == Spec => []InputSurvives
<1>1. IInv => InputSurvives
  <2> SUFFICES ASSUME IInv, start[in] # Absent, ~(tool = "saveAsCubin" /\ in = out)
               PROVE  fs[in] = start[in] \/ (in = out /\ fs[Backup[out]] = start[in])
    BY DEF InputSurvives
  <2>1. in \in Files /\ Backup[out] # in
    BY RequestFiles DEF IInv
  <2> QED
    BY <2>1, Places
<1> QED
  BY <1>1, IInvHolds, PTL

\* For any files, requests and faults, what a run replaces is its backup.
THEOREM PreviousIsKept == Spec => []PreviousIsBackup
<1>1. IInv => PreviousIsBackup
  BY Places DEF PreviousIsBackup
<1> QED
  BY <1>1, IInvHolds, PTL

\* For any files, requests and faults, a failed run leaves no output.
THEOREM FailureLeavesNoOutput == Spec => []FailedLeavesNoOutput
<1>1. IInv => FailedLeavesNoOutput
  <2> SUFFICES ASSUME IInv, exit = "failed", start[in] # Absent
               PROVE  fs[out] = Absent
    BY DEF FailedLeavesNoOutput
  <2>1. fs = Moved
    BY DEF IInv
  <2>2. out \in Files /\ Backup[out] # out /\ start \in [Files -> Contents]
    BY RequestFiles DEF IInv
  <2> QED
    BY <2>1, <2>2 DEF Moved, Renamed
<1> QED
  BY <1>1, IInvHolds, PTL

-----------------------------------------------------------------------------
(* The commands on each other's files.  Where says which command takes     *)
(* which step; the three invariants below it are about files, hnvcc's      *)
(* directory and temporary files.                                          *)

OnFiles == {"cuasm", "dsass", "hcubin"}
Builds == {"dump", "hack"}

Where ==
  /\ in \in Files /\ out \in Files /\ Backup[out] \in Files /\ Backup[out] \notin {in, out}
  /\ tasks \in Jobs
  /\ at # "idle" => exit = "none"
  /\ at \in {"check", "backup", "load"} => tool \in OnFiles \cup {"correct-cc"}
  /\ at = "decode" => tool = "correct-cc"
  /\ at \in {"correct", "write"} => tool \in {"correct-cc", "saveAsCubin"}
  /\ at \in {"open", "put", "demote", "demoted"} => tool \in OnFiles
  /\ at \in {"read", "text", "assemble", "verify"} => tool = "saveAsCubin"
  /\ at \in {"copy", "copying"} => tool \in {"saveAsCubin", "dump"}
  /\ at \in {"dryrun", "mkdir", "build", "remove"} => tool \in Builds
  /\ at \in {"keep", "keeping"} => tool = "dump"
  /\ at \in {"idle", "check", "backup", "load", "decode", "correct", "write", "open", "put", "demote", "demoted",
             "read", "text", "assemble", "verify", "copy", "copying", "dryrun", "mkdir", "keep", "keeping", "build", "remove"}

\* The names in a job.
LEMMA JobFiles ==
  ASSUME NEW job \in Jobs, NEW t \in job
  PROVE  /\ t[1] \in Tools /\ t[2] \in Files /\ t[3] \in Files
         /\ Backup[t[3]] \in Files /\ Backup[t[3]] \notin {t[2], t[3]}
<1>1. t \in Tools \X Files \X DOMAIN Backup
  BY CommandAssumption
<1>2. Backup[t[3]] \notin {t[2], t[3]}
  BY CommandAssumption
<1> QED
  BY <1>1, <1>2, FileAssumption

LEMMA InitWhere == CommandsInit => Where
<1> SUFFICES ASSUME CommandsInit PROVE Where
  OBVIOUS
<1>1. <<in, out>> \in Requests
  <2>1. PICK r \in Requests : in = r[1] /\ out = r[2]
    BY DEF CommandsInit, Init
  <2> QED
    BY <2>1, FileAssumption
<1> QED
  BY <1>1, RequestFiles DEF CommandsInit, Init, Where

LEMMA NextWhere == Where /\ [CommandsNext]_commandVars => Where'
<1> SUFFICES ASSUME Where, [CommandsNext]_commandVars PROVE Where'
  OBVIOUS
<1>1. CASE StartCommand
  <2>1. PICK t \in tasks : /\ t[1] # "correct-cc"
                           /\ tool' = t[1] /\ in' = t[2] /\ out' = t[3] /\ at' = FirstStep(t[1])
    BY <1>1 DEF StartCommand
  <2>2. t[1] \in Tools /\ in' \in Files /\ out' \in Files /\ Backup[out'] \in Files /\ Backup[out'] \notin {in', out'}
    BY <2>1, JobFiles DEF Where
  <2>3. CASE t[1] \in OnFiles
    BY <1>1, <2>1, <2>2, <2>3 DEF StartCommand, FirstStep, Where, OnFiles
  <2>4. CASE t[1] \in Builds
    BY <1>1, <2>1, <2>2, <2>4 DEF StartCommand, FirstStep, Where, Builds
  <2>5. CASE t[1] = "saveAsCubin"
    BY <1>1, <2>1, <2>2, <2>5 DEF StartCommand, FirstStep, Where
  <2> QED
    BY <2>1, <2>2, <2>3, <2>4, <2>5 DEF Tools, OnFiles, Builds
<1>2. CASE StartCorrect
  <2>1. PICK r \in Requests : in' = r[1] /\ out' = r[2]
    BY <1>2 DEF StartCorrect, Start
  <2>2. <<in', out'>> \in Requests
    BY <2>1, FileAssumption
  <2>3. /\ in' \in Files /\ out' \in Files /\ Backup[out'] \in Files /\ Backup[out'] \notin {in', out'}
    BY <2>2, FileAssumption, RequestAssumption
  <2> QED
    BY <1>2, <2>3 DEF StartCorrect, Start, Where
<1>3. CASE BadExtension
  BY <1>3 DEF BadExtension, Fails, Where, shared
<1>4. CASE Checked
  BY <1>4 DEF Checked, CheckIn, BackupOut, Fails, Where, shared
<1>5. CASE Loaded
  BY <1>5 DEF Loaded, Load, Decode, Fails, Where, shared
<1>6. CASE Corrects
  BY <1>6 DEF Corrects, CorrectKernel, Refuse, Open, Write, Fails, Where, shared
<1>7. CASE Assemble
  BY <1>7 DEF Assemble, Assembles, To, Ends, Frame, Where
<1>8. CASE Disassemble
  BY <1>8 DEF Disassemble, Streams, To, Ends, Frame, Where
<1>9. CASE HackDesc
  BY <1>9 DEF HackDesc, To, Ends, Frame, Where
<1>10. CASE OpenOut
  BY <1>10 DEF OpenOut, To, Ends, Frame, Where
<1>11. CASE PutOut
  BY <1>11 DEF PutOut, To, Ends, Frame, Where
<1>12. CASE Demote
  BY <1>12 DEF Demote, To, Ends, Frame, Where
<1>13. CASE PutDemoted
  BY <1>13 DEF PutDemoted, Ends, Frame, Where
<1>14. CASE SaveRead
  BY <1>14 DEF SaveRead, To, Ends, Frame, Where
<1>15. CASE SaveText
  BY <1>15 DEF SaveText, To, Ends, Frame, Where
<1>16. CASE SaveAssemble
  BY <1>16 DEF SaveAssemble, To, Ends, Frame, Where
<1>17. CASE SaveVerify
  BY <1>17 DEF SaveVerify, To, Ends, Frame, Where
<1>18. CASE CopyOpen
  BY <1>18 DEF CopyOpen, To, Ends, Frame, Where
<1>19. CASE CopyRest
  BY <1>19 DEF CopyRest, To, Ends, Frame, Where, Builds
<1>20. CASE DryRun \/ MakeKeepDir \/ KeepDump \/ KeepRest \/ Build \/ RemoveKeepDir
  BY <1>20 DEF DryRun, MakeKeepDir, KeepDump, KeepRest, Build, RemoveKeepDir, To, Ends, Frame, Where, Builds
<1>21. CASE Edit
  BY <1>21 DEF Edit, Where, shared
<1>22. CASE CrashCommand
  BY <1>22 DEF CrashCommand, Crash, Where, shared
<1>23. CASE UNCHANGED commandVars
  BY <1>23 DEF commandVars, vars, shared, Where
<1> QED
  BY <1>1, <1>2, <1>3, <1>4, <1>5, <1>6, <1>7, <1>8, <1>9, <1>10, <1>11, <1>12, <1>13, <1>14, <1>15, <1>16,
     <1>17, <1>18, <1>19, <1>20, <1>21, <1>22, <1>23
  DEF CommandsNext, RunCommand, Convert, Save, Hnvcc

\* The output's old content is its backup.
Kept == start[out] # Absent => fs[Backup[out]] = start[out]

\* The places of a run before anything is done to the output, and after the
\* backup has been made.
Before == {"check", "backup", "dryrun", "mkdir", "keep", "keeping"}
After == {"load", "decode", "correct", "write", "open", "put", "demote", "demoted", "copy", "copying"}

\* The files differ from those of the start in the output and its backup.
FilesKept ==
  /\ DOMAIN fs = Files
  /\ \A f \in Files \ {out, Backup[out]} : fs[f] = start[f]
  /\ at \in Before \/ tool = "hack" => fs[out] = start[out]
  /\ tool # "saveAsCubin" =>
       /\ at \in After \/ (at \in {"build", "remove"} /\ tool = "dump") => Kept
       /\ fs[out] = start[out] \/ Kept
  /\ tool = "correct-cc" =>
       /\ at \in {"load", "decode", "correct"} => fs[out] = Absent
       /\ exit = "failed" /\ start[in] # Absent => fs[out] = Absent


LEMMA NextFilesKept == Where /\ FilesKept /\ [CommandsNext]_commandVars => FilesKept'
<1> SUFFICES ASSUME Where, FilesKept, [CommandsNext]_commandVars PROVE FilesKept'
  OBVIOUS
<1>1. CASE StartCommand
  BY <1>1 DEF StartCommand, FirstStep, FilesKept, After
<1>2. CASE StartCorrect
  BY <1>2 DEF StartCorrect, Start, FilesKept, After
<1>3. CASE BadExtension
  BY <1>3 DEF BadExtension, Fails, Unknown, FilesKept, Before, After
<1>4. CASE Checked
  BY <1>4 DEF Checked, CheckIn, BackupOut, Fails, Renamed, Where, FilesKept, Kept, Before, After, OnFiles
<1>5. CASE Loaded
  BY <1>5 DEF Loaded, Load, Decode, Fails, FilesKept, Kept, Before
<1>6. CASE Corrects
  BY <1>6 DEF Corrects, CorrectKernel, Refuse, Open, Write, Fails, Where, FilesKept, Kept, Before, After
<1>7. CASE Assemble
  BY <1>7 DEF Assemble, To, Ends, Frame, FilesKept, Kept, Before, After
<1>8. CASE Disassemble
  BY <1>8 DEF Disassemble, To, Ends, Frame, FilesKept, Kept, Before, After
<1>9. CASE HackDesc
  BY <1>9 DEF HackDesc, To, Ends, Frame, FilesKept, Kept, Before, After
<1>10. CASE OpenOut
  BY <1>10 DEF OpenOut, To, Ends, Frame, Where, FilesKept, Kept, Before, After, OnFiles
<1>11. CASE PutOut
  BY <1>11 DEF PutOut, To, Ends, Frame, Where, FilesKept, Kept, Before, After, OnFiles
<1>12. CASE Demote
  BY <1>12 DEF Demote, To, Ends, Frame, Where, FilesKept, Kept, Before, After, OnFiles
<1>13. CASE PutDemoted
  BY <1>13 DEF PutDemoted, Ends, Frame, Where, FilesKept, Kept, Before, After, OnFiles
<1>14. CASE SaveRead
  BY <1>14 DEF SaveRead, To, Ends, Frame, Where, FilesKept, Before
<1>15. CASE SaveText
  BY <1>15 DEF SaveText, To, Ends, Frame, Where, FilesKept, Before
<1>16. CASE SaveAssemble
  BY <1>16 DEF SaveAssemble, To, Ends, Frame, Where, FilesKept, Before
<1>17. CASE SaveVerify
  BY <1>17 DEF SaveVerify, To, Ends, Frame, Where, FilesKept, Before
<1>18. CASE CopyOpen
  BY <1>18 DEF CopyOpen, To, Ends, Frame, Where, FilesKept, Kept, Before, After
<1>19. CASE CopyRest
  BY <1>19 DEF CopyRest, To, Ends, Frame, Where, FilesKept, Kept, Before, After
<1>20. CASE DryRun \/ MakeKeepDir
  BY <1>20 DEF DryRun, MakeKeepDir, To, Ends, Frame, Where, FilesKept, Before, After, Builds
<1>21. CASE KeepDump
  BY <1>21 DEF KeepDump, To, Ends, Frame, Where, FilesKept, Kept, Before, After
<1>22. CASE KeepRest
  BY <1>22 DEF KeepRest, Ends, Frame, Where, FilesKept, Kept, Before, After
<1>23. CASE Build \/ RemoveKeepDir
  BY <1>23 DEF Build, RemoveKeepDir, To, Ends, Frame, Where, FilesKept, Kept, Before, After, Builds
<1>24. CASE Edit
  BY <1>24 DEF Edit, FilesKept, After
<1>25. CASE CrashCommand
  BY <1>25 DEF CrashCommand, Crash, FilesKept, Kept, Before, After
<1>26. CASE UNCHANGED commandVars
  BY <1>26 DEF commandVars, vars, FilesKept, Kept
<1> QED
  BY <1>1, <1>2, <1>3, <1>4, <1>5, <1>6, <1>7, <1>8, <1>9, <1>10, <1>11, <1>12, <1>13, <1>14,
     <1>15, <1>16, <1>17, <1>18, <1>19, <1>20, <1>21, <1>22, <1>23, <1>24, <1>25, <1>26
  DEF CommandsNext, RunCommand, Convert, Save, Hnvcc

\* hnvcc owns the directory exactly if it was not there before.
DirKept ==
  /\ keepDir \in BOOLEAN /\ ownsDir \in BOOLEAN /\ dirBefore \in BOOLEAN
  /\ tool \in Builds =>
       /\ at \in {"dryrun", "mkdir"} => keepDir = dirBefore
       /\ at \in {"keep", "keeping", "build", "copy", "copying", "remove"} => keepDir /\ ownsDir = ~dirBefore
       /\ exit = "ok" => keepDir = dirBefore
       /\ dirBefore => keepDir

LEMMA NextDirKept == Where /\ DirKept /\ [CommandsNext]_commandVars => DirKept'
<1> SUFFICES ASSUME Where, DirKept, [CommandsNext]_commandVars PROVE DirKept'
  OBVIOUS
<1>1. CASE StartCommand
  BY <1>1 DEF StartCommand, FirstStep, SameDir, DirKept
<1>2. CASE StartCorrect
  BY <1>2 DEF StartCorrect, Start, SameDir, DirKept
<1>3. CASE BadExtension
  BY <1>3 DEF BadExtension, Fails, shared, DirKept
<1>4. CASE Checked
  BY <1>4 DEF Checked, CheckIn, BackupOut, Fails, shared, DirKept
<1>5. CASE Loaded
  BY <1>5 DEF Loaded, Load, Decode, Fails, shared, DirKept
<1>6. CASE Corrects
  BY <1>6 DEF Corrects, CorrectKernel, Refuse, Open, Write, Fails, shared, Where, DirKept, Builds
<1>7. CASE Assemble
  BY <1>7 DEF Assemble, To, Ends, Frame, SameDir, DirKept
<1>8. CASE Disassemble
  BY <1>8 DEF Disassemble, To, Ends, Frame, SameDir, DirKept
<1>9. CASE HackDesc
  BY <1>9 DEF HackDesc, Frame, SameDir, DirKept, Builds
<1>10. CASE OpenOut
  BY <1>10 DEF OpenOut, Frame, SameDir, Where, DirKept, Builds, OnFiles
<1>11. CASE PutOut
  BY <1>11 DEF PutOut, Frame, SameDir, Where, DirKept, Builds, OnFiles
<1>12. CASE Demote
  BY <1>12 DEF Demote, Frame, SameDir, Where, DirKept, Builds, OnFiles
<1>13. CASE PutDemoted
  BY <1>13 DEF PutDemoted, Frame, SameDir, Where, DirKept, Builds, OnFiles
<1>14. CASE SaveRead
  BY <1>14 DEF SaveRead, To, Ends, Frame, SameDir, DirKept
<1>15. CASE SaveText
  BY <1>15 DEF SaveText, To, Ends, Frame, SameDir, DirKept
<1>16. CASE SaveAssemble
  BY <1>16 DEF SaveAssemble, To, Ends, Frame, SameDir, DirKept
<1>17. CASE SaveVerify
  BY <1>17 DEF SaveVerify, Frame, SameDir, Where, DirKept, Builds
<1>18. CASE CopyOpen
  BY <1>18 DEF CopyOpen, To, Ends, Frame, SameDir, DirKept
<1>19. CASE CopyRest
  BY <1>19 DEF CopyRest, To, Ends, Frame, SameDir, Where, DirKept, Builds
<1>20. CASE DryRun
  BY <1>20 DEF DryRun, To, Ends, Frame, SameDir, DirKept
<1>28. CASE MakeKeepDir
  <2>1. /\ tool \in Builds /\ keepDir = dirBefore /\ exit = "none"
        /\ tool' = tool /\ dirBefore' = dirBefore /\ exit' = exit /\ at' \in {"keep", "build"}
    BY <1>28 DEF MakeKeepDir, To, Frame, Where, DirKept
  <2>2. ownsDir' = ~keepDir /\ keepDir' = TRUE
    BY <1>28 DEF MakeKeepDir, Owns
  <2>3. ownsDir' \in BOOLEAN /\ dirBefore' \in BOOLEAN /\ ownsDir' = ~dirBefore'
    BY <2>1, <2>2 DEF DirKept
  <2> QED
    BY <2>1, <2>2, <2>3 DEF DirKept
<1>21. CASE KeepDump
  BY <1>21 DEF KeepDump, To, Ends, Frame, SameDir, DirKept
<1>22. CASE KeepRest
  BY <1>22 DEF KeepRest, To, Ends, Frame, SameDir, DirKept
<1>23. CASE Build
  BY <1>23 DEF Build, To, Ends, Frame, SameDir, DirKept
<1>27. CASE RemoveKeepDir
  <2>1. keepDir /\ ownsDir = ~dirBefore /\ at' = "idle" /\ tool' = tool /\ dirBefore' = dirBefore /\ ownsDir' = ownsDir
    BY <1>27 DEF RemoveKeepDir, Ends, Frame, Where, DirKept
  <2>2. keepDir' = (keepDir /\ ~ownsDir)
    BY <1>27 DEF RemoveKeepDir
  <2>3. keepDir' = dirBefore
    BY <2>1, <2>2 DEF DirKept
  <2> QED
    BY <2>1, <2>3 DEF DirKept
<1>24. CASE Edit
  BY <1>24 DEF Edit, shared, DirKept
<1>25. CASE CrashCommand
  BY <1>25 DEF CrashCommand, Crash, shared, DirKept
<1>26. CASE UNCHANGED commandVars
  BY <1>26 DEF commandVars, vars, shared, DirKept
<1> QED
  BY <1>1, <1>2, <1>3, <1>4, <1>5, <1>6, <1>7, <1>8, <1>9, <1>10, <1>11, <1>12, <1>13, <1>14,
     <1>15, <1>16, <1>17, <1>18, <1>19, <1>20, <1>21, <1>22, <1>23, <1>24, <1>25, <1>26, <1>27, <1>28
  DEF CommandsNext, RunCommand, Convert, Save, Hnvcc

\* The temporary files of saveAsCubin at each of its places.
TempsKept ==
  tool = "saveAsCubin" =>
    /\ at \in {"read", "text"} => temps = {}
    /\ at = "assemble" => temps = {"asm"}
    /\ at \in {"verify", "correct", "write", "copy", "copying"} => temps \subseteq {"cubin"}
    /\ exit \in {"ok", "failed"} => temps \cap {"asm", "cubin"} = {}

LEMMA NextTempsKept == Where /\ TempsKept /\ [CommandsNext]_commandVars => TempsKept'
<1> SUFFICES ASSUME Where, TempsKept, [CommandsNext]_commandVars PROVE TempsKept'
  OBVIOUS
<1>1. CASE StartCommand
  BY <1>1 DEF StartCommand, FirstStep, TempsKept
<1>2. CASE StartCorrect
  BY <1>2 DEF StartCorrect, Start, TempsKept
<1>3. CASE BadExtension
  BY <1>3 DEF BadExtension, Fails, Unknown, TempsKept
<1>4. CASE Checked
  BY <1>4 DEF Checked, CheckIn, BackupOut, Fails, Where, TempsKept, OnFiles
<1>5. CASE Loaded
  BY <1>5 DEF Loaded, Load, Decode, Fails, TempsKept
<1>6. CASE Corrects
  BY <1>6 DEF Corrects, CorrectKernel, Refuse, Open, Write, Fails, TempsKept, CleanUp
<1>7. CASE Assemble
  BY <1>7 DEF Assemble, Assembles, Frame, TempsKept
<1>8. CASE Disassemble
  BY <1>8 DEF Disassemble, Streams, Frame, TempsKept
<1>9. CASE HackDesc
  BY <1>9 DEF HackDesc, Frame, TempsKept
<1>10. CASE OpenOut
  BY <1>10 DEF OpenOut, Frame, Where, TempsKept, OnFiles
<1>11. CASE PutOut
  BY <1>11 DEF PutOut, Frame, Where, TempsKept, OnFiles
<1>12. CASE Demote
  BY <1>12 DEF Demote, Frame, Where, TempsKept, OnFiles
<1>13. CASE PutDemoted
  BY <1>13 DEF PutDemoted, Frame, Where, TempsKept, OnFiles
<1>14. CASE SaveRead
  BY <1>14 DEF SaveRead, To, Ends, Where, TempsKept
<1>15. CASE SaveText
  BY <1>15 DEF SaveText, To, Ends, Where, TempsKept
<1>16. CASE SaveAssemble
  BY <1>16 DEF SaveAssemble, To, Ends, Where, TempsKept
<1>17. CASE SaveVerify
  BY <1>17 DEF SaveVerify, To, Ends, Where, TempsKept, CleanUp
<1>18. CASE CopyOpen
  BY <1>18 DEF CopyOpen, To, Ends, Frame, TempsKept, CleanUp
<1>19. CASE CopyRest
  BY <1>19 DEF CopyRest, Ends, Frame, TempsKept, CleanUp
<1>20. CASE DryRun \/ MakeKeepDir
  BY <1>20 DEF DryRun, MakeKeepDir, Frame, Where, TempsKept, Builds
<1>21. CASE KeepDump
  BY <1>21 DEF KeepDump, Frame, Where, TempsKept
<1>22. CASE KeepRest
  BY <1>22 DEF KeepRest, Frame, Where, TempsKept
<1>23. CASE Build \/ RemoveKeepDir
  BY <1>23 DEF Build, RemoveKeepDir, Frame, Where, TempsKept, Builds
<1>24. CASE Edit
  BY <1>24 DEF Edit, TempsKept
<1>25. CASE CrashCommand
  BY <1>25 DEF CrashCommand, Crash, TempsKept
<1>26. CASE UNCHANGED commandVars
  BY <1>26 DEF commandVars, vars, TempsKept
<1> QED
  BY <1>1, <1>2, <1>3, <1>4, <1>5, <1>6, <1>7, <1>8, <1>9, <1>10, <1>11, <1>12, <1>13, <1>14,
     <1>15, <1>16, <1>17, <1>18, <1>19, <1>20, <1>21, <1>22, <1>23, <1>24, <1>25, <1>26
  DEF CommandsNext, RunCommand, Convert, Save, Hnvcc

\* What may be written.
Harmless(content) ==
  content \in {Absent, Cut} \cup {start[g] : g \in Files} \/ AllClosed(content) \/ ~Supported(content)

\* What a run holds at each of its places, and so what it writes.
ClosedKept ==
  /\ start \in [Files -> Contents] /\ fs \in [Files -> Contents]
  /\ \A f \in Files : Harmless(fs[f])
  /\ at \in {"open", "put", "demote", "demoted", "copy", "copying"} => bytes \in Contents /\ Harmless(bytes)
  /\ at = "write" => bytes \in Seq(Kernels) /\ AllClosed(bytes)
  /\ at = "decode" => kernels = fs[in] /\ kernels \in Seq(Kernels)
  /\ at = "correct" => Patched
  /\ at \in {"text", "assemble"} => kernels \in Seq(Kernels)
  /\ at = "verify" => bytes \in Seq(Kernels) \cup {Cut}

\* A content that was loaded is a sequence of kernels, and so is an edit of it.
LEMMA LoadedIsCubin ==
  ASSUME NEW content \in Contents, Loadable(content)
  PROVE  content \in Seq(Kernels) /\ Edits(content) \subseteq Seq(Kernels)
<1>1. content \in Seq(Kernels)
  BY DEF Contents, Loadable
<1>2. ASSUME NEW i \in 1..Len(content) PROVE [content EXCEPT ![i].closed = FALSE] \in Seq(Kernels)
  <2>1. content[i] \in Kernels
    BY <1>1
  <2>2. [content[i] EXCEPT !.closed = FALSE] \in Kernels
    BY <2>1 DEF Kernels
  <2> QED
    BY <1>1, <2>2
<1> QED
  BY <1>1, <1>2 DEF Edits

LEMMA NextClosedKept == Where /\ ClosedKept /\ [CommandsNext]_commandVars => ClosedKept'
<1> SUFFICES ASSUME Where, ClosedKept, [CommandsNext]_commandVars PROVE ClosedKept'
  OBVIOUS
<1>1. CASE StartCommand
  BY <1>1 DEF StartCommand, FirstStep, ClosedKept, Harmless
<1>2. CASE StartCorrect
  BY <1>2 DEF StartCorrect, Start, ClosedKept, Harmless
<1>3. CASE BadExtension
  BY <1>3 DEF BadExtension, Fails, ClosedKept, Harmless
<1>4. CASE Checked
  BY <1>4 DEF Checked, CheckIn, BackupOut, Fails, Renamed, Where, ClosedKept, Harmless, Contents
<1>5. CASE Loaded
  <2>1. CASE Load
    <3>1. Loadable(fs[in]) => fs[in] \in Seq(Kernels)
      BY LoadedIsCubin DEF Where, ClosedKept
    <3> QED
      BY <1>5, <2>1, <3>1 DEF Loaded, Load, Fails, ClosedKept, Harmless
  <2>2. CASE Decode
    <3>1. at' = "correct" => Patched'
      <4>1. ASSUME at' = "correct"
            PROVE  kernels' = kernels /\ kernels \in Seq(Kernels) /\ bytes' = kernels /\ next' = 1
        BY <2>2, <4>1 DEF Decode, Fails, ClosedKept
      <4> QED
        BY <4>1 DEF Patched
    <3> QED
      BY <1>5, <2>2, <3>1 DEF Loaded, Decode, Fails, ClosedKept, Harmless
  <2> QED
    BY <1>5, <2>1, <2>2 DEF Loaded
<1>6. CASE Corrects
  <2>1. CASE CorrectKernel
    <3>1. CASE kernels[next].kind = "unresolvable"
      BY <1>6, <2>1, <3>1 DEF Corrects, CorrectKernel, Fails, ClosedKept, Harmless
    <3>2. CASE kernels[next].kind # "unresolvable"
      <4>1. Patched
        BY <2>1 DEF CorrectKernel, ClosedKept
      <4>2. Patched'
        BY <2>1, <3>2, <4>1, LoopStep
      <4> QED
        BY <1>6, <2>1, <3>2, <4>2 DEF Corrects, CorrectKernel, ClosedKept, Harmless
    <3> QED
      BY <3>1, <3>2
  <2>2. CASE Refuse
    BY <1>6, <2>2 DEF Corrects, Refuse, Fails, ClosedKept, Harmless
  <2>3. CASE Open
    <3>1. bytes \in Seq(Kernels) /\ AllClosed(bytes)
      BY <2>3, LoopEnd DEF Open, ClosedKept
    <3>2. /\ UNCHANGED <<in, out, start>>
          /\ \/ fs' = [fs EXCEPT ![out] = Cut] /\ at' = "write" /\ UNCHANGED bytes
             \/ at' = "idle" /\ UNCHANGED fs
      BY <2>3 DEF Open
    <3>3. AllClosed(bytes)' <=> AllClosed(bytes')
      BY DEF AllClosed
    <3> QED
      BY <3>1, <3>2, <3>3 DEF ClosedKept, Harmless, Contents, AllClosed
  <2>4. CASE Write
    <3>1. /\ at' = "idle" /\ UNCHANGED <<in, out, start>>
          /\ fs' = [fs EXCEPT ![out] = bytes] \/ UNCHANGED fs
          /\ bytes \in Contents /\ AllClosed(bytes)
      BY <2>4 DEF Write, ClosedKept, Contents
    <3> QED
      BY <3>1 DEF ClosedKept, Harmless
  <2> QED
    BY <1>6, <2>1, <2>2, <2>3, <2>4 DEF Corrects
<1>7. CASE Assemble
  BY <1>7 DEF Assemble, To, Ends, Frame, Where, ClosedKept, Harmless
<1>8. CASE Disassemble
  BY <1>8 DEF Disassemble, To, Ends, Frame, Where, ClosedKept, Harmless
<1>9. CASE HackDesc
  BY <1>9 DEF HackDesc, To, Ends, Frame, Where, ClosedKept, Harmless
<1>10. CASE OpenOut
  BY <1>10 DEF OpenOut, To, Ends, Frame, ClosedKept, Keep, Work, Harmless, Contents
<1>11. CASE PutOut
  BY <1>11 DEF PutOut, To, Ends, Frame, ClosedKept, Keep, Work, Harmless
<1>12. CASE Demote
  BY <1>12 DEF Demote, To, Ends, Frame, ClosedKept, Keep, Work, Harmless, Contents
<1>13. CASE PutDemoted
  BY <1>13 DEF PutDemoted, Ends, Frame, ClosedKept, Harmless
<1>14. CASE SaveRead
  <2>1. Loadable(fs[in]) => Edits(fs[in]) \subseteq Seq(Kernels)
    BY LoadedIsCubin DEF Where, ClosedKept
  <2>2. /\ UNCHANGED <<fs, in, out, start>>
        /\ at' = "idle" \/ (at' = "text" /\ Loadable(fs[in]) /\ kernels' \in Edits(fs[in]))
    BY <1>14 DEF SaveRead, To, Ends, Frame
  <2> QED
    BY <2>1, <2>2 DEF ClosedKept, Harmless
<1>15. CASE SaveText
  BY <1>15 DEF SaveText, To, Ends, Frame, ClosedKept, Keep, Work, Harmless
<1>16. CASE SaveAssemble
  BY <1>16 DEF SaveAssemble, To, Ends, Frame, ClosedKept, Harmless
<1>17. CASE SaveVerify
  <2>1. UNCHANGED <<fs, in, out, start>> /\ at = "verify" /\ at' \in {"idle", "copy", "correct"}
    BY <1>17 DEF SaveVerify, To, Ends, Frame
  <2>2. CASE at' = "idle"
    BY <2>1, <2>2 DEF ClosedKept, Harmless
  <2>3. CASE at' = "copy"
    <3>1. bytes' = bytes /\ (~Judged(bytes) \/ AllClosed(bytes))
      BY <1>17, <2>3 DEF SaveVerify, To, Ends, Keep
    <3>2. bytes \in Contents /\ Harmless(bytes)
      BY <2>1, <3>1 DEF ClosedKept, Harmless, Contents, Judged
    <3>3. Harmless(bytes)' <=> Harmless(bytes)
      BY <2>1, <3>1 DEF Harmless, AllClosed, Supported
    <3> QED
      BY <2>1, <2>3, <3>1, <3>2, <3>3 DEF ClosedKept, Harmless
  <2>4. CASE at' = "correct"
    <3>1. bytes' = bytes /\ kernels' = bytes /\ next' = 1 /\ Judged(bytes)
      BY <1>17, <2>4 DEF SaveVerify, To, Ends, Keep
    <3>2. bytes \in Seq(Kernels)
      BY <2>1, <3>1 DEF ClosedKept, Judged
    <3>3. Patched'
      BY <3>1, <3>2 DEF Patched
    <3> QED
      BY <2>1, <2>4, <3>3 DEF ClosedKept, Harmless
  <2> QED
    BY <2>1, <2>2, <2>3, <2>4
<1>18. CASE CopyOpen
  BY <1>18 DEF CopyOpen, To, Ends, Frame, ClosedKept, Keep, Work, Harmless, Contents
<1>19. CASE CopyRest
  BY <1>19 DEF CopyRest, To, Ends, Frame, ClosedKept, Harmless
<1>20. CASE DryRun \/ MakeKeepDir
  BY <1>20 DEF DryRun, MakeKeepDir, To, Ends, Frame, ClosedKept, Harmless
<1>21. CASE KeepDump
  BY <1>21 DEF KeepDump, To, Ends, Frame, ClosedKept, Keep, Harmless, Contents
<1>22. CASE KeepRest
  BY <1>22 DEF KeepRest, To, Ends, Frame, Where, ClosedKept, Harmless
<1>23. CASE Build
  <2>1. UNCHANGED <<fs, in, out, start, tool>> /\ at = "build" /\ at' \in {"idle", "copy", "remove"}
    BY <1>23 DEF Build, To, Ends, Frame
  <2>2. ASSUME at' = "copy" PROVE bytes' \in Contents /\ AllClosed(bytes')
    <3>1. tool = "dump"
      BY <1>23, <2>2 DEF Build, To, Ends
    <3>2. bytes' = Built
      BY <1>23, <2>2, <3>1 DEF Build, Ends
    <3> QED
      BY <3>2, CommandAssumption, FileAssumption DEF Contents
  <2> QED
    BY <2>1, <2>2 DEF ClosedKept, Harmless
<1>27. CASE RemoveKeepDir
  BY <1>27 DEF RemoveKeepDir, Ends, Frame, ClosedKept, Harmless
<1>24. CASE Edit
  <2>0. PICK f \in Files : Loadable(fs[f]) /\ \E c \in Edits(fs[f]) : fs' = [fs EXCEPT ![f] = c]
    BY <1>24 DEF Edit
  <2>1. PICK c \in Edits(fs[f]) : fs' = [fs EXCEPT ![f] = c]
    BY <2>0
  <2>2. c \in Contents
    BY <2>0, <2>1, LoadedIsCubin DEF ClosedKept, Contents
  <2>3. fs' \in [Files -> Contents]
    BY <2>1, <2>2 DEF ClosedKept
  <2>4. start' = fs' /\ at' = "idle"
    BY <1>24 DEF Edit
  <2> QED
    BY <2>3, <2>4 DEF ClosedKept, Harmless
<1>25. CASE CrashCommand
  BY <1>25 DEF CrashCommand, Crash, ClosedKept, Harmless
<1>26. CASE UNCHANGED commandVars
  <2>1. UNCHANGED <<fs, at, in, out, start, kernels, bytes, next, anyUnrepairable>>
    BY <1>26 DEF commandVars, vars
  <2>2. Patched => Patched'
    BY <2>1 DEF Patched, Corrected
  <2> QED
    BY <2>1, <2>2 DEF ClosedKept, Harmless, AllClosed, Supported
<1> QED
  BY <1>1, <1>2, <1>3, <1>4, <1>5, <1>6, <1>7, <1>8, <1>9, <1>10, <1>11, <1>12, <1>13, <1>14,
     <1>15, <1>16, <1>17, <1>18, <1>19, <1>20, <1>21, <1>22, <1>23, <1>24, <1>25, <1>26, <1>27
  DEF CommandsNext, RunCommand, Convert, Save, Hnvcc

-----------------------------------------------------------------------------
CInv == Where /\ FilesKept /\ DirKept /\ TempsKept /\ ClosedKept

LEMMA InitCInv == CommandsInit => CInv
<1> SUFFICES ASSUME CommandsInit PROVE CInv
  OBVIOUS
<1>1. Where
  BY InitWhere
<1>2. /\ fs \in [Files -> Contents] /\ start = fs /\ at = "idle" /\ exit = "none" /\ tool = "correct-cc"
      /\ keepDir = FALSE /\ ownsDir = FALSE /\ dirBefore = FALSE
  BY FileAssumption DEF CommandsInit, Init, Contents
<1>3. FilesKept
  BY <1>1, <1>2 DEF FilesKept, After
<1>4. DirKept /\ TempsKept
  BY <1>2 DEF DirKept, TempsKept
<1>5. ClosedKept
  BY <1>2 DEF ClosedKept, Harmless
<1> QED
  BY <1>1, <1>3, <1>4, <1>5 DEF CInv

LEMMA CInvHolds == CommandsSpec => []CInv
<1>1. CInv /\ [CommandsNext]_commandVars => CInv'
  BY NextWhere, NextFilesKept, NextDirKept, NextTempsKept, NextClosedKept DEF CInv
<1> QED
  BY <1>1, InitCInv, PTL DEF CommandsSpec

\* For any jobs and faults, no command gives a file codes with an open
\* dependency that did not come with the files.
THEOREM CommandsWriteClosed == CommandsSpec => []WrittenIsClosed
<1>1. CInv => WrittenIsClosed
  BY DEF CInv, ClosedKept, Harmless, WrittenIsClosed
<1> QED
  BY <1>1, CInvHolds, PTL

\* For any jobs and faults, the input of a command survives it.
THEOREM CommandsKeepInput == CommandsSpec => []InputSurvives
<1>1. CInv => InputSurvives
  BY DEF CInv, Where, FilesKept, Kept, InputSurvives
<1> QED
  BY <1>1, CInvHolds, PTL

\* For any jobs and faults, what a command replaces is its backup.
THEOREM CommandsKeepPrevious == CommandsSpec => []PreviousIsBackup
<1>1. CInv => PreviousIsBackup
  BY DEF CInv, FilesKept, Kept, PreviousIsBackup
<1> QED
  BY <1>1, CInvHolds, PTL

\* For any jobs and faults, a correction that fails leaves no output.
THEOREM CommandsFailClean == CommandsSpec => []FailedLeavesNoOutput
<1>1. CInv => FailedLeavesNoOutput
  BY DEF CInv, FilesKept, FailedLeavesNoOutput
<1> QED
  BY <1>1, CInvHolds, PTL

\* For any jobs and faults, hnvcc leaves the directory as it found it.
THEOREM DirIsAsFound == CommandsSpec => []KeepDirAsFound
<1>1. CInv => KeepDirAsFound
  BY DEF CInv, DirKept, Builds, KeepDirAsFound
<1> QED
  BY <1>1, CInvHolds, PTL

\* For any jobs and faults, saveAsCubin removes its temporary files.
THEOREM SaveIsClean == CommandsSpec => []SaveCleansUp
<1>1. CInv => SaveCleansUp
  BY DEF CInv, TempsKept, SaveCleansUp
<1> QED
  BY <1>1, CInvHolds, PTL
=============================================================================
