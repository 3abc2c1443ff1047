------------------------------ MODULE Commands ------------------------------
(***************************************************************************)
(* The commands that share their files with correct-cc, one running at a   *)
(* time: cuasm in both directions, dsass, hcubin, hnvcc's dump and hack,   *)
(* and a program that edits a cubin and calls ParsedCubin's saveAsCubin.   *)
(*                                                                         *)
(* A file's content is that of CorrectTool whatever its format: a text or  *)
(* a listing is the cubin it shows (that assembling a disassembly gives    *)
(* the cubin back is ParsedCubin's RoundTrip).  A build runs one ptxas.    *)
(***************************************************************************)
EXTENDS CorrectTool

CONSTANTS Format,       \* of a file, by its extension
          Jobs,         \* the sets of <<tool, input, output>> users work with
          Built         \* what ptxas makes of the program

Formats == {"cubin", "text", "listing", "other"}
Tools == {"correct-cc", "cuasm", "dsass", "hcubin", "dump", "hack", "saveAsCubin"}

\* As for correct-cc, nobody reads or writes the backup of an output; and ptxas
\* closes every dependency.
ASSUME CommandAssumption ==
  /\ Format \in [Files -> Formats]
  /\ Jobs \subseteq SUBSET (Tools \X Files \X DOMAIN Backup)
  /\ \A job \in Jobs : \A t \in job : Backup[t[3]] \notin {t[2], t[3]}
  /\ Built \in Cubins /\ AllClosed(Built)

VARIABLES tasks,      \* the job
          temps,      \* temporary files this run has made and not removed
          keepDir,    \* is there an hnvcc_keep_dir
          ownsDir,    \* doDeleteKeepDir
          dirBefore   \* history: was there one when the run began

shared == <<tasks, keepDir, ownsDir, dirBefore>>
commandVars == <<vars, temps, shared>>

To(s) == at' = s /\ UNCHANGED exit
Ends(e) == at' = "idle" /\ exit' = e
Faulty == faults < MaxFaults /\ faults' = faults + 1

\* What the steps of a run leave alone.
Frame == UNCHANGED <<in, out, start, tool, tasks, dirBefore>>
Work == <<kernels, bytes, next, anyUnrepairable>>
Keep(work) == IF at' = "idle" THEN Fresh ELSE UNCHANGED work
SameDir == UNCHANGED <<keepDir, ownsDir>>

CommandsInit ==
  /\ Init /\ <<in, out>> = CHOOSE r \in Requests : TRUE
  /\ tasks \in Jobs /\ temps = {} 
  /\ keepDir = FALSE /\ ownsDir = FALSE /\ dirBefore = FALSE

-----------------------------------------------------------------------------
\* Where a run begins: the commands on files, hnvcc, and the library's call.
FirstStep(t) == CASE t \in {"cuasm", "dsass", "hcubin"} -> "check"
                  [] t \in {"dump", "hack"} -> "dryrun"
                  [] OTHER -> "read"

StartCommand ==
  /\ at = "idle"
  /\ \E t \in tasks : /\ t[1] # "correct-cc"
                      /\ tool' = t[1] /\ in' = t[2] /\ out' = t[3] /\ at' = FirstStep(t[1])
  /\ exit' = "none" /\ start' = fs /\ temps' = {} /\ dirBefore' = keepDir
  /\ UNCHANGED <<fs, faults, tasks, Work>> /\ SameDir

StartCorrect ==
  /\ Start /\ <<tool', in', out'>> \in tasks
  /\ temps' = {} /\ dirBefore' = keepDir
  /\ UNCHANGED tasks /\ SameDir

\* cuasm looks at the extension before it makes the backup.
Unknown == tool = "cuasm" /\ Format[in] \notin {"cubin", "text"}
BadExtension == at = "backup" /\ Unknown /\ Fails /\ UNCHANGED <<fs, temps, shared>>

\* The steps of correct-cc that the other commands take too, and its own.
Checked == (CheckIn \/ (~Unknown /\ BackupOut)) /\ UNCHANGED <<temps, shared>>
Loaded == tool = "correct-cc" /\ (Load \/ Decode) /\ UNCHANGED <<temps, shared>>

Assembles == tool = "cuasm" /\ Format[in] = "text"
Streams == tool = "dsass" \/ (tool = "cuasm" /\ Format[in] = "cubin")

\* CuAsmParser::parse: a user's text may always be refused, and one that
\* lacks its end gives a cubin that does.
Assemble ==
  /\ at = "load" /\ Assembles
  /\ \/ fs[in] # Absent /\ bytes' = fs[in] /\ To("open")
     \/ Ends("failed")
  /\ UNCHANGED <<fs, faults, temps>> /\ Frame /\ Keep(<<kernels, next, anyUnrepairable>>) /\ SameDir

\* CubinFile's constructor and dumpControlCodeSass: when the disassembler
\* fails, the files fixCubinDesc was to show and to make stay behind.
Disassemble ==
  /\ at = "load" /\ Streams
  /\ \/ /\ Loadable(fs[in]) /\ Format[in] # "listing"
        /\ bytes' = fs[in] /\ To("open") /\ UNCHANGED <<faults, temps>>
     \/ /\ ~Loadable(fs[in]) \/ Format[in] = "listing"
        /\ Ends("failed") /\ UNCHANGED <<faults, temps>>
     \/ /\ Loadable(fs[in]) /\ Format[in] = "cubin" /\ Supported(fs[in])
        /\ Faulty /\ \E f \in {"shown", "fixed"} : temps' = {f}
        /\ Ends("failed")
  /\ UNCHANGED fs /\ Frame /\ Keep(<<kernels, next, anyUnrepairable>>) /\ SameDir

\* fixCubinDesc for hcubin: nothing is written for a cubin before Ampere
\* (Turing's is supported and still before it).
HackDesc ==
  /\ at = "load" /\ tool = "hcubin"
  /\ \/ /\ Loadable(fs[in]) /\ Supported(fs[in])
        /\ bytes' = fs[in] /\ To("open") /\ UNCHANGED <<faults, temps>>
     \/ Loadable(fs[in]) /\ Ends("ok") /\ UNCHANGED <<faults, temps>>
     \/ ~Loadable(fs[in]) /\ Ends("failed") /\ UNCHANGED <<faults, temps>>
     \/ /\ Loadable(fs[in]) /\ Supported(fs[in])
        /\ Faulty /\ temps' = {"shown"} /\ Ends("failed")
  /\ UNCHANGED fs /\ Frame /\ Keep(<<kernels, next, anyUnrepairable>>) /\ SameDir

\* The streams of CubinFile's saveAsCuAsm and CuInsFeeder's trans are looked
\* at once opened; those of the assembler and of hcubin never are, but the
\* assembler may read the file again.
OpenOut ==
  /\ at = "open"
  /\ \/ fs' = [fs EXCEPT ![out] = Cut] /\ To("put") /\ UNCHANGED faults
     \/ /\ Faulty /\ UNCHANGED fs
        /\ \/ ~Streams /\ Ends("ok")
           \/ tool # "hcubin" /\ Ends("failed")
  /\ UNCHANGED temps /\ Frame /\ Keep(Work) /\ SameDir

\* Text is written as it is made, so its writers may throw in the middle.
PutOut ==
  /\ at = "put"
  /\ \/ /\ \/ fs' = [fs EXCEPT ![out] = bytes] /\ UNCHANGED faults
           \/ Faulty /\ UNCHANGED fs
        /\ IF Assembles THEN To("demote") ELSE Ends("ok")
     \/ Streams /\ Ends("failed") /\ UNCHANGED <<fs, faults>>
  /\ UNCHANGED temps /\ Frame /\ Keep(Work) /\ SameDir

\* demoteDefaultDescBits on the file just written: nothing to do, a file
\* that cannot be read, a disassembler that fails, or writing it again.
Demote ==
  /\ at = "demote"
  /\ \/ Ends("ok") /\ UNCHANGED <<fs, faults>>
     \/ fs[out] = Cut /\ Ends("failed") /\ UNCHANGED <<fs, faults>>
     \/ fs[out] # Cut /\ Supported(fs[out]) /\ Faulty /\ Ends("failed") /\ UNCHANGED fs
     \/ /\ fs[out] # Cut /\ Supported(fs[out])
        /\ fs' = [fs EXCEPT ![out] = Cut] /\ To("demoted") /\ UNCHANGED faults
  /\ UNCHANGED temps /\ Frame /\ Keep(Work) /\ SameDir

PutDemoted ==
  /\ at = "demoted" /\ Ends("ok")
  /\ \/ fs' = [fs EXCEPT ![out] = bytes] /\ UNCHANGED faults
     \/ Faulty /\ UNCHANGED fs
  /\ UNCHANGED temps /\ Frame /\ Keep(Work) /\ SameDir

-----------------------------------------------------------------------------
\* A program's changes to a parsed cubin: none, or one that opens a kernel.
Edits(content) == {content} \cup {[content EXCEPT ![i].closed = FALSE] : i \in 1..Len(content)}

\* parseCubin; its temporary text stays behind when saveAsCuAsm throws.
SaveRead ==
  /\ at = "read"
  /\ \/ Loadable(fs[in]) /\ kernels' \in Edits(fs[in]) /\ To("text") /\ UNCHANGED <<faults, temps>>
     \/ ~Loadable(fs[in]) /\ Ends("failed") /\ UNCHANGED <<faults, temps>>
     \/ /\ Loadable(fs[in]) /\ Faulty /\ \E f \in {"shown", "fixed", "read"} : temps' = {f}
        /\ Ends("failed")
  /\ UNCHANGED fs /\ Frame /\ Keep(<<bytes, next, anyUnrepairable>>) /\ SameDir

SaveText ==
  /\ at = "text"
  /\ \/ To("assemble") /\ temps' = {"asm"} /\ UNCHANGED faults
     \/ Faulty /\ Ends("failed") /\ UNCHANGED temps
  /\ UNCHANGED fs /\ Frame /\ Keep(Work) /\ SameDir

SaveAssemble ==
  /\ at = "assemble"
  /\ \/ bytes' = kernels /\ temps' = {"cubin"} /\ To("verify") /\ UNCHANGED faults
     \/ Faulty /\ bytes' = Cut /\ temps' = {"cubin"} /\ To("verify")
     \/ Ends("failed") /\ temps' = {} /\ UNCHANGED faults
  /\ UNCHANGED fs /\ Frame /\ Keep(<<kernels, next, anyUnrepairable>>) /\ SameDir

\* Mutant: nothing catches what the checks throw.
CleanUpAtEnd == temps' = IF at' = "idle" /\ exit' = "ok" THEN temps \ {"cubin"} ELSE temps

\* The temporary cubin goes on every way out of saveAsCubin.
CleanUp == temps' = IF at' = "idle" THEN temps \ {"cubin"} ELSE temps

\* The temporary cubin is copied if it does not load, is too old to judge or
\* has every dependency closed, and is corrected otherwise.
Judged(content) == content # Cut /\ Supported(content)
Decodable(content) ==
  content # <<>> /\ \A i \in 1..Len(content) : content[i].kind \notin {"uncurated", "unresolvable"}

SaveVerify ==
  /\ at = "verify"
  /\ \/ ~Judged(bytes) /\ To("copy") /\ UNCHANGED <<kernels, next, anyUnrepairable>>
     \/ Judged(bytes) /\ ~Decodable(bytes) /\ Ends("failed")
     \/ Judged(bytes) /\ Decodable(bytes) /\ AllClosed(bytes) /\ To("copy") /\ UNCHANGED <<kernels, next, anyUnrepairable>>
     \/ /\ Judged(bytes) /\ Decodable(bytes) /\ ~AllClosed(bytes)
        /\ kernels' = bytes /\ next' = 1 /\ anyUnrepairable' = FALSE /\ To("correct")
  /\ CleanUp /\ UNCHANGED <<fs, faults>> /\ Frame /\ Keep(bytes) /\ SameDir

\* correctCubinControlCodes, for correct-cc and for saveAsCubin.
Corrects == (CorrectKernel \/ Refuse \/ Open \/ Write) /\ CleanUp /\ UNCHANGED shared

\* copy_file to the output, for saveAsCubin and for hnvcc's dump.
CopyOpen ==
  /\ at = "copy"
  /\ \/ fs' = [fs EXCEPT ![out] = Cut] /\ To("copying") /\ UNCHANGED faults
     \/ Faulty /\ Ends("failed") /\ UNCHANGED fs
  /\ CleanUp /\ Frame /\ Keep(Work) /\ SameDir

CopyRest ==
  /\ at = "copying"
  /\ \/ /\ fs' = [fs EXCEPT ![out] = bytes] /\ UNCHANGED faults
        /\ IF tool = "dump" THEN To("remove") ELSE Ends("ok")
     \/ Faulty /\ Ends("failed") /\ UNCHANGED fs
  /\ CleanUp /\ Frame /\ Keep(Work) /\ SameDir

-----------------------------------------------------------------------------
DryRun ==
  /\ at = "dryrun"
  /\ To("mkdir") \/ Ends("failed")
  /\ UNCHANGED <<fs, faults, temps>> /\ Frame /\ Keep(Work) /\ SameDir

\* Mutant: the directory is always removed.
OwnsAny(there) == TRUE

\* Only a directory that was not there is removed.
Owns(there) == ~there

MakeKeepDir ==
  /\ at = "mkdir"
  /\ ownsDir' = Owns(keepDir) /\ keepDir' = TRUE
  /\ To(IF tool = "dump" THEN "keep" ELSE "build")
  /\ UNCHANGED <<fs, faults, temps>> /\ Frame /\ Keep(Work)

\* An earlier dump is copied to its backup name before ptxas runs.
KeepDump ==
  /\ at = "keep"
  /\ IF fs[out] = Absent
     THEN To("build") /\ UNCHANGED <<fs, faults>>
     ELSE \/ fs' = [fs EXCEPT ![Backup[out]] = Cut] /\ To("keeping") /\ UNCHANGED faults
          \/ Faulty /\ Ends("failed") /\ UNCHANGED fs
  /\ UNCHANGED temps /\ Frame /\ Keep(Work) /\ SameDir

KeepRest ==
  /\ at = "keeping"
  /\ \/ fs' = [fs EXCEPT ![Backup[out]] = fs[out]] /\ To("build") /\ UNCHANGED faults
     \/ Faulty /\ Ends("failed") /\ UNCHANGED fs
  /\ UNCHANGED temps /\ Frame /\ Keep(Work) /\ SameDir

\* The commands nvcc would run: ptxas, or the hacked cubin in its place.  Any
\* of them may fail, and then nothing is tidied.
Build ==
  /\ at = "build"
  /\ \/ /\ bytes' = IF tool = "hack" /\ fs[in] # Absent THEN fs[in] ELSE Built
        /\ To(IF tool = "dump" THEN "copy" ELSE "remove")
     \/ Ends("failed")
  /\ UNCHANGED <<fs, faults, temps>> /\ Frame /\ Keep(<<kernels, next, anyUnrepairable>>) /\ SameDir

RemoveKeepDir ==
  /\ at = "remove" /\ Ends("ok")
  /\ keepDir' = (keepDir /\ ~ownsDir)
  /\ UNCHANGED <<fs, faults, temps, ownsDir>> /\ Frame /\ Keep(Work)

-----------------------------------------------------------------------------
\* The user edits a text between the commands.
Edit ==
  /\ at = "idle"
  /\ \E f \in Files : /\ Format[f] = "text" /\ Loadable(fs[f])
                      /\ \E c \in Edits(fs[f]) \ {fs[f]} : fs' = [fs EXCEPT ![f] = c]
  /\ start' = fs' /\ exit' = "none"
  /\ UNCHANGED <<at, in, out, Work, faults, tool, temps, shared>>

CrashCommand == Crash /\ UNCHANGED <<temps, shared>>

Convert == Assemble \/ Disassemble \/ HackDesc \/ OpenOut \/ PutOut \/ Demote \/ PutDemoted
Save == SaveRead \/ SaveText \/ SaveAssemble \/ SaveVerify \/ CopyOpen \/ CopyRest
Hnvcc == DryRun \/ MakeKeepDir \/ KeepDump \/ KeepRest \/ Build \/ RemoveKeepDir
RunCommand == BadExtension \/ Checked \/ Loaded \/ Corrects \/ Convert \/ Save \/ Hnvcc

CommandsNext == StartCommand \/ StartCorrect \/ RunCommand \/ Edit \/ CrashCommand
CommandsSpec == CommandsInit /\ [][CommandsNext]_commandVars

\* A command that was started goes on, unless it crashes.
FairCommands == CommandsSpec /\ WF_commandVars(RunCommand)

-----------------------------------------------------------------------------
\* An hnvcc that ends well leaves the directory of intermediate files as it
\* found it, and none ever removes one it did not make: not the user's, and
\* not what an hnvcc that failed or crashed left (which so stays for ever).
KeepDirAsFound ==
  tool \in {"dump", "hack"} => /\ exit = "ok" => keepDir = dirBefore
                               /\ dirBefore => keepDir

\* saveAsCubin's temporary text and cubin are gone when it returns or throws,
\* wherever it throws: in the assembler, in the checks or in the copy.
SaveCleansUp ==
  tool = "saveAsCubin" /\ exit \in {"ok", "failed"} => temps \cap {"asm", "cubin"} = {}
=============================================================================
