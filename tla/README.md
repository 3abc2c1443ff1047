# A verification development for cuAssembler

TLA+ models of the parts of cuAssembler that decide something: what they keep, in which order they
change it, and what must hold afterwards. TLC checks the models on small instances; TLAPS proves
the statements that matter most for every value of the constants. All source paths below are
relative to the repository.

Contents: [1 the system](#1-the-system) · [2 the modules](#2-the-modules) ·
[3 the runs](#3-the-runs) · [4 the proofs](#4-the-proofs) · [5 what the checks found](#5-what-the-checks-found) ·
[6 what is not modelled](#6-what-is-not-modelled) · [7 plan](#7-plan)

## 1 The system

cuAssembler is an assembler and disassembler for NVIDIA SASS, rewritten in C++ from a Python
original, with a family of cubin tools on top. Every tool is a single-threaded batch program; the
concurrency in the system is the GPU's: control codes are instructions to the hardware about what
may overlap, and the two newest tools, `verify-cc` and `correct-cc`, reason about exactly that.

| Component | Source | State | Operations | What makes it correct |
|---|---|---|---|---|
| Hazard graph | `bin/ccCommon.hpp` 407-710 | reaching writers/readers per instruction, edges | one index-ascending dataflow pass | edges = dependences of the forward paths |
| Scoreboard walk | `bin/ccCommon.hpp` 794-878 | per-slot queues, retired producers, violations | one step per instruction | violations = dependences no wait or stall closes |
| Correction | `bin/ccCommon.hpp` 1079-1645 | intervals, share groups, colours, recomputed codes | collect, group, colour, recompute, self-check, commit | every dependency closed, all-or-nothing, stable under re-runs, rejection only when slots run out |
| Cubin-level tools | `include/CuAsmTools/{VerifyCC,CorrectCC}.hpp`, `bin/{verify,correct}-cc.cpp`, `bin/cliCommon.hpp` | the input, output and backup files | back up, load, decode, correct each kernel, write | a cubin is written whole and corrected, or not at all |
| Control-code format | `CuAsm/CuControlCode.cpp`, `CuAsm/CuSMVersion.cpp` | - | split/merge, encode/decode, scatter over the instruction words | round trips; fields never spill into one another |
| Latency and role tables | `CuAsm/LatencyClass.cpp`, `CuAsm/OperandRole.cpp`, `InsAsmRepos/*` | a map per SM version, cached statically | load, look up | a missing entry is an error, never a default |
| SASS feeder | `CuAsm/CuInsFeeder.cpp` | line state machine, buffered control code | next, restart, slice | instructions and control codes stay paired |
| Instruction parser | `CuAsm/CuInsParser.cpp`, `CuSMVersion::convertFloatImme` | the parse in progress | parse | texts of one key give vectors of one shape, of which the code is a linear function |
| Instruction assembler | `CuAsm/CuInsAssembler.cpp`, `CuAsm/utils/RationalMatrix.hpp` | known records, modifier set, null space, solution | push, can-assemble, build | answers what it was taught, and nothing it could not have been |
| Assembler repository | `CuAsm/CuInsAssemblerRepos.cpp` | dictionary of assemblers, static cache | update, merge, rebuild, verify, save | merging loses no record |
| Assembly file parser | `CuAsm/CuAsmParser.cpp` | sections, labels, fixups, symbols, relocations, segments | a scan and nine passes (`parse`), `saveAsCubin` | jumps, symbols, headers and segments tell where things ended up; one relocation per reference |
| Cubin reader | `CuAsm/CubinFile.cpp` | ELF sections and symbols | load, section text, relocation labels | text that assembles back to the cubin |
| Parsed cubin | `include/CuAsmTools/ParsedCubin.hpp` | the lines of each kernel, two marks in the text around them | insert, remove, move, save | labels and relocations follow their instructions |
| Descriptor bits | `CuAsm/utils/CubinUtils.cpp` | - | set for the disassembler, clear again after assembling | a bit is lost only of the default descriptor |
| Kernel assembler, NVInfo | `CuAsm/CuKernelAssembler.cpp`, `CuAsm/CuNVInfo.cpp` | per-kernel text, offsets of EXIT/S2R/BAR, attribute list | build, gather, set | attribute offsets point at the instructions they name |
| Logger | `CuAsm/CuAsmLogger.hpp` | levels; the files are spdlog's | init, log | - |
| Tools | `bin/{cuasm,dsass,hcubin,hnvcc,cc-diff-run}.cpp`, `include/CuAsmTools/*.hpp` | files, backups, temporary files, the keep directory | read, transform, write | what was there survives, what is temporary goes |
| Utilities | `CuAsm/common.cpp`, `CuAsm/config.cpp`, `CuAsm/utils/*` | - | - | - |

How they interact: `correct-cc` loads the cubin with ELFIO, `CuSMVersion` splits each `.text.<kernel>`
section into instruction and control codes, `cuobjdump`'s listing of the same file goes through the
feeder and the instruction parser to give operand values, the two tables give roles and latencies,
and `ccCommon.hpp` does the rest in memory. The assembler proper (`cuasm`) goes the other way: the
assembly parser sends each instruction line to the instruction parser and the repository, collects
codes in a kernel assembler, lays out sections and writes the ELF file. A program that edits a cubin goes
both ways: disassemble, change lines, assemble, verify or correct.

**Hard behaviours.** (1) Control codes are about *overlapping* execution along *any* path, while the
analysis is one walk in program order. (2) The correction decides with one mechanism (intervals and
colours) and is judged by another (the walk). (3) Slots are a bounded resource allocated greedily.
(4) A correction's input is a previous correction's output. (5) Files are renamed before it is known
whether a new one will be written. (6) Bit fields of fixed widths are packed with `+` and shifts.
(7) An object that reads a shared stream is paused, moved and restarted by its user. (8) An instruction
assembler accumulates whatever it is fed, in whatever order, right or wrong. (9) The passes of the
assembler change what earlier ones measured: attributes, relocations and padding grow sections, and
padding moves a label. (10) The disassembler writes down less than the ELF file says (segments by the
names of their sections, descriptors only where a bit is set), and the assembler has to find the rest
again. (11) The tools work on each other's files, leave temporary ones and a directory, and any of them
may fail or be killed in between.

## 2 The modules

| Module | Models | Uses |
|---|---|---|
| `Kernel` | a decoded kernel: instructions, roles, guards, control flow, codes; its constants and their assumption | |
| `HazardGraph` | `buildHazardGraph` | `Kernel` |
| `Scoreboard` | `simulateAndVerify`, as actions parameterised by the codes walked over | `HazardGraph` |
| `VerifyCC` | `verifyControlCodes` | `Scoreboard` |
| `CorrectCC` | `correctControlCodes`, run any number of times on its own output | `Scoreboard` |
| `Warp` | one warp honouring the codes along a path (external: the hardware) | `Scoreboard` |
| `VerifiedWarp`, `CorrectedWarp` | a tool, and then the warp on a kernel the tool let through | `VerifyCC`/`CorrectCC` + `Warp` |
| `CorrectTool` | the `correct-cc` command on the file system: checks, backup, passes, write; failures and crashes | (a kernel is what `CorrectCC` makes of it) |
| `Commands` | `cuasm`, `dsass`, `hcubin`, `hnvcc` and `saveAsCubin` beside `correct-cc`, on shared files | `CorrectTool` |
| `InsOffset` | `CuSMVersion`'s offsets: of an instruction, of a whole kernel, and back | |
| `SectionCode` | `CuSMVersion`'s layouts of a `.text` section: merge, split, correct in place | `InsOffset` |
| `ControlCode` | `CuControlCode`: 17 bits, five fields, and what their text says | |
| `CuInsFeeder` | the feeder: a line state machine per family, `next`, `trans`, `extract`, `restart` | |
| `RationalMatrix` | `nullspace`, scaling and products over integers | |
| `CuInsAssembler` | one instruction assembler: can-assemble, build, push | `RationalMatrix` |
| `CuInsAssemblerRepos` | update, merge, rebuild, guard completion, clearing, at one key | `CuInsAssembler` |
| `FloatImme` | `convertFloatImme`: the bits of a float immediate in each format and version | |
| `CuInsParser` | `parse`: a text's key, values and modifiers | `FloatImme` |
| `ParsedRepos` | a repository that reads a listing through the parser, over all keys | `CuInsAssembler`, `CuInsParser` |
| `CuNVInfo` | the attributes of an `.nv.info` section, and what the kernel assembler tells of a kernel | |
| `CachePolicy` | the descriptor bits of a kernel: set, shown, demoted | |
| `CuAsmText` | the lines of a `.cuasm` file, as one side writes and the other reads them | `CachePolicy` |
| `CuAsmParser` | the assembler of `.cuasm` files: scan, fixups, kernels, relocations, layout, symbols, saving | `CuNVInfo`, `InsOffset`, `CachePolicy`, `ControlCode` |
| `CubinFile` | the disassembler: a saved cubin as a `.cuasm` file, which is parsed again | `CuAsmParser`, `CuAsmText` |
| `ParsedCubin` | an edit of a kernel's lines between disassembling and assembling | `CubinFile` |
| `CuAsmParserInv` | the inductive invariants of the assembler and their parts, which `CuAsmParserProofs` proves | `CuAsmParser` |
| `*Proofs` | theorems and lemmas about the module they are named after; `ScoreboardProofs` is about `HazardGraph` too, `CorrectToolProofs` about `Commands`, `SectionCodeProofs` about `ControlCode` |
| `MC*` | the instances TLC checks | |

**Kernel.** Instruction `i` is element `i - 1` of `std::vector<DecodedInstruction>`. An operand list
is a set of (register, mode) roles: what `registerAccessesOf` merges, the order of the operands does
not survive. The four register files are one set `Regs` (registers of different files are different
elements); `RZ` stands for every sentinel register, which is never in `Regs`, so nothing depends on
it. `flow` is the opcode class `computeControlFlowSuccessors` tells apart; `imm` is a branch's
immediate in instructions. A control code is its five fields; `wait` is the set of slots in the mask.
The barrier fields range over the slots, `Unset` (7 in the code) and one more value, the encoding 6
that names no slot. The latency table is the constant `Latency` from instruction keys.

**HazardGraph.** `at` is the loop index of the pass. `ResolveFlow` is `computeControlFlowSuccessors`
(it throws, or the successors are those of `Successors`), `Visit` one iteration: the union over the
forward predecessors, the new reaching sets, the edges into the instruction. (The code adds the edges
in a second loop; they depend only on the first loop's result for the same instruction.)

**Scoreboard.** `SimStep(c)` is one iteration of the walk over codes `c`: retire, check, queue, in the
code's order. Below a line, `Open` says without any walk when an edge is open.

**CorrectCC.** `stage` is the place in `correctControlCodes`: `BuildGraph`, `Collect` (intervals),
`Colour` (one vertex of `sequential_vertex_coloring`), `CheckColours`, `Emit` (recomputed codes and
the reset of the walk), `SelfCheck` (one step of it), `Commit`. `RunAgain` is the next invocation of
the tool on the file it wrote. `verdict = "InternalError"` separates the self-check's rejection from
the colouring's; the code reports both as `Unrepairable`. The graph is not rebuilt on a second run: it
depends on the instructions only, which correction never touches. An interval's direction is a
function of its instruction key, so "same key and direction" is "same key".

**Warp.** The hardware as the comments describe it, and the only external part: an instruction issues
when the slots in its wait mask are clear; an operation whose code names a slot is in flight until an
executed instruction waits on that slot; anything else is settled by the next issue unless that issue
is the textually next instruction and the stall count is 0 (the same lower bound the code uses: there
is no table of cycle latencies). `Hazard` is an instruction about to touch a register that is not
settled.

**CorrectTool.** `at` is the place in `main` and `correctCubinControlCodes`: the existence check, the
rename of an existing output to its backup, loading, decoding every kernel, correcting and patching
them one at a time into a copy of the bytes, the refusal, opening and writing. A cubin is the sequence
of its kernels, a kernel its kind (correctable, beyond the slots, not in the tables, with a branch
without a target) and whether its codes close every dependency. `Crash` may end a run anywhere;
opening and writing may fail, and the code looks at neither. `start` is history: the files as the run
found them.

**Commands.** The other commands on the same files and with the same variables; the steps they share with
`correct-cc` (`CheckIn`, `BackupOut`, the kernels' correction, the write) are its actions. A file's
content is a cubin or a cut one whatever its format: a text is the cubin it assembles to (`RoundTrip`
of `ParsedCubin` says that this loses nothing), and a text or listing that lacks its end is a cut cubin
too. `tasks` is what the user works on: a set of tools with their files. `Convert` are the steps of
`cuasm`, `dsass` and `hcubin`, `Save` those of `saveAsCubin`, which judges a temporary cubin and then
copies or corrects it, and `Hnvcc` those of a dump and a hack, for a build that runs `ptxas` once.
`temps` are the temporary files of one run: later ones have other names and never find them. A step may
fail wherever the code throws or lets a stream fail: `Ends("ok")` beside a fault is a stream nobody
looks at. `Edit` is the user's editor, on a text.

**SectionCode.** The words of a section as numbers whose fields have arbitrary sizes. In the layout up
to 6x a control word carries three control codes and, above each, the reuse bits of its instruction;
from 7x on the control code is a field in the middle of the instruction. `Assemble` merges a kernel's
instructions and codes into words and pads the last group, `Load` splits the words, `Correct` replaces
control codes, `Store` merges again. `InsOffset`'s `Offset` and `Index` convert between indices and
byte offsets; the parser uses the same two.

**ControlCode.** `Split` and `Merge` between a code and its fields, `Decode` and `Encode` between a code
and what a text of the pattern says; the fields are added into the code whatever their size, as in the
source. It has no state: the assembler and the disassembler use it on every instruction.

**CuInsFeeder.** One step per line. A line is its kind and what the feeder does with its fields; a
payload is the number of the line it came from, which is what lets a property say that an instruction
got its own code. A listing names a section and its architecture before it lists instructions, as
both disassemblers print it (`ListingAssumption`). `Transitions` is the table of `CuInsFeeder.cpp` per family; `Records` is
`iterPopIns`. `CallNext`, `CallTrans`, `Extract` and `Restart` start a call, the line steps carry it
on, and the user may call them in any order, also when an earlier iteration was left in the middle. An
object that threw is not used again.

**CuInsAssembler, CuInsAssemblerRepos.** One instruction key, because every operation does the same at
each. An assembler is a record `asm`: the modifiers seen, learned samples, conflicting samples, the
scaled solution and the null space. `Push` is `push`, with its four outcomes: conflict, nothing new, a
new modifier or a new direction. The instruction parser puts the opcode first among the modifiers, so
a fresh assembler always learns its first sample. Another repository is what it was fed.
`RationalMatrix` does what the C++ does with its fractions, in integers.

**CuInsParser, FloatImme, ParsedRepos.** A text is a record of tokens: an operand is a kind and the
fields its pattern captures, so splitting characters is left out and everything `parse` computes from
the tokens is in: the key, the values with their tables and relative jumps, the modifiers with the
places of those that depend on them, signs of immediates, and the throws (`Parses`). `FloatImme` has the
bits of a float; a number in a text is its binary32 and upper binary64 words, since reading decimal
digits is the library's. In `ParsedRepos` two repositories, one per family, read a listing text by text
(`UpdateText`); each key's assembler is that of `CuInsAssembler`.

**CuAsmParser, CuNVInfo.** `stage` is the pass of `parse` (the sequence `Passes`), `next` its line,
fixup or section. `preScan` is one action per directive; `GoOn` and `Stay` move on. The lines are
records with the fields the directive's pattern yields; a section's bytes are what directives put at
its offsets, and its size is counted as the code counts it. A section is named by its dotted parts:
`.rel.text.A` is `<<".rel", ".text", "A">>`, which is all that `.text` prefixes, info sections and
relocation sections need of names. `Label` decides between the write cursor and the next instruction
with the lookahead of `labelPrecedesIndirectBranchSource`. `EvalFixup` is the body of the loop of
`evalFixups`, `Assemble` that of `parseKernels` (in the order of the sections, where the code walks a
map by name; nothing one kernel does is read by another). `LayoutSection` fills up or pads the section
before and places one, `LocateSegments` is the rest of `layoutSections`. Each pass that can throw has
an action that does so (`ScanFails` ... `SymbolsFail`); `Parse` is the next file for the same object,
whose `reset` leaves the symbol table. `symtab` holds the names in `.symtab`; `0` for value and size
stands for the entry's own bytes, which the code leaves in place. An attribute is a name and its words;
`Decode` reads a section in the making, as `decodeAttrList` does its bytes. What a loop selects of a list
(kept attributes, a section's instructions, its relocations) is a set of places, and `InOrder` and
`ElementsAt` make the list of it: the code keeps the order, and the provers know sets, functions and
cardinalities, but nothing of `SelectSeq` and folds.

**CubinFile, CachePolicy, ParsedCubin.** `Cubin` is what `saveAsCubin` wrote, as ELF shows it: sections
with their types, sizes and contents, relocation entries, symbols and the segments' offsets, but none of
the file's text. `Disassembled` writes the `.cuasm` file of it: the sections of a segment are found
again from recomputed offsets (`StartSection`, `EndSection`), jump targets get labels, relocated
operands and words become expressions, and the offsets of an info section become labels in the code.
`Disassemble` restarts the parser on that file and keeps the cubin in `origin`. Before that,
`CompiledCubin` gives the kernels the descriptor bits a compiler would: clear for the kernel's default
register. `Fixed` and `Demoted` are the two passes over those bits. `EditKernel` is `parseCubin`, one
change of one kernel and `saveAsCubin`: the lines between two marks of the text are replaced, each
instruction taking the labels in front of it along. nvdisasm's part (which instructions get labels,
where a descriptor is shown) is modelled from how `CubinFile.cpp` reads its output.

## 3 The runs

Passing:

| Run | Question | Instance |
|---|---|---|
| `verify_cc` | are the edges the dependences of the paths, is the verdict exact, and is a verified kernel safe to execute? | four-instruction kernels: loads, stores, writes and reads with codes on two slots and the unphysical one, and each kind of control flow; kernels on which the code throws; then the warp along every path |
| `correct_cc` | does the correction repair, reject, queue and re-run as documented? | all kernels of 5 instructions over a menu of 6, and one that throws; 2 slots, groups of 2, stall at most 2, 2 runs |
| `correct_tool` | what do the files hold, whatever fails and whichever command runs next? | a cubin from ptxas, a corrected or assembled one, a text and a listing, with their backups; five sets of commands; eight cubins; two faults |
| `section_grouped` | do instructions and codes survive assembling and correcting, and do offsets find them? | kernels of up to 4 instructions, fields of one or two bits |
| `feeder` | do instructions and codes stay paired, and is a pass complete? | listings of one or two kernels of both families, whole or cut off, with and without a filter |
| `cuasm_parser` | does the cubin say what the file said, and where it ended up, and is it the same after disassembling it or moving its instructions? | 484 correct files: both layouts, seven kinds of code behind a label at four places, 1 to 3 instructions at the end, four successors of the kernel; 52 files with one mistake each; then another file with the same object; the cubins of 58 files disassembled and assembled again, those of 4 edited in between |
| `ins_repos` | does an assembler accept the span of what it learned, rightly, and for good, and is what the parser gives it linear? | four samples, one wrong, two other repositories, every order; a listing of 69 texts of both families with every kind of operand, and 187 others of the same keys |

With a disagreement (section 5): `corrected_branch`, `corrected_loop` (one kernel each),
`feeder_reuse`, `nvinfo_offsets` and `sass_line` (the instances of `feeder` and `cuasm_parser`).

**What they show.** *verify_cc*: `EdgesArePathDependences` compares the one-pass dataflow with paths,
`VerdictIsExact` the walk with the walk-free `Open`, `VerifiedIsSafe` that the warp never meets a
hazard in a verified straight-line kernel (one without branches; conditional exits are
allowed) whose stores only read. *correct_cc*: `CommitRepairs` (nothing is open after a commit), `SelfCheckNeverFails`,
`RejectedOnlyBeyondCapacity` (a rejection means that more producers were in flight at one instruction
than there are slots), `QueuesStayConfirmed` (never more producers behind one slot than the confirmed
group size), `Idempotent` (the second run changes nothing), `AlwaysFinishes`. A corrected
straight-line kernel is then safe too, since `CommitRepairs` makes it one that verifies.
*correct_tool*: `WrittenIsClosed` (no command gives any file codes with an open dependency that neither
the run nor its user brought), `InputSurvives`, `PreviousIsBackup` (what a command replaces is under its
name or its backup's, wherever the run ended), `FailedLeavesNoOutput` (a correction that fails leaves
nothing under the output's name), `KeepDirAsFound` and `SaveCleansUp` (directory and temporary files),
and `RetrySucceeds`: a correction in which nothing fails any more succeeds on what earlier runs left
behind. *section_grouped*: instruction codes with reuse bits and control codes are those that were
assembled or computed, and offsets find their words.
*feeder*: `RecordsAreOwn` (a record has the codes of its instruction), `PassIsComplete` (a pass over a
whole listing returns every selected instruction once, in order), `FuncIsOwnerInPass` (the kernel name
is that of the record), `ReuseNeverThrowsIfWhole`. *ins_repos*: `AcceptsSpan` against determinants,
`AssemblesTruth`, `LearnedStays` (no operation forgets or changes an encoding), and that merging,
rebuilding and completing lose nothing (`ReplayLosesNothing`, `PredCompletes`). With the parser:
`LearnsHardware` (no conflict in a listing that tells the truth, and every other text of its keys
assembled to the hardware's code, so each special case of the parser is there for a reason),
`KeyFixesShape` and `HalfIsNearest`. *cuasm_parser*: `OnlyFaultyFail` (an exception if and only if
the file has a mistake, also with an object that parsed another file before), `LabelsLand` (a jump
goes to the instruction behind its label, over control words and lookahead), `SymbolsCoverKernels`
(`.size` after the padding moved the end label), `FileMatchesHeaders` (`saveAsCubin` writes each
section where layout said), `SegmentsCover` (in the file and in memory, with NOBITS sections between),
`RelocationsComplete` (one entry per reference and no other, the symbol added once), `InfoIsCurrent` (generated
attributes and register counts follow the code, the others stay, in order), `RoundTrip` (assembling the
disassembly gives the cubin, but for descriptor bits the text does not tell) and `JumpsFollowEdits`.

**Bounds.** For the analysis everything is local: an edge is a pair of instructions and the paths
between them; four instructions are enough for a diamond with a write on one arm. Two slots make three
producers in flight one too many, and five instructions hold three producers, a shared consumer and
one more instruction, so the run reaches rejection, slot reuse at the very instruction that frees the
slot, sharing inside a group of two, and a run of one class longer than the group. `MaxStall` is 2 in
`correct_cc` because the code only distinguishes stall 0 from the rest and adds at most 1. `Passes` is
2: a third run starts from exactly what the second one started from, by `Idempotent`. `MaxFaults` is
2: one run spoils a file and the next one is spoilt too, by a crash or by a failing stream or tool;
failures of the input need no fault. The cubins of `correct_tool` are one of each kind of kernel beside a
plain one, open and closed; the sets of commands are those whose files meet: in place and back, a dump
that is hacked in again, a text that is edited, a listing whose name is its own output, an edit saved
over its input. Four instructions are one full group and one padded; one or two bits per field let a
carry out of a field show. Stall counts in written texts are at most 15 (section 5). The feeder's
listings have one or two groups per kernel, since what a group leaves behind is its state and its
lists. Four samples span more than half of the four columns of the assembler's matrix and include a
value of which the code holds the half, so the solution needs a denominator. Four places of a label
and one to three instructions behind it are every position in a group of three and every length of the
last group; two kernels have each of their four successors (another kernel, a NOBITS section, data,
nothing). The files that are disassembled have both layouts, every kind of reference and of attribute;
`Reach` (the lines an edit moves, removes or puts in) has the first line, which owns no labels, one with
a label, and the one behind the last. Of the versions of the cubin, `Defaults` has the register most
descriptors use, another and an unused one. The parser's words have 10 bits, and an immediate's sign is
bit 6 (`Word` and `SignBit`; 64 and 19 in the code): the two are compared with a number only, and TLC's
integers have 32 bits. For the same reason the hardware of `ins_repos` has its fields close together;
they overlap no more than is needed for sums to stay apart, and floats are learned from small ones.

**Excluded inputs.** `RequestAssumption` and `CommandAssumption`: nobody asks a command to read or write
the backup of its own output, and `ptxas` closes every dependency of what it builds. `SourceAssumption`
of `CuAsmParser`: lines have numbers where numbers are, a jump's label has a name (the pattern of one,
line 1920, matches nothing else), no section is aligned to more than 128 (the code takes any number, but
asks for 128 only behind code, so such a section would not be on its alignment), and the null section
comes first and stays empty, as in every ELF file; mistakes are not excluded. `VerifiedIsSafe` is about
kernels without branches: with them it is false (section 5). It is also about kernels in which an
instruction of latency class `READ` writes no register: the tools ask no write barrier of one, and the
tables have only `RED`, `ST`, `STG`, `STL`, `STS` and `SUST` in that class, all of whose operands are
read. `cuasm_parser`'s files have one label at the end of a kernel, as the disassembler writes them,
expressions in instructions that add, and no attribute twice unless it is a register count. Those that
are disassembled have their NOBITS sections last in the file (section 5 says what else happens).

**Fairness.** `FairSpec` of `CorrectCC` is weak fairness of the tool's whole next-state relation: it
is a sequential program that keeps executing statements until it returns. `LaunchFairSpec` of
`corrected_loop` adds the warp, which the hardware keeps scheduling. `FairCommands` of `Commands`
is weak fairness of `RunCommand`: a command that was started goes on unless it crashes; nobody is obliged
to start one. Deadlock checking is off where the system does stop: the analyses and the warp end, a listing ends,
and a feeder that threw is not used again. `cuasm_parser` checks deadlock: no pass is ever stuck.

## 4 The proofs

For every `N`, set of registers, latency table, number of slots, stall bound, share group size and set
of kernels satisfying `KernelAssumption` and `CorrectAssumption`:

* `ScoreboardProofs!GraphIsExact` - the invariant says, for every instruction already visited, that
  its reaching sets are exactly the path sets: `writeOut[i][r]` are the writers from which a forward
  path leads to `i` without another write of `r`. A path is the *set* of instructions it passes, so
  that extending a path by one edge and cutting its last edge are statements about sets, and no
  induction over sequences is needed. The invariant is inductive because every predecessor of `at` is
  smaller.
* `VerifyCCProofs!VerdictCorrect` - `ScoreboardProofs` holds the invariant of the walk: a producer is
  retired exactly when an instruction up to `pos - 1` waited on its slot after it, pending exactly
  when none has, and the violations found so far are the open edges into instructions before `pos`.
  `VerdictCorrect` combines it with `GraphIsExact`.
* `VerifyCCProofs!VerifiedRunsSafely`, for kernels that `StraightLine` and `StoresOnlyRead` describe - what a
  warp has done is a prefix of the kernel (`last + 1 = pc`), and everything in flight was issued before
  `pc` and not waited on since. A hazard with one of these need not be an edge of the graph, but there is one into
  the first instruction that claims the register (`FirstClaim`), which no instruction before it closes. So
  it would be `Open`, and a verified kernel has no such edge. `TLC` has a
  counterexample as soon as either condition is dropped: a branch skips the wait, and a `READ` that writes
  has no barrier to wait on.
* `CorrectCCProofs` - one invariant with three parts: types; what the colouring has established (two
  live producers whose intervals overlap and that may not share have different colours, each colour
  was the smallest free one); and what each stage knows of the next one's input. From it:
  `SelfCheckCorrect` (the recomputed codes leave no open edge, by the two-case argument the code's
  comments give: eligible edges are waited for at the first consumer, and the others have stall 1),
  `CommitCorrect`, and `RejectionCorrect` (a colour `>= SlotCount` needs that many differently
  coloured neighbours, all live when the producer issues; cardinality of an injective image).
  Two more parts are added on top of it. `ProperInv`: producers that interfere have different slots.
  With it, `QueuesCorrect`: two producers pending on one slot overlap, so they share a group, and the
  places of a group's members in their run have one quotient by `MaxShare` and different remainders.
  `SettledInv`: after a commit the codes name exactly the slots of the producers that need one, each the
  smallest its earlier neighbours leave free. A second run therefore collects the same producers, gives
  out the same slots (`SameSlot`) and recomputes the codes it read: `SecondRunKeeps`.
  `CorrectedRunsSafely` says of a corrected kernel what `VerifiedRunsSafely` says of a verified one: after
  a commit nothing is open, whatever the codes were before, and the warp's argument is the same.

For every file, request, cubin and number of faults satisfying `FileAssumption` and
`RequestAssumption`:

* `CorrectToolProofs!OutputIsClosed`, `InputIsKept`, `PreviousIsKept`, `FailureLeavesNoOutput` - the
  invariant `IInv` relates the files to `start` at each place of the run (before the rename, after it,
  and once the output has been opened), and the copy to the kernels corrected so far: up to `next`
  they are closed unless `anyUnrepairable` is set.
* `CommandsWriteClosed`, `CommandsKeepInput`, `CommandsKeepPrevious`, `CommandsFailClean`, `DirIsAsFound`
  and `SaveIsClean` say the same and more of `CommandsSpec`, for every set of jobs satisfying
  `CommandAssumption`. `Where` says which command takes which steps, so that each part has to be shown
  only for the steps that can disturb it: `FilesKept` (the files differ from `start` in the output and
  its backup only, and the backup holds the old output once anything was done), `DirKept` (a run owns
  `hnvcc`'s directory exactly if it was not there), `TempsKept` (which temporary files there are at each
  place), and `ClosedKept` (whatever a run holds at a place is harmless to write: it came with the files,
  is closed, is cut, or is of a version that is not judged).

For every set of files satisfying `SourceAssumption` of `CuAsmParser`, faulty ones too, parsed one after
the other by one object, `CuAsmParserProofs` has five invariants (stated in `CuAsmParserInv`):

* `PassesKeepTypes` - `TypeInv`: sections have names of their own, numbers for their sizes and offsets and
  numbers in their bytes, the null section is first and empty (`NullIsEmpty`), fixups and relocations
  name sections there are, and until the relocation sections are made nothing is placed
  (`NothingPlaced`). `Worked` is what every pass but the scan may change of a section.
* `FilesMatchHeaders` - `LayoutInv`. `LaidOut(n)`: the sections before `n` begin where the bytes saved of
  the one before them end (`FileAfter`) and on their alignment, and `end` is behind the last. The step is
  `NextIsLaidOut`: filling up or padding section `n - 1` moves its end to where `n` is placed and nothing
  else, since a section's place is fixed before its padding is. `SavedIn` then shows that the sums of
  `saveAsCubin` are those offsets, by the first section of which they are not.
* `SegmentsHoldSections` - `HasRange` says that a segment's range is what `LocateSegments` computed, while
  the sections stay. With `InMemory(n)` (no section begins in memory before the one in front of it ends)
  neighbours are in order (`NeighboursInOrder`), and so are any two sections between a segment's. This
  needs `CodeFirst`, that no code follows a NOBITS section: from there on the offsets in the file and in
  memory differ, and code is filled up by the padding of the file, whatever memory calls for. It also
  needs `Between`: a segment that ends with the program header begins with it.
* `JumpsGoToLabels` - `LandInv` says of each pass what the lines scanned so far have been made into. A named
  label of a kernel has one line (`LabelsFrom`) and stands where the next instruction goes if that is a
  jump's source (`AtSource`), or else where the one before ends (`EndsFrom`). Those two offsets may differ,
  but not for a jump (`JumpsGo`: of the first of a group both are its control word). The padding moves end
  labels after the jumps are assembled; none of these is before a jump's source (`EndsMove`), since the
  instruction behind such a label would make the section longer (`RoomFor`, `EndIsNoSource`). `CodeOnly`
  is about the file: data, or an `.align` behind an instruction, would put the label behind it somewhere
  else than behind an instruction. All files of `cuasm_parser` that are assembled are `CodeOnly`, as the
  disassembler writes the sections of kernels.
* `SymbolsCover` - `CoverInv`, on top of `LandInv`. While lines are scanned, the room of a kernel ends with
  the instruction read last (`SizesFrom`), a `.size` is that of a line (`SymbolsFrom`), and labels and
  sections are in the order of their lines (`OrderFrom`, `LinesInOrder`). So when `Gather` picks the last of
  the labels at the end of a section, that is the one no instruction or label is behind (`LabelIsAt`), and
  it is no source of a jump (`SourceWithin`). From there on the layout may move this label only, and only
  outwards (`Marked`, `MarksKept`): the sections it has passed have their end labels at their ends
  (`FilledTo`). `KernelIsCovered` puts these together when the symbols are set. `KernelsSized` is about the
  file: a kernel's label is the first thing in its section, and its `.size` is from there to a label that
  is the last thing, unless no section follows. The code trusts any `.size` it is given; this is how the
  disassembler writes them, and every file of `cuasm_parser` that is assembled is `KernelsSized`, the ones
  disassembled and edited too.
* `RelocationsAreComplete` - `RefInv`, on top of `LandInv` and `CoverInv`. The scan puts data at the cursor,
  so in a section one fixup ends before the next begins (`FixupsApart`, which needs `FixupsWithin`: none
  ends behind the cursor) and each has an item in its place (`FixupsHeld`). The relocations made so far are
  those of the first `m` fixups and of the kernels among the first `n` sections, one at a place
  (`RelsFrom(m, n)`): a fixup adds one of its own (`FixupJoins`), a kernel one for each of its references
  (`RelsJoin`), whose offsets differ (`OffsetOnce`) and are in code, where under `CodeOnly` no data is. The
  number a fixup adds stays in its place (`NumbersFrom`), as later fixups are elsewhere and later passes
  rewrite info sections only. `EntriesBuilt` says that a section's entries are the relocations of its name,
  in reverse order; a name with `.rel` or `.rela` in front is that of one section (`RelNamesOneOf`), so the
  entries at a place are the relocation there (`OneEntry`). `PlainRefs` is about the file: a reference is
  a symbol, or a symbol and a number, an instruction adds its number with `+`, and no symbol evaluated in
  data is in an info section (what refers to symbols there is `index`, which has no relocation). Of the
  others the code does something else: it adds the number of `32@lo(f - 4)`, it evaluates `f - L` before
  the padding moves `L`, and it decodes an info section and encodes it again, not at the same offsets.

For every size of the fields (`SizeAssumption`, `KernelAssumption` of `SectionCode`) and both layouts:

* `SectionCodeProofs!InstructionsAreKept`, `CodesAreKept`, `SizeIsKept`, `OffsetsInvert`,
  `OffsetsAreRight` (the word at an instruction's offset is the instruction's, in every section) - the
  arithmetic is in lemmas on one field above another: the quotient and the remainder of `a + n * b`
  with `a < n`. The wide layout of 7x and later is covered by these theorems only.
* `SectionCodeProofs!MergedSplits`, `SplitMerges` - splitting and merging are inverse on codes of 17
  bits and on fields within their widths.

For every set of listings satisfying `ListingAssumption` and `FeederAssumption` of `CuInsFeeder`, every
filter and every sequence of calls, `CuInsFeederProofs` has five invariants, each on top of those before:

* `FeederTypeOK` - `GroupInv`: what the lists hold are the last lines of one group (`InOneGroup`: how many
  of each kind `pstate` tells, which `Transitions` are looked through for), except while nothing has been
  fed since the stream was rewound, when they may be left over from another pass.
* `FeederRecordsAreOwn` - `OwnInv`: the architecture is the one of the last header, so the group's lines
  become the records that `OwnRecord` reads off the listing: the codes and the control word between an
  instruction and the next.
* `FeederFuncIsOwner` - `FuncInv`: no line that names a kernel is between a queued record and the line that
  was read last.
* `FeederPassIsComplete` - `CountInv`: what was given, what is queued and what the lists hold are, one
  after the other, the instructions expected of the lines read so far. It is about a selection of a
  sequence, for which `Kept` is written as a recursive function: `KeptExists` and the lemmas behind it say
  that it has a solution and commutes with appending, which nothing in the library says of `SelectSeq`.
* `FeederCanBeReused` - `ReuseInv`: a call that has read a listing whole once does not throw on it later.
  `Run` is a sequence of states, one after each line. A pass that read everything was one (`FullRun`); a
  pass in progress is at the end of a run of its own lines (`PartRun`) and, where the whole listing has a
  run, in the state that run has there (`InRun`), because a state and a line have one successor. An object
  left in the middle of a group breaks this (`stale`, see `feeder_reuse`), and only then may it throw.

For every listing satisfying `ListingAssumption` of `CuInsParser` (its texts have operands of the kinds
the patterns capture):

* `InsParserProofs!ShapesAgree` - two texts of one key have vectors of one shape. The type of an operand
  tells its kind and, of an address, which registers it has (`TypeTellsTags`); an operand has a value for
  each tag (`ValueForTag`, where an address always has its number); and a key is the sequence of the
  types (`KeyTellsTypes`).
* `InsParserProofs!HalvesAreNearest` - the middle between each half and the next is rounded to the even
  one, and its neighbours to the half on their side. `NearestHalf` is the rounding of a quotient and a half;
  `NormalHalf` and `SmallHalf` show that the middles are of this form, the latter for each exponent of a
  subnormal. As rounding never turns two magnitudes around, this is about every magnitude.

Only model-checked: liveness (`AlwaysFinishes`, `RetrySucceeds`: TLAPS has no ENABLED here); `LearnedStays`,
`AcceptsSpan`, `AssemblesTruth`, `ReplayLosesNothing`, `PredCompletes` and `LearnsHardware`, since what
elimination computes is recursion over data and the hardware's code is an arbitrary operator; of the file
parser `OnlyFaultyFail`, which compares it with `Faulty`, a constant, and `InfoIsCurrent`, which is about
what folds and `SelectSeq` compute, recursion over data as well; and the round trip with its edits.

## 5 What the checks found

* **A wait that is branched over** (`corrected_branch`). The walk credits a wait to every later
  instruction in program order. When the waiting instruction can be skipped by a forward branch, the
  next consumer on the other path is not protected: `verify-cc` reports such a kernel as Verified, and
  `correct-cc`, which keeps the wait of the first consumer only, turns a correct kernel into an
  incorrect one. The proofs say what *is* true: the verdict is exact with respect to program order.
* **A barrier for the next iteration** (`corrected_loop`). A load used only through a loop's back edge
  has no forward dependence, so correction strips the barrier the compiler gave it, which the safety
  net's comment rules out.
* **A restart that is not one** (`feeder_reuse`). `restart()` rewinds the stream and leaves the line
  state machine and its lists where the last pass stopped. After a listing that ends inside a group,
  the next pass throws on its first line. A feeder that never stopped inside a group can be reused
  (`ReuseNeverThrowsIfWhole`).
* **Offsets of another kernel** (`nvinfo_offsets`). The attributes the assembler generates from a
  kernel's instructions replace nothing: one that the info section has already is pushed back with its
  old value, and the new value is dropped. An edited file whose info section was disassembled keeps the
  EXIT offsets of the original kernel.
* **A new line that sets a scoreboard** (`sass_line`). The control code a `SassLine` has by default merges
  0, not 7, into its barrier fields, so an instruction put into a kernel sets scoreboard 0 for its reads
  and its writes, and yields; the doc says it sets none.

Smaller ones:

* "Provably impossible" means less than it says: rejection implies more producers in flight than slots
  (proved), but neither that no codes exist (the input's own may be correct) nor that the interference
  graph needs more colours (the greedy order is not optimal once sharing removes edges).
* Encoding accepts the stall counts `S16` to `S99`, which spill into the yield bit and the write
  barrier.
* `extract` moves the stream that `next` reads; `trans` and `restart` mark the iteration as started,
  so a first `next()` after `trans` does not rewind but ends at once.
* `verify` of the assembler repository logs "Verified" after mismatches.
* `correct-cc` never looks at the output stream: when the file cannot be opened, or the disk is full,
  it logs success and exits with 0 (`CorrectCC.hpp` 119).
* Only the last label at the end of a kernel moves when the kernel is filled up, and the fixups have
  been evaluated by then: a second end label, or a difference in data, keeps the length of the code.
* A section behind a NOBITS section is aligned in memory but not in the file; code behind one is filled up
  by what the file calls for, so a segment over both need not cover it in memory.
* `32@lo` and `32@hi` of a label of the same kernel make a relocation against symbol 0, and the addend
  of a RELA entry is the number whatever the sign in front of it.
* `fun@type(sym)` matches names of one character only (`OneLetter`).
* A section that needs relocations and has no relocation section in the file makes the assembler
  throw; it adds none.
* `reset` keeps the symbol table, so until `buildInternalTables` a file sees the symbols of the one
  parsed before; no pass that early looks.
* A NOBITS section counts into the offsets at which `CubinFile` looks up the sections of a segment, but
  not into the file's: a segment that starts behind one is given another first section. In a text, labels
  of offsets stand before the line they name even if nvdisasm shows nothing there, and an offset that two
  attributes list keeps the label of one (`getOffsetLabelDict` is a map).
* `saveAsCubin` of an edit copies a temporary cubin that does not load as if it were older than Turing;
  an edit of one kernel makes it throw if another, which verifies, is beyond the slots of the correction,
  where the comment (`ParsedCubin.hpp` 242-245) calls recomputing that one harmless; and it makes no
  backup of its output.
* `dsass` of a `.dsass` file, whose default output is the input, renames it away and then fails;
  `hcubin` of a cubin before Ampere ends well and leaves no output, an older one having been renamed.
* `fixCubinDesc`, `parseCubin` and `dsass` leave their temporary files behind when the disassembler
  fails. An `hnvcc` that fails leaves its directory, which later ones take for the user's and keep.
* `hnvcc`'s usage says that dumps are called `hack.*`; they are called `dump.*`. `cuasm --asm2bin` on a
  `.cubin` disassembles it all the same.
* In the versions up to 6x an immediate with bit 19 set gets a modifier for an implicit sign, the target
  of a far jump too. From 7x on a float `-0f...` is minus zero
  whatever its digits. A decimal half is rounded twice (the source says so), and `parseFloatImme`'s test
  for `.neg` is never true, since the text has lost it by then.

## 6 What is not modelled

* The text level: the regular expressions that split lines and operands, formatting, ELF parsing by ELFIO,
  `cuobjdump` and `nvdisasm`. The modules take tokens, sections and lines as inputs. The parser's list of
  registers (`m_RPList`) is `Kernel`'s roles, an input too.
* The tables: `Latency` and `MinMargin` are constants and so are an instruction's roles. Loading them,
  with aliases and a static cache per version, is not modelled; nor are the fields of ELF headers that
  `CuSMVersion` has per version.
* Cycle-exact latencies are not in the program; `cc-diff-run` needs a GPU.
* The logger (its files are rolled by spdlog, and no component reads them), configuration, options,
  messages, and the commands' reports. `verify-cc` as a command: it writes no file, and what it computes
  is `VerifyCC`.
* In the assembler and disassembler: the patterns of the lines, header fields that pass through, names in
  string tables (resolved), `.type`, `.global` and `.other` (symbols without `.size`), the sorting of
  `.debug_frame`'s relocations, the numbers of relocation types, the bits of instructions
  (`SectionCode`, `CuInsAssembler`), the count of barriers, which reaches no section, lines nvdisasm
  shows as `UNDEF`, and the rewriting of `QNAN`.
* In the repositories: the file format, conversion to another version, `verify` (a report), architectures
  and the static cache. The instance of one key has no instruction that repeats a modifier (whose column
  the code's matrix counts once and its sum twice), and all values are integers.
* In the commands: two at a time (no doc or test has `hnvcc` run in parallel; two in one directory
  would remove each other's files), several `ptxas` of one build, and `CubinUtils`' batch helpers, which
  call what is modelled and print. A job's commands are those of section 3's sets, not every mixture.

## 7 Plan

Done: the analysis and correction of control codes, their commands and formats; the feeder, the
instruction parser and assembler; the assembler and disassembler of files with their info sections;
editing a cubin; the commands on shared files. What would add most now, in this order:

1. `ReposFile` - saving and loading a repository, converting it to another version: nothing that was
   learned is lost, and a file that is cut off is refused. `ins_repos` extended.
2. A theorem about the info sections (`InfoIsCurrent`), once `Update` and the attributes of a section are
   written without `SelectSeq`, as `Kept` is in `CuInsFeederProofs`.
3. Several `ptxas` in one `hnvcc` build, each with its dump.
4. An abstract file tool (back up, read, write whole or not at all) with each command of `Commands`
   shown to implement it, except for the ones section 5 names.
