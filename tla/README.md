# A verification project for Springbok

The repository simulates a RISC-V machine-learning core ("Springbok") in Renode
and runs IREE models on it. This directory holds TLA+ models of its parts, TLC
configurations that check them on small instances, and TLAPS proofs of the
results that matter most for every instance. Paths below are relative to the
root of the repository (`src/` in `PROJECT.json`).

- [1. The system](#1-the-system)
- [2. Modules and how they correspond to the code](#2-modules-and-how-they-correspond-to-the-code)
- [3. Runs: what is checked, on which instance](#3-runs-what-is-checked-on-which-instance)
- [4. Assumptions and fairness](#4-assumptions-and-fairness)
- [5. What is proved](#5-what-is-proved)
- [6. Disagreements between code and documents](#6-disagreements-between-code-and-documents)
- [7. What is not modelled](#7-what-is-not-modelled)
- [8. Plan](#8-plan)

Check a module with `tlc -config X.cfg M`, a proof with `tlapm M_proofs.tla`.

## 1. The system

### Components, their state and operations

| Component | Source | State | Operations |
|---|---|---|---|
| Control block, run control | `sim/config/infrastructure/SpringbokRiscV32.cs` | `mode` (Freeze, SwReset), the emulator's `IsHalted` and PC, `irqsPending`, `irqsEnabled`, four GPIO lines | writes of `Control`, `IntrState`, `IntrEnable`, `IntrTest`; the instructions `hostreq` and `finish`; machine reset |
| Control block, memory clear | same file, lines 319-363 | `InitStart`, `InitEnd`, `InitStatus`, closures queued in the emulator, the two memories | writes of the registers, the deferred closure, reset of the registers |
| Simulated core | same file, lines 79-174 | - | `simprint` (reads a string, masks and prints it), `xcount`, the counters |
| Run time start and exit | `springbok/crt0.S`, `print_csrs` in `springbok.cpp` | registers, stack pointer, stack sentinels, atexit table, log | start, constructors, main, destructors, stack check, report, exception handler |
| System calls | `springbok/springbok_gloss.cpp` | line buffers of two streams, heap pointer | `_write`, `_sbrk`, `_read`, `_close`, `_lseek`, `_fstat`, `_isatty` |
| Memory layout | `springbok/springbok.ld` | - | places sections, heap and stack |
| `float_to_str` | `springbok/springbok.cpp` | none | text of a binary32 value, or its length |
| Sample runner | `samples/util`, `samples/device`, `samples/*/*.c` | references to IREE objects, buffers, mappings, the status | `run`, `create_context`, `create_sample_device`, `prepare_input_hal_buffer_views`, `alloc_input_buffer`, `load_input_data` |
| Sample post-processing | `samples/*/*.c`, `samples/util/util.c` | the globals `score` and `output_header` | `process_output` |
| Test runner | `build_tools/test_runner.py` | the emulator process, its output, the exit status | start, two waits with timeouts, judgement |
| Download scripts | `build_tools/download_*.py` | installed tree, tag file, archive | fetch, extract, tag |
| Build | `CMakeLists.txt`, `cmake/`, `build_tools/*.sh` | none at run time | configuration |

### How they interact

- A **host** (management core, or the Renode script `sim/config/springbok.resc`)
  writes the control block's registers over the bus, on its own thread; the
  bus serialises these writes. It learns of the core's progress from the GPIO
  lines.
- The **core's thread** calls `ExecHostReq` and `ExecFinish` directly. Nothing
  locks the control block against the host's thread; both change `mode`,
  `IsHalted`, `irqsPending` and the lines.
- A release (SwReset deasserted) calls `Core.Reset()`, which resets the control
  block's **registers** with it, those of the memory clear included, and loads
  the program counter. It resets neither the interrupt masks nor the memories.
- A **memory clear** is a closure run at the emulator's next synchronised
  state; it reads the registers then, while the host and the program go on.
- crt0 ends with `finish`; its outcome is two words on the stack and a line in
  the log. The **test runner** reads only the log.
- `_write` hands whole lines to `simprint`, whose handler in the emulator has a
  limit and a masking of its own.
- `run()` acquires references from IREE; every call can fail, and the clean-up
  at the end runs whatever failed. Its answer for the host is in two globals.
- A release of the core restarts the program on memory as it is: crt0 clears
  nothing. What is in `.bss` and `.data` (line buffers, heap pointer, answers)
  outlives a run, and a run can be cut off anywhere.

### Hard behaviours, and what correct means

- *Run control.* Four handlers keep `mode`, `IsHalted`, PC and interrupt state
  together. Correct: the core runs exactly when the mode says so; a finished
  program never resumes without a reset; an interrupt stays until the host takes
  it back; the lines show the masks. Under interleaving: what goes wrong goes wrong
  in known overlaps only; outside of them handlers are atomic in effect, and a
  completed program is reported.
- *Memory clear.* The closure is late and reads live registers, which the host and
  releases change under it; addresses reach beyond the memories. Correct: INIT_DONE
  means that the requested range was erased, only pages of the range are touched,
  the host's poll ends, and a program is never erased while it runs.
- *Exit path.* Faults may happen in the program, its constructors or destructors,
  and in the handler; the stack may be damaged. Correct: one outcome is reported,
  it is the one logged, damage is said, the core reaches `finish`.
- *Test runner.* Timeouts race with answers, strings come from several parties.
  Correct: exit status 0 is earned; a result is judged rather than lost in a
  traceback; it ends.
- *Runner.* One error anywhere must not lead to a use of something not held, to a
  leak, or to another error's being reported; a reported success answers for the
  outputs of this run, not for one before.
- *Line buffers.* Partial lines, lines that fill the buffer, two streams, two
  limits, a release inside a call. Correct: no byte out of bounds, no character
  lost, and none repeated but by a release between a line's way to the log and
  the store of the new length.
- *Heap.* The pointer outlives a run; the linker script rounds both ends. Correct:
  no block is handed out twice, none reaches into `.bss` or the stack.
- *float_to_str.* Powers of ten rounded to binary32, a search, two scalings, a
  truncation, a buffer that may be too short. Correct: seven digits of the value,
  and the length that was measured.

`PROJECT.json` lists each hazard at its line with the property that covers it.

## 2. Modules and how they correspond to the code

| Module | Models | Uses |
|---|---|---|
| `CoreLifecycle` | abstract specification: held, frozen or running; progress; notices | - |
| `ControlBlock` | run control and interrupts, a handler per step | refines `CoreLifecycle` |
| `ControlBlockThreads` | the same handlers on two threads, a field access per step | refines `ControlBlock` |
| `MemInit` | the memory-clear registers and their closure | - |
| `SpringbokMachine` | run control and memory clear together | extends `ControlBlock`, instantiates `MemInit` |
| `Firmware` | crt0, exception handler, `print_csrs` | - |
| `TestSession` | the emulator's process with or without `test_runner.py` | extends `Firmware` |
| `RunModel` | `run()` and its callees for every sample and build | - |
| `LineBuffer` | `_write` and the `simprint` handler, with restarts and loads | - |
| `Gloss` | all of `springbok_gloss.cpp`, and the heap of the linker script | extends `LineBuffer` |
| `FloatToStr` | `float_to_str` and its caller | - |
| `FloatAccuracy` | no code: what a printed number says, in exact integers | extends `FloatToStr` |
| `ControlBlock_proofs`, `MemInit_proofs`, `RunModel_proofs`, `FloatToStr_proofs` | theorems | extend their modules |
| `ControlBlockThreads_proofs` | theorems | extends its module, instantiates `ControlBlock_proofs` |
| `Gloss_proofs` | theorems about `LineBuffer` and `Gloss` | extends `Gloss` |
| `SpringbokMachine_proofs` | theorems about the composition | extends `ControlBlock_proofs`, instantiates `MemInit_proofs` |
| `TestSession_proofs` | theorems about `Firmware` and `TestSession` | extends `TestSession` |
| `MCControlBlock`, `MCControlBlockThreads`, `MCRunModel`, `MCGloss`, `MCFloatToStr` | values of constants that a cfg cannot express | extend |

Definitions under a comment "Faulty variant" are not used by any specification:
each is another definition with a plausible bug in it, and put in that
definition's place it makes TLC find one of the run's properties violated.

**ControlBlock.** `mode` is the set of flags (`Run` is the empty set). `pc` is
abstracted to where the program stands: the vector a power-on leaves, the first
instruction, the body, after `hostreq`, after `finish`. The callback of `Control`
(lines 270-303) is one straight piece of code with three conditions; its four
possible outcomes are `Release`, `Pause`, `Unfreeze` and `SetModeOnly`, and
`WriteControl` is their disjunction. `Release` includes what `Core.Reset()`
does to the block: the mode it sets is overwritten at once, so only the halt and
the program counter remain; the registers it resets are in `MemInit`.
`IrqUpdate` is conjoined to every handler that calls it. `MachineReset` is
`SpringbokRiscV32.Reset` by itself: it leaves the interrupt state as it was.

**ControlBlockThreads.** `thread` is the frame of each thread: the next step and
its local copies. A step reads or writes one shared field, so `irqsPending |= x`
is `PendRead` then `PendWrite`, and `IrqUpdate` is a read of each mask followed
by one write per line. The variable `before` remembers the shared fields at the
beginning of the handler in progress; the refinement shows the abstract state as
that until the handler takes effect. An instruction the core executes while the
host is inside a handler counts as having preceded it (`Execute` records it in
`before`). `knows` is the host's knowledge that the core has stopped.

**MemInit.** The host may write any register and any flag at any time, and the
registers may be reset at any time. `pattern` is, per memory, the set of addresses
that hold the erase pattern; `ErasedBy` is the page loop of the closure. The masks
`~(page - 1)` are written with `%`. A write of `InitEnd` stores its address, then runs
the callback of VALID, in one action, as the register collection does. The closure
reads the registers when it runs. Either all the pages they name are in the memory
(`Clear`), or `WriteBytes` throws at the first that is not: `ClearBeyondMemory` erases
the pages in front of it and leaves the flags, INIT_PENDING set. The fields have 22
bits, 4 MB; the instruction memory is 1 MB (`springbok.repl:25`).

`requested` and `written` are history: the latest request, and whether its memory was
stored to since. What the host can rely on depends on whether it left that request
alone: `Disturb` forgets it when the registers are written or reset while a clear is
pending or its closure waits, and when the host stores a 1 to one of the two flags. A
new request made while another waits disturbs nothing.

**SpringbokMachine.** `ReleaseCore` is the Control write that releases, with both
effects of `Core.Reset`, and `ResetMachine` a reset of both; `Undisturbed` is the
guard that a careful host puts in front of them and of its writes to the clear
registers. Stores of the program happen in `RunCore`. The writes of the
interrupt registers are left to `ControlBlock`: they touch nothing the clear does.

**Firmware.** A stage per part of crt0. `main` may return any of `ReturnValues`,
print, damage a sentinel, leave the stack pointer off, and fault; constructors and
destructors may print, damage a sentinel and fault as well (`UserStages`). `atexit`
(`RegisterFini`) comes before the constructors (`RunInit`), so that a constructor that
faults leaves its entry behind; `CallExitProcs` forgets one entry per step, before
it calls it, so that a destructor that faults leaves the others. `_check_stack` repairs the
pointer, whence `sp' = "top"`. The exception path skips destructors and stack
check. A fault in the handler is possible when it works on a stack that is not
there. `Restart` keeps memory, so the atexit table can fill: `atexit`'s failure
is ignored by crt0 and so by `RegisterFini`. The local symbol `_exit` (lines 128-133)
cannot be reached from anywhere and is left out.

**TestSession.** `log` is what simprint printed, `output` what the runner judges.
The program goes on printing after the termination string was seen and until the
emulator is gone. `status` records who ended the script: `Traceback` is an uncaught
exception (Python exits with 1), `Exit(n)` is `sys.exit`, cut to a byte. A session without the runner (`runner = "none"`) is the interactive use, in which
a person can release the core again.

**RunModel.** `run()` has no loop whose length depends on data. For each sample and
build the model computes the straight line of calls from a table of instructions
(a call guarded by the status, a block behind such a guard, an early return, an
unguarded use, a release), with one operator per function of the code, and
executes it: any call can fail, a `malloc` whose result is not tested can return NULL. After a NULL dereference the
behaviour is undefined and that run goes no further (`Undefined`). The instance is
created into a parameter passed by value (`util.c:38-42`), so that the release in
`run()` never releases it: `OnlyViewsLeak` lists it.

What the device computes is a choice at `invoke`: the right product or one wrong in
an element, or any outputs of a network, NaN included. `process_output` is one instruction of that line
and a loop of its own, an element per step, with its locals in `loop`: that of the
vector samples compares up to the first mismatch and can set the error
(`CompareProduct`, `EndProducts`); that of the networks searches for the best label,
with one comparison per source file (`MnistBetter` and its like), and stores it in
`score` (`CompareLabel`, `EndLabels`). `length` is `output_header.length`. `Rerelease` starts the program again without loading it:
`held` becomes empty (what was held is lost on the heap), `score` and `length` stay.
The floating-point inputs are exact multiples of 1/4 and 1/2 and are counted in
those units.

**LineBuffer.** A step per byte. `Simprinted` is what the emulator's handler
reads of a line: it masks to seven bits and stops at the first zero *after*
masking, so a byte 0x80 cuts a line. `printed` and `written` are histories.
`Restart` is a release between two bytes; `RestartAfterPrint` is one after a line
was handed to simprint and before its length is stored, and notes the stream in
`repeated`; `Reload` loads the program anew and clears `.bss`. A restart before a
character's store, or after it and before the length's, is the restart before that
byte: the character is written over.

**Gloss.** `_sbrk` keeps `heapPtr`; `blocks` is the history of what it handed out
since the load. `SHeap` and `EHeap` are computed as `springbok.ld` computes them:
`_eheap` is the stack's start minus 63, rounded up. `PointerPlus` wraps at the
address space. The other calls answer and change nothing; every answer is a value
of `result`. A load puts the pointer back, with or without clearing `.bss`.

**FloatToStr.** The arithmetic is exact: a value is its bit pattern, a product of
two binary32 values is computed to 48 bits and rounded to nearest, ties to even;
a 64-bit integer is two limbs. The tables are those of the source. Which characters
a value has is a function of it (`Characters`); how they get into the buffer is a
step each: `Call` starts at the first character, `Put` stores one in `memory`, the
bytes at the buffer and behind it, if it fits and counts it in any case, `Terminate`
puts the NUL, `Return` goes back to the caller. The caller of the comment (`springbok.cpp:115-128`)
measures, then converts; it may also pass a shorter length or no buffer. The
tables are read through pointers of another type (`springbok.cpp:200-201`); the
language leaves the result open, and the model takes the values as written, which
is what a compiler produces that does not reorder those reads.

## 3. Runs: what is checked, on which instance

| Run (cfg) | Instance | States | Properties |
|---|---|---|---|
| `control_block` (MCControlBlock) | the four interrupts of the hardware | 4,096 | TypeOK, HaltedUnlessRun, ResetBeforeRerun, LinesFollow, PendingUntilCleared, LifecycleSpec |
| `threads_disciplined` (MCThreadsDisciplined) | two interrupts, both assumptions on | 12,762 | TypeOK, StopsOnlyWhenRunning, FinishedStaysReset, WithdrawnByName, FinishReported, AtomicSpec |
| `threads_eager` | without SlowProgram | - | StopsOnlyWhenRunning is violated |
| `threads_clearing` | without PoliteHost | - | WithdrawnByName is violated |
| `mem_init` (MemInitAnyHost) | pages of 2 and 4 bytes, memories of 4 and 8, addresses 0..5, 2 closures | 183,856 | TypeOK, DoneMeansErased, ErasesRequestedPages, ClearIsReported |
| `machine_careful` (MachineCareful) | pages of 1 and 2 bytes, memories of 1 and 4, addresses 0..2, 2 closures, 2 interrupts | 149,928 | StartsOnClearedMemory, DoneMeansErased, NeverErasesUnderProgram |
| `run_model` (RunModelPass) | all seven pairs of sample and build, three elements, outputs -1, 0, 1, 2 and NaN | 93,086 | TypeOK, UsesOnlyHeld, OnlyViewsLeak, AnswerIsOfThisRun, FirstErrorReported |
| `run_model_views` (RunModelViews) | the same | - | ViewsReleased is violated |
| `test_session` (TestSessionPass) | results 0, 5, 256; causes 0, 7; two messages of the program; two atexit entries | 175,067 | SessionTypeOK, ReportMatchesLog, OneOutcome, DamageIsLogged, PassIsEarned, JudgedByResult, ReturnedFinishes, RunnerEnds |
| `gloss` (GlossSmall) | lines of two characters, buffer of three, three byte values, four bytes; a heap of eight bytes at addresses rounded to four, requests -5, 3, 5 and 40, two blocks | 462,256 | TypeOK, InBounds, NothingLost, BlocksApart |
| `float_to_str` (FloatToStrText) | 440 values; buffers of the measured length, of 1 and of 5 bytes, and none | 28,324 | MeasuredThenPrinted, SevenSignificantDigits, Accurate |
| `float_scaled` (FloatToStrScaled) | the same | - | OneDigitInFront is violated |

What they show:

- `control_block`: run control keeps its promise to a host, `CoreLifecycle`, in
  every order of handlers. The instance is the real one: four interrupts.
- `threads_disciplined`: with two assumptions on the two threads (section 4) the
  handlers have the effect of whole steps (`AtomicSpec`), and the host of a program
  that finishes is told (`FinishReported`). Two interrupts are enough: the code
  raises two by itself, and the races are between two bits and the order of two
  lines. `threads_eager` and `threads_clearing` show that each is needed; with
  `PoliteHost = FALSE` TLC also finds FinishedStaysReset violated, by the same late
  assignment of the mode as in `threads_eager`. That StopsOnlyWhenRunning,
  FinishedStaysReset and WithdrawnByName hold in `threads_disciplined` shows that
  nothing but the overlaps excluded there breaks them; for every host and program
  this is proved (section 5).
- `mem_init`: six addresses hold aligned and unaligned starts and ends, ranges
  inside a page, across pages, empty ones and, in the smaller memory, ranges that end
  beyond it; two page sizes tell a mixed-up select from a right one. Two closures
  allow for one to be asked for while another waits, and for a failing one with
  another behind it. The host does what it likes: ClearIsReported says that its poll
  is answered however it or a release writes the flags meanwhile, unless the
  registers name pages that do not exist. Then the poll never ends, which is what the
  code does.
- `machine_careful`: the release meets a clear in every order that a careful host
  allows, also a clear that fails. With `CarefulHost = FALSE` TLC finds
  StartsOnClearedMemory and NeverErasesUnderProgram violated, in the shortest traces by
  a clear that the host asks for when it has released the core already. A request that
  a release cuts short counts as disturbed (`requested`), and what it erases is not
  promised to anybody.
- `run_model`: the only thing a failing run may leave behind, besides the
  instance, are input views; errors are not replaced; a success is about this run's
  outputs whatever the globals held. The pairs are those the CMake files produce:
  the vector samples with the inline HAL and VMVX or with the loader HAL and a
  static library, the networks with the full HAL and a static library; bytecode
  and C modules do not differ in what is modelled. Three elements hold a first,
  a middle and a last one, two equal maxima and a NaN between numbers.
- `test_session`: 256 is among the results because the exit status is one byte
  (`test_runner.py:163`): `PassIsEarned` says what status 0 really tells. Cause 0 is
  the exception that reports the same value as a success. Two
  messages before a fault let nested exceptions and program output occur in one
  run; two atexit entries let the table fill in an interactive session.
- `gloss`: four bytes fill a line of two twice over; the bytes are one plain, one
  that masking changes and one that masking turns into a terminator. The cut at
  the limit, a newline just after it, and a release at every point of both occur.
  Neither the end of `.bss` nor the start of the stack is aligned, so both ends of
  the heap are rounded; 3 and 5 fill the heap exactly, 5 and 5 do not fit. The
  proofs (section 5) are for every size; more bytes multiply the states and add
  no case.
- `float_to_str`: for each of the 84 buckets its start, the pattern before and
  after it and two inner points; the ends of the fixed-point range, of the denormal
  and of the finite values; zeros, infinities and NaNs. Which branch, bucket and
  prescaling a value takes depends on those ends only; between them only the
  rounding of the products varies. The value zero is exempt from
  SevenSignificantDigits: it is printed as `0`, although the comment at line 112 says
  "Always". Error and digits are compared in exact integers
  (`FloatAccuracy`).

## 4. Assumptions and fairness

Named assumptions, each a constant a cfg sets:

- `PoliteHost` (ControlBlockThreads): once the host has set the core running, with
  both interrupts enabled and none pending, it leaves the interrupt registers
  alone until a line tells it that the core stopped or it has stopped it itself;
  its `Control` writes do not arrive while the program is stopping itself; it
  uses `IntrTest` only before it first starts the core. A host may still freeze
  and resume a running core at will.
- `SlowProgram` (ControlBlockThreads): the program does not stop itself while a
  `Control` write is in progress. Nothing in the code enforces it.
- `CarefulHost` (SpringbokMachine): it asks for a clear only while it holds the core
  in reset; it writes the clear registers, releases the core or resets the machine
  only when INIT_PENDING is clear; and it does not store a 1 to INIT_PENDING or
  INIT_DONE. After a clear that failed INIT_PENDING stays set, and such a host stays
  where it is.

`MemInit` assumes nothing of the host.

Fairness, all weak:

- `WF(HostProgress)`, `WF(CoreProgress)`: a thread inside a handler goes on, and a
  raised line is eventually noticed. Handlers have no loops that wait. Nothing
  obliges the host to write or the program to stop.
- `WF(Closure)`: the emulator reaches a synchronised state again and again, and a
  closure that waits is run, whether it succeeds or throws;
  `ExecuteInNearestSyncedState` promises nothing else.
- `WF(Runner)`: both `expect` calls have timeouts, so the script always has a next
  step; `WF(RuntimeStep)`: the emulated core executes the run time's
  instructions. Nothing is assumed of `main` (it may loop for ever), but
  constructors and destructors are taken to return or to fault.

## 5. What is proved

`ControlBlock_proofs` (for any set of interrupts that has HostReq and Finish,
`BitsAssumption`):

- `Invariance`: the inductive invariant `Inv` is the conjunction of TypeOK,
  HaltedUnlessRun, ResetBeforeRerun and LinesFollow. ResetBeforeRerun is not
  inductive alone: that `Execute` cannot move a finished program needs the core
  halted, which is HaltedUnlessRun. The step has one case per action.
- `TypeCorrect`, `HaltedAgrees`, `NoRerunWithoutReset`, `LinesAgree`: its parts.
- `NoNoticeLost` (PendingUntilCleared): from a step lemma; only `WriteIntrState`
  takes bits away.
- `Implements` (LifecycleSpec): the initial state maps to the initial state and
  every step to a step or a stutter of `CoreLifecycle`, under `Inv`.

`ControlBlockThreads_proofs` (for any lines in any order, `LineAssumption`: HostReq and
Finish among them, none twice):

- `TypesAreKept` (TypeOK) needs no assumption on host or program; it is proved with
  the types of the frames (`FramesFit`), since a field takes what a frame holds.
- `StrayStopNeedsOverlap` (StopsOnlyWhenRunning), `LostFinishNeedsOverlap`
  (FinishedStaysReset) and `LostBitNeedsOverlap` (WithdrawnByName) assume nothing of
  host or program either. Each property is violated in some behaviours, as the runs
  `threads_eager` and `threads_clearing` show; the theorems say in which: none
  without an overlap of two handlers, `StopsDuringControl` (the program is stopping
  itself while a `Control` write is in progress) for the first two, `BothStore` (both
  threads are between the read and the store of `irqsPending`) for the third. All
  other interleavings are harmless: of the interrupt registers with a stop, of two
  line updates, of execution with a `Control` write. `AloneInv` says of each place of a
  `Control` write or of a stop what `mode`, `halted` and `pc` are as long as the other
  has not met it (`WriteInv`, `StopInv`, and `NeitherInv` between them); `PendingSeen`
  says that what a thread has read of `irqsPending` is still what is there. Each is
  kept by every step that begins and ends outside the overlap, so that the overlap
  comes first.
- `HandlersAreAtomic` (AtomicSpec) has `PoliteHost` and `SlowProgram` as hypotheses: what
  is left to prove is that freezing and resuming during execution, instructions inside
  a `Control` write, and the host at work while the core still lowers lines are
  harmless. The invariant `DisciplineInv` says
  for each place of each handler how far it has come: what the fields are against
  `before` inside `Control` (`UnfinishedControl`) and inside the interrupt registers
  (`PendingChanged` and its like), that a program that is stopping itself has the
  block to itself until it raises its line (`StoppingInv`), and that the lines it
  lowers behind that one are down already (`TailInv`), which is why the host may go on
  meanwhile. The refinement takes each step to the atomic handler it completes, or to
  a stutter.
- `ThreadsKeepLifecycle`: the two refinements put together. `Handlers` is the instance
  of `ControlBlock_proofs` on the effective fields, so the interleaved handlers keep
  what `CoreLifecycle` promises to the host.

`MemInit_proofs` (for all page sizes, addresses and numbers of closures):

- `TypesAreKept` (TypeOK), `DoneIsErased` (DoneMeansErased) and `OnlyRequestedPages`
  (ErasesRequestedPages), for every host. DoneMeansErased is not inductive: it says
  nothing of the registers that a waiting closure is going to read. `ClearInv` adds
  of a request that was not disturbed that the registers still hold it as long as any
  closure waits, that INIT_DONE is not set while INIT_PENDING is, and that the request
  has been carried out once INIT_PENDING is clear. `PageDownIsFirst` and
  `PageIsUnique` are the arithmetic of the masks; the page loop is shown to cover the
  range and to stay in its pages.

`SpringbokMachine_proofs` (for any interrupts, page and memory sizes and addresses):

- `ControlBlockKept`, `ClearsKept`: the composition takes only steps of its two
  components, so their theorems hold of it: `MachineKeepsLifecycle` is LifecycleSpec,
  carried over from `ControlBlock_proofs`, and `DoneIsErasedInMachine` is
  DoneMeansErased, from `MemInit_proofs`. No hypothesis.
- `StartsErased` (StartsOnClearedMemory) and `ErasesOnlyUnderReset`
  (NeverErasesUnderProgram), for a `CarefulHost`, without whom both are false:
  `CarefulInv` joins the invariants of the components by `HeldWhileClearing`, a clear is
  pending only under SwReset, `PendingWhileWaiting`, a closure waits only while
  INIT_PENDING is set, and `NoneDisturbed`. That the program's own `finish` and `hostreq`
  do not break it is HaltedUnlessRun of `ControlBlock`: the core executes in mode Run
  only, where no clear is pending.

`TestSession_proofs` (for all results, causes and bounds; no hypothesis):

- `TheReportIsTheLogs` (ReportMatchesLog), `OneOutcomeOnly` (OneOutcome), `DamageIsSaid`
  (DamageIsLogged): `FirmwareInv` adds that no outcome is in the log before the stage
  that prints it (`OutcomeIsAhead`), that from there to `finish` the register holds
  what was printed last (`OutcomeIsKept`), and that between the complaint and the
  result nothing is printed (`DamageIsNoted`). `LogIsBounded` gives each stage its room
  in the log, which SessionTypeOK bounds.
- `APassIsEarned` (PassIsEarned), `NoTracebackWithOutput` (JudgedByResult), `SessionTypes`
  (SessionTypeOK): `SessionInv` adds that the wait ends with a termination string in the
  log (`TerminationIsLogged`) and that from the judgement on the output is the log, which
  is over by then, and the status follows from it (`Judged`).
  Each termination string is either a failure string or the line that the judgement
  looks for, which is all that JudgedByResult rests on.

`Gloss_proofs`, about `LineBuffer` (for all sizes with `LineLimit < BufferSize` and `LineLimit <=
SimprintLimit`, all byte sets and all lengths of input; 255, 256 and 255 in the
code):

- `Invariance`, `TypeCorrect`, `StaysInBounds`: the invariant adds `ShortLines`, a
  line waiting is shorter than the limit: without it neither the next byte nor its
  NUL is known to fit.
- `KeepsEveryCharacter` (NothingLost): the property is strengthened to a
  per-stream equation that is kept by storing (`StoreKeeps`) and by flushing
  (`FlushKeeps`), the latter because a clean line no longer than the limit is read
  to its end. That `Visible`'s CHOOSE has a value is the least-number principle,
  taken from the well-foundedness of the order on the naturals.

`Gloss_proofs`, about `Gloss` (for every address space, alignment, end of `.bss`, memory and stack
size for which the linker finds the heap's size not negative, `LayoutAssumption`;
requests that do not carry the end of the heap past the address space,
`RequestAssumption`: DTCM ends at 0x34400000 and a request is an `int`):

- `HeapIsSafe` (BlocksApart): the invariant adds that the pointer is between the
  heap's ends and behind every block (`PointerBeyondBlocks`). `AlignUpBounds` and
  `Layout` bound the rounded ends, whence the heap is behind `.bss` and below the
  stack; `GrantedFits` shows that no wrap hides a request that does not fit.
- `GlossIsSafe` (TypeOK, InBounds, NothingLost): every step is one of `LineBuffer`
  or an answer (`GlossStepOfLineBuffer`), so the invariants of `LineBuffer` carry
  over.

`RunModel_proofs` (for every number of elements, all outputs, every sample and build;
no hypothesis):

- `CallsFindWhatTheyUse` (UsesOnlyHeld), `AllIsGivenBack` (OnlyViewsLeak),
  `TheFirstErrorIsReported` (FirstErrorReported). The proof follows the code as a
  program logic does: each place gets a mark that says what is held there while nothing
  has failed, what can be held there after a failure, and whether the outputs and the
  answer are there. `Leads` says when an instruction leads from one mark to the next,
  `Path` that a piece of code leads from its first mark to its last; a lemma per
  function of the code gives its path (`PreparePath` and its like), `JoinedIsMarked`
  puts two pieces together, and `RunIsMarked` is the whole of `run()`, with the early
  return of `create_context` and the block that is skipped after an error. The
  invariant, `HeldInv`, is that the machine keeps to the marks of its build.
- `SuccessIsThisRuns` (AnswerIsOfThisRun): `RunInv` adds the loop invariants, that the
  products before `loop.next` are right (`Compared`) and that the best label is the
  first maximum of the outputs before it (`Searched`), and what the answer is behind
  the loop. Globals that an earlier run left cannot get in: the marks put
  `process_output` before every return that reports a success.
- `TypesAreKept` (TypeOK).

`FloatToStr_proofs` (for every value of binary32, `ValueAssumption`; all lengths of a
buffer and every size of the memory from its start on, `SizeAssumption`):

- `MeasuredThenPrintedHolds` (MeasuredThenPrinted). The invariant `Inv` says of a call
  that is printing how far it has come (`PrintingInv`: the characters put so far are in
  the buffer as far as they fit, the others are `todo`), of one that has returned that
  it counted the whole text and its terminator, and that what the caller keeps is that
  count (`CallInv`). The property alone is not inductive: it is silent while a call is
  printing. That memory tells a text from its terminator rests on `CharactersType`: a
  text of any value is made of the characters of `Printed`.
- `SevenSignificantDigitsHold` (SevenSignificantDigits). Four steps:
  1. `BucketHolds`: the search stops, inside the tables, at the bucket the value is in.
  2. `TableFits`, checked entry by entry: prescaled and multiplied by the scale of its
     bucket, every value of the bucket stays below 32, and the smallest one gives 1
     at least. The eight buckets of denormals are taken one by
     one (`DenormalBuckets`), because a denormal's exponent depends on the value.
     With `MultiplyBounds`, which bounds a product however it is rounded, that gives
     `ScaledRange`.
  3. `MillionTimes`: times a million, the number is from 1000000 up and below 2^47
     (`MantissaPrintable`, and `FixedPrintable` for values that are printed without an
     exponent). No conversion to an integer overflows.
  4. `SevenDigits`: sixteen divisions by ten leave nothing of such a number, hence one
     of the digits in front of the point is not zero, and `NumberText` says where the
     digits, the sign and the point stand in the text.
- `DigitsAreTheNumber`: the digits are those of the number, whose value they give back;
  the division in two limbs loses nothing.

  A function that is defined by recursion over 0..15 has a value because the shortest
  sequence of divisions that did not exist would continue one that does (`Iterates`);
  this is the least-number principle again, in place of an induction.

Only model-checked:

- Liveness (FinishReported, ClearIsReported, ReturnedFinishes, RunnerEnds): the prover
  has no rules for fairness and ENABLED.
- Accurate: how far the number printed may be from the value is an inequality between
  products of powers of ten and of two, computed by a recursive operator and folds;
  what those return for every value is an induction over data, which the provers
  cannot do. `FloatAccuracy` keeps them away from the module that is proved about.

## 6. Disagreements between code and documents

Found while modelling; each is a run whose property TLC finds violated.

- `threads_eager`: the Control handler resumes the core before it assigns the mode,
  so a program that stops at once is told "Did you clear IsHalted manually?".
- `threads_clearing`: unlocked read-modify-writes of `irqsPending` lose the
  completion interrupt.
- `run_model_views`: input views are not released when a later call fails.
- `float_scaled`: the scaled value is said to be in [1, 10), but the product by the
  scale of the bucket (`springbok.cpp:222`) is rounded to nearest, and for a value just
  below a power of ten it can round up to 10. 999999872 (0x4e6e6b26), the last value
  before bucket 9, times the scale 0x422bcc78 of bucket 8 is such a product and prints
  `10.000000e8`; 0.01f, a little below 0.01, times 1000 is another: `10.000000e-3`. The
  number is right, the notation is not.

Noted without a run: a clear whose range ends beyond the memory throws inside the
closure, and INIT_PENDING stays set until the host or a reset clears it. `OutputHeader` in `util.c:28-29` says its first two fields are
"Populated in crt0.S", but crt0 leaves the words on the stack and does not know that
variable. `mcause` 0 makes an exception report the value 0; only the log tells it
from a success (the test runner looks at the log). A result of 256 passes a test.
`model_api.h:58-59` says that `process_output` sets `output_length` to the size of the
model's output; the vector samples do not touch it, so their length stays 0.
Texts of `float_to_str` near the start of a bucket need not be in the order of the
values: the roundings of the products differ on the two sides.

## 7. What is not modelled

- `MemoryBankControl`, `ErrorStatus`: storage without behaviour.
- `ExecFault`: nothing calls it.
- The instruction and cycle counters; `gen_mlmodel_input.py`; the CMake and shell
  files: no interaction with the rest at run time.
- Renode and IREE: external; what is relied on is in section 4 and in the
  comments (bus writes are serialised, a call hands out a reference or fails).
- The text of messages: a message is one of a few names that somebody looks for.
- Reads of registers: they change nothing. `Control` reads back the value last
  written rather than the mode in force; every value such a host can write back is
  among those `WriteControl` takes, and no document says what a read returns.
- The order in which partial lines and the run time's own messages appear in the
  log: the former wait in a buffer, the latter go to `simprint` at once, and no
  document promises an order.
- The download scripts (`build_tools/download_*.py`): installers run by hand.
- The stub of `float_to_str` without float support; `operator delete`.

## 8. Plan

Written in this order, the most important behaviour first: CoreLifecycle,
ControlBlock and its proofs; ControlBlockThreads; MemInit and SpringbokMachine;
Firmware; TestSession; RunModel; LineBuffer and its proofs; Gloss and its proofs;
FloatToStr; then the proofs about the modules that TLC alone had checked:
MemInit, SpringbokMachine, ControlBlockThreads, TestSession, RunModel, FloatToStr. Every
safety property that a passing run checks is proved, but for Accurate. Still open:

1. `Installer`: the download scripts with crashes between extraction and tag,
   failing `pip`, a rerun for another release. Intended: a matching tag implies a
   complete tree of that release. They are apart from the program, and their hazards
   are listed in `PROJECT.json`.
2. Accurate for every value: bounds on the error of `Multiply` and of each table entry,
   instead of the recursion that the run evaluates.
