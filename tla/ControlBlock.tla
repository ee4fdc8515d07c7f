---------------------------- MODULE ControlBlock ----------------------------
(***************************************************************************)
(* SpringbokRiscV32_ControlBlock and the parts of SpringbokRiscV32 that it *)
(* drives: the register interface through which a host starts, freezes and *)
(* resets the core, the `hostreq' and `finish' instructions through which  *)
(* the core stops itself, and the interrupts that tell the host.           *)
(*                                                                         *)
(* Every handler is one step here.  ControlBlockThreads takes the handlers *)
(* apart.  The memory-clear registers are in MemInit.                      *)
(***************************************************************************)
CONSTANT InterruptBits

ASSUME BitsAssumption == {"HostReq", "Finish"} \subseteq InterruptBits

VARIABLES mode,          \* the Mode flags that are set
          halted,        \* Core.IsHalted
          pc,            \* where the program stands, see Points
          irqsPending,
          irqsEnabled,
          irqLines       \* the GPIOs that are raised

irqVars == <<irqsPending, irqsEnabled, irqLines>>
vars    == <<mode, halted, pc, irqVars>>

Mode      == SUBSET {"Freeze", "SwReset"}
Run       == {}
ResetMode == {"Freeze", "SwReset"}

\* "vector": where a power-on leaves the core; "start": at the first
\* instruction of the program; "body": anywhere after it; "afterHostReq" and
\* "afterFinish": the last instruction executed was that one.
Points == {"vector", "start", "body", "afterHostReq", "afterFinish"}

TypeOK ==
  /\ mode \in Mode
  /\ halted \in BOOLEAN
  /\ pc \in Points
  /\ irqsPending \subseteq InterruptBits
  /\ irqsEnabled \subseteq InterruptBits
  /\ irqLines \subseteq InterruptBits

Init ==
  /\ mode = ResetMode
  /\ halted = TRUE
  /\ pc = "vector"
  /\ irqsPending = {}
  /\ irqsEnabled = {}
  /\ irqLines = {}

-----------------------------------------------------------------------------
(* The Control register.  A write may release the core from reset, pause   *)
(* it, unfreeze it, or change only the mode.                               *)

\* Faulty variant: the reset leaves the program counter alone.
ReleaseKeepingPC(newMode) ==
  /\ "SwReset" \in mode
  /\ "SwReset" \notin newMode
  /\ halted' = (newMode # Run)
  /\ mode' = newMode
  /\ UNCHANGED pc

\* SwReset is deasserted: the core resets (and the control block with it),
\* the program counter is loaded, and the core resumes if nothing else
\* holds it.
Release(newMode) ==
  /\ "SwReset" \in mode
  /\ "SwReset" \notin newMode
  /\ pc' = "start"
  /\ halted' = (newMode # Run)
  /\ mode' = newMode

\* Faulty variant: the core is not halted.
PauseModeOnly(newMode) ==
  /\ mode = Run
  /\ newMode # Run
  /\ mode' = newMode
  /\ UNCHANGED <<halted, pc>>

Pause(newMode) ==
  /\ mode = Run
  /\ newMode # Run
  /\ halted' = TRUE
  /\ mode' = newMode
  /\ UNCHANGED pc

Unfreeze(newMode) ==
  /\ mode # Run
  /\ "SwReset" \notin mode
  /\ newMode = Run
  /\ halted' = FALSE
  /\ mode' = newMode
  /\ UNCHANGED pc

SetModeOnly(newMode) ==
  /\ mode = Run <=> newMode = Run
  /\ ~("SwReset" \in mode /\ "SwReset" \notin newMode)
  /\ mode' = newMode
  /\ UNCHANGED <<halted, pc>>

WriteControl(newMode) ==
  /\ \/ Release(newMode)
     \/ Pause(newMode)
     \/ Unfreeze(newMode)
     \/ SetModeOnly(newMode)
  /\ UNCHANGED irqVars

-----------------------------------------------------------------------------
(* The interrupt registers.                                                *)

IrqUpdate == irqLines' = irqsEnabled' \cap irqsPending'

\* Faulty variant: the lines are not updated.
WriteIntrStateSilently(value) ==
  /\ irqsPending' = irqsPending \ value
  /\ UNCHANGED <<mode, halted, pc, irqsEnabled, irqLines>>

WriteIntrState(value) ==
  /\ irqsPending' = irqsPending \ value
  /\ UNCHANGED <<mode, halted, pc, irqsEnabled>>
  /\ IrqUpdate

\* Faulty variant: the value is not masked.
WriteIntrEnableUnmasked(value) ==
  /\ irqsEnabled' = value \cup {"reserved"}
  /\ UNCHANGED <<mode, halted, pc, irqsPending>>
  /\ IrqUpdate

WriteIntrEnable(value) ==
  /\ irqsEnabled' = value
  /\ UNCHANGED <<mode, halted, pc, irqsPending>>
  /\ IrqUpdate

WriteIntrTest(value) ==
  /\ irqsPending' = irqsPending \cup value
  /\ UNCHANGED <<mode, halted, pc, irqsEnabled>>
  /\ IrqUpdate

-----------------------------------------------------------------------------
(* The core.                                                               *)

\* Any instruction that does not involve the control block.
Execute ==
  /\ ~halted
  /\ pc' = "body"
  /\ UNCHANGED <<mode, halted, irqVars>>

\* Faulty variant: the pending bits are assigned instead of or-ed.
ExecHostReqAssigning ==
  /\ ~halted
  /\ halted' = TRUE
  /\ mode' = {"Freeze"}
  /\ pc' = "afterHostReq"
  /\ irqsPending' = {"HostReq"}
  /\ UNCHANGED irqsEnabled
  /\ IrqUpdate

ExecHostReq ==
  /\ ~halted
  /\ halted' = TRUE
  /\ mode' = {"Freeze"}
  /\ pc' = "afterHostReq"
  /\ irqsPending' = irqsPending \cup {"HostReq"}
  /\ UNCHANGED irqsEnabled
  /\ IrqUpdate

\* Faulty variant: the core is frozen as by hostreq.
ExecFinishFreezing ==
  /\ ~halted
  /\ halted' = TRUE
  /\ mode' = {"Freeze"}
  /\ pc' = "afterFinish"
  /\ irqsPending' = irqsPending \cup {"Finish"}
  /\ UNCHANGED irqsEnabled
  /\ IrqUpdate

ExecFinish ==
  /\ ~halted
  /\ halted' = TRUE
  /\ mode' = ResetMode
  /\ pc' = "afterFinish"
  /\ irqsPending' = irqsPending \cup {"Finish"}
  /\ UNCHANGED irqsEnabled
  /\ IrqUpdate

\* SpringbokRiscV32.Reset: it resets the control block's mode and registers
\* but none of its interrupt state.
MachineReset ==
  /\ halted' = TRUE
  /\ mode' = ResetMode
  /\ pc' = "vector"
  /\ UNCHANGED irqVars

-----------------------------------------------------------------------------
Host ==
  \/ \E newMode \in Mode : WriteControl(newMode)
  \/ \E value \in SUBSET InterruptBits :
       \/ WriteIntrState(value)
       \/ WriteIntrEnable(value)
       \/ WriteIntrTest(value)
  \/ MachineReset

Core == Execute \/ ExecHostReq \/ ExecFinish

Next == Host \/ Core

Spec == Init /\ [][Next]_vars

-----------------------------------------------------------------------------
(* Properties.                                                             *)

\* The core executes exactly when neither Freeze nor SwReset is set: the mode
\* and the emulator's IsHalted flag, kept by separate assignments in Control,
\* ExecHostReq, ExecFinish and Reset, never drift apart.
HaltedUnlessRun == halted <=> mode # Run

\* A program that has executed `finish' (or has never been started) is still
\* under SwReset, so every way back to running goes through the reset branch
\* of the Control handler that reloads the program counter.
ResetBeforeRerun == pc \in {"vector", "afterFinish"} => "SwReset" \in mode

\* The GPIO lines show the enabled pending interrupts, whichever handler ran
\* last: each handler that changes one of the two masks calls IrqUpdate.
LinesFollow == irqLines = irqsEnabled \cap irqsPending

\* An interrupt once pending is withdrawn only by the host's IntrState write
\* that names it: no reset, release or second interrupt drops it.
PendingUntilCleared ==
  [][\A bit \in irqsPending \ irqsPending' :
       \E value \in SUBSET InterruptBits : bit \in value /\ WriteIntrState(value)]_vars

-----------------------------------------------------------------------------
(* The control block keeps the promise of CoreLifecycle.                   *)

phaseBar ==
  IF "SwReset" \in mode THEN "held" ELSE IF mode = Run THEN "running" ELSE "frozen"

progressBar ==
  [vector |-> "none", start |-> "none", body |-> "partial",
   afterHostReq |-> "requesting", afterFinish |-> "completed"][pc]

Lifecycle == INSTANCE CoreLifecycle WITH
  Notices  <- InterruptBits,
  phase    <- phaseBar,
  progress <- progressBar,
  notices  <- irqsPending

LifecycleSpec == Lifecycle!Spec
=============================================================================
