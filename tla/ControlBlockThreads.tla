------------------------ MODULE ControlBlockThreads ------------------------
(***************************************************************************)
(* The handlers of ControlBlock as the emulator runs them: register writes *)
(* on the host's thread, serialised by the bus, and the hostreq and finish *)
(* instructions on the core's thread, which call ExecHostReq and           *)
(* ExecFinish without any lock.  A step reads or writes one shared field.  *)
(*                                                                         *)
(* Two assumptions make this safe, and each can be switched off:           *)
(*   PoliteHost   once it has set the core running, with every interrupt   *)
(*                enabled and none pending, the host leaves the interrupt  *)
(*                registers alone until a line tells it the core stopped   *)
(*                or it has stopped the core itself; its Control writes do *)
(*                not arrive while the program is stopping itself; and it  *)
(*                tests its interrupt path with IntrTest only before it    *)
(*                first starts the core;                                   *)
(*   SlowProgram  the program does not stop itself while a Control write   *)
(*                is in progress.                                          *)
(***************************************************************************)
EXTENDS Naturals, Sequences

CONSTANTS LineOrder,     \* the interrupt bits in the order IrqUpdate sets their lines
          PoliteHost,
          SlowProgram

InterruptBits == {LineOrder[i] : i \in DOMAIN LineOrder}

ASSUME LineAssumption ==
  /\ LineOrder \in Seq(STRING)
  /\ \A i, j \in DOMAIN LineOrder : LineOrder[i] = LineOrder[j] => i = j
  /\ {"HostReq", "Finish"} \subseteq InterruptBits
ASSUME DisciplineAssumption == PoliteHost \in BOOLEAN /\ SlowProgram \in BOOLEAN

VARIABLES mode, halted, pc, irqsPending, irqsEnabled, irqLines,  \* as in ControlBlock
          thread,    \* what each thread is doing, see Frame
          knows,     \* the host takes the core to be stopped: it was told, or has
                     \* asked for it in the Control write in progress or the last
          before     \* the shared fields when the handler in progress began

shared == <<mode, halted, pc, irqsPending, irqsEnabled, irqLines>>
vars   == <<shared, thread, knows, before>>

Mode      == SUBSET {"Freeze", "SwReset"}
Run       == {}
ResetMode == {"Freeze", "SwReset"}
Points    == {"vector", "start", "body", "afterHostReq", "afterFinish"}

\* The next step of a thread, named by what the code does there.
ControlSteps == {"pauseTest", "pause", "resetTest", "resetHalt", "resetMode",
                 "setPC", "resumeTest", "unhalt", "setMode"}
CoreSteps    == {"runTest", "halt", "stopMode"}
IrqSteps     == {"pendRead", "pendWrite", "enable", "enabledRead", "pendingRead", "line"}
Steps        == {"idle"} \cup ControlSteps \cup CoreSteps \cup IrqSteps

\* arg: the value written, or the bit the instruction raises; clears: whether
\* arg is removed from irqsPending or added to it; seen: a local copy; line:
\* the next GPIO to set.
Frame == [at : Steps, arg : (SUBSET InterruptBits) \cup Mode, clears : BOOLEAN,
          seen : SUBSET InterruptBits, line : DOMAIN LineOrder]

Idle == [at |-> "idle", arg |-> {}, clears |-> FALSE, seen |-> {}, line |-> 1]

Fields == [mode : Mode, halted : BOOLEAN, pc : Points, irqsPending : SUBSET InterruptBits,
           irqsEnabled : SUBSET InterruptBits, irqLines : SUBSET InterruptBits]

Snapshot == [mode |-> mode, halted |-> halted, pc |-> pc, irqsPending |-> irqsPending,
             irqsEnabled |-> irqsEnabled, irqLines |-> irqLines]

TypeOK ==
  /\ Snapshot \in Fields
  /\ thread \in [{"host", "core"} -> Frame]
  /\ knows \in BOOLEAN
  /\ before \in Fields

Init ==
  /\ mode = ResetMode
  /\ halted = TRUE
  /\ pc = "vector"
  /\ irqsPending = {}
  /\ irqsEnabled = {}
  /\ irqLines = {}
  /\ thread = [t \in {"host", "core"} |-> Idle]
  /\ knows = TRUE
  /\ before = Snapshot

At(t, step) == thread[t].at = step
Arg(t)      == thread[t].arg
Goto(t, step) == thread' = [thread EXCEPT ![t].at = step]
Return(t)     == thread' = [thread EXCEPT ![t] = Idle]

Begin(t, step, arg, clears) ==
  /\ At(t, "idle")
  /\ thread' = [thread EXCEPT ![t].at = step, ![t].arg = arg, ![t].clears = clears]
  /\ before' = Snapshot

-----------------------------------------------------------------------------
(* The Control handler, on the host's thread.                              *)

BeginControl(newMode) ==
  /\ PoliteHost => /\ knows \/ At("core", "idle")
                   /\ newMode = Run => irqsPending = {} /\ irqsEnabled = InterruptBits
  /\ Begin("host", "pauseTest", newMode, FALSE)
  /\ knows' = (newMode # Run)
  /\ UNCHANGED shared

PauseTest ==
  /\ At("host", "pauseTest")
  /\ Goto("host", IF mode = Run /\ Arg("host") # Run THEN "pause" ELSE "resetTest")
  /\ UNCHANGED <<shared, knows, before>>

PauseCore ==
  /\ At("host", "pause")
  /\ halted' = TRUE
  /\ Goto("host", "resetTest")
  /\ UNCHANGED <<mode, pc, irqsPending, irqsEnabled, irqLines, knows, before>>

ResetTest ==
  /\ At("host", "resetTest")
  /\ Goto("host", IF "SwReset" \in mode /\ "SwReset" \notin Arg("host")
                  THEN "resetHalt" ELSE "resumeTest")
  /\ UNCHANGED <<shared, knows, before>>

\* Faulty variant: the reset skips the program counter.
ResetHaltOnly ==
  /\ At("host", "resetHalt")
  /\ halted' = TRUE
  /\ Goto("host", "resumeTest")
  /\ UNCHANGED <<mode, pc, irqsPending, irqsEnabled, irqLines, knows, before>>

ResetHalt ==
  /\ At("host", "resetHalt")
  /\ halted' = TRUE
  /\ Goto("host", "resetMode")
  /\ UNCHANGED <<mode, pc, irqsPending, irqsEnabled, irqLines, knows, before>>

ResetControlBlock ==
  /\ At("host", "resetMode")
  /\ mode' = ResetMode
  /\ Goto("host", "setPC")
  /\ UNCHANGED <<halted, pc, irqsPending, irqsEnabled, irqLines, knows, before>>

SetPC ==
  /\ At("host", "setPC")
  /\ pc' = "start"
  /\ Goto("host", "resumeTest")
  /\ UNCHANGED <<mode, halted, irqsPending, irqsEnabled, irqLines, knows, before>>

ResumeTest ==
  /\ At("host", "resumeTest")
  /\ Goto("host", IF mode # Run /\ Arg("host") = Run THEN "unhalt" ELSE "setMode")
  /\ UNCHANGED <<shared, knows, before>>

Unhalt ==
  /\ At("host", "unhalt")
  /\ halted' = FALSE
  /\ Goto("host", "setMode")
  /\ UNCHANGED <<mode, pc, irqsPending, irqsEnabled, irqLines, knows, before>>

\* Faulty variant: the new mode is not stored.
SetModeForgotten ==
  /\ At("host", "setMode")
  /\ Return("host")
  /\ UNCHANGED <<shared, knows, before>>

SetMode ==
  /\ At("host", "setMode")
  /\ mode' = Arg("host")
  /\ Return("host")
  /\ UNCHANGED <<halted, pc, irqsPending, irqsEnabled, irqLines, knows, before>>

Control ==
  \/ \E newMode \in Mode : BeginControl(newMode)
  \/ PauseTest \/ PauseCore \/ ResetTest \/ ResetHalt \/ ResetControlBlock
  \/ SetPC \/ ResumeTest \/ Unhalt \/ SetMode

-----------------------------------------------------------------------------
(* Changing irqsPending, and IrqUpdate: the same code on either thread.    *)

PendRead(t) ==
  /\ At(t, "pendRead")
  /\ thread' = [thread EXCEPT ![t].at = "pendWrite", ![t].seen = irqsPending]
  /\ UNCHANGED <<shared, knows, before>>

\* Faulty variants: a clear drops every bit; IrqUpdate is not called.
PendWriteClearingAll(t) ==
  /\ At(t, "pendWrite")
  /\ irqsPending' = IF thread[t].clears THEN {} ELSE thread[t].seen \cup Arg(t)
  /\ Goto(t, "enabledRead")
  /\ UNCHANGED <<mode, halted, pc, irqsEnabled, irqLines, knows, before>>

PendWriteSilently(t) ==
  /\ At(t, "pendWrite")
  /\ irqsPending' = IF thread[t].clears THEN thread[t].seen \ Arg(t)
                                        ELSE thread[t].seen \cup Arg(t)
  /\ Return(t)
  /\ UNCHANGED <<mode, halted, pc, irqsEnabled, irqLines, knows, before>>

PendWrite(t) ==
  /\ At(t, "pendWrite")
  /\ irqsPending' = IF thread[t].clears THEN thread[t].seen \ Arg(t)
                                        ELSE thread[t].seen \cup Arg(t)
  /\ Goto(t, "enabledRead")
  /\ UNCHANGED <<mode, halted, pc, irqsEnabled, irqLines, knows, before>>

EnabledRead(t) ==
  /\ At(t, "enabledRead")
  /\ thread' = [thread EXCEPT ![t].at = "pendingRead", ![t].seen = irqsEnabled]
  /\ UNCHANGED <<shared, knows, before>>

PendingRead(t) ==
  /\ At(t, "pendingRead")
  /\ thread' = [thread EXCEPT ![t].at = "line", ![t].seen = @ \cap irqsPending]
  /\ UNCHANGED <<shared, knows, before>>

\* Faulty variant: it goes on past the last line.
SetLinePastEnd(t) ==
  LET bit == LineOrder[thread[t].line]
  IN  /\ At(t, "line")
      /\ irqLines' = IF bit \in thread[t].seen THEN irqLines \cup {bit} ELSE irqLines \ {bit}
      /\ thread' = [thread EXCEPT ![t].line = @ + 1]
      /\ UNCHANGED <<mode, halted, pc, irqsPending, irqsEnabled, knows, before>>

SetLine(t) ==
  LET bit == LineOrder[thread[t].line]
  IN  /\ At(t, "line")
      /\ irqLines' = IF bit \in thread[t].seen THEN irqLines \cup {bit} ELSE irqLines \ {bit}
      /\ IF thread[t].line = Len(LineOrder)
         THEN Return(t)
         ELSE thread' = [thread EXCEPT ![t].line = @ + 1]
      /\ UNCHANGED <<mode, halted, pc, irqsPending, irqsEnabled, knows, before>>

Interrupts(t) ==
  \/ PendRead(t) \/ PendWrite(t) \/ EnabledRead(t) \/ PendingRead(t) \/ SetLine(t)

-----------------------------------------------------------------------------
(* The interrupt registers, on the host's thread.                          *)

BeginIntrState(value) ==
  /\ PoliteHost => knows
  /\ Begin("host", "pendRead", value, TRUE)
  /\ UNCHANGED <<shared, knows>>

BeginIntrTest(value) ==
  /\ PoliteHost => pc = "vector"
  /\ Begin("host", "pendRead", value, FALSE)
  /\ UNCHANGED <<shared, knows>>

BeginIntrEnable(value) ==
  /\ PoliteHost => knows
  /\ Begin("host", "enable", value, FALSE)
  /\ UNCHANGED <<shared, knows>>

Enable ==
  /\ At("host", "enable")
  /\ irqsEnabled' = Arg("host")
  /\ Goto("host", "enabledRead")
  /\ UNCHANGED <<mode, halted, pc, irqsPending, irqLines, knows, before>>

\* A raised line reaches the host.
TakeInterrupt ==
  /\ At("host", "idle")
  /\ ~knows
  /\ irqLines # {}
  /\ knows' = TRUE
  /\ UNCHANGED <<shared, thread, before>>

IntrRegisters ==
  \/ \E value \in SUBSET InterruptBits :
       BeginIntrState(value) \/ BeginIntrTest(value) \/ BeginIntrEnable(value)
  \/ Enable
  \/ TakeInterrupt

-----------------------------------------------------------------------------
(* The core's thread.                                                      *)

\* Executed while the host is in a handler, it counts as having preceded it.
Execute ==
  /\ At("core", "idle")
  /\ ~halted
  /\ pc' = "body"
  /\ before' = [before EXCEPT !.pc = "body"]
  /\ UNCHANGED <<mode, halted, irqsPending, irqsEnabled, irqLines, thread, knows>>

\* The core fetches hostreq or finish and enters ExecHostReq or ExecFinish.
BeginStop(bit) ==
  /\ ~halted
  /\ SlowProgram => thread["host"].at \notin ControlSteps
  /\ Begin("core", "runTest", {bit}, FALSE)
  /\ pc' = [HostReq |-> "afterHostReq", Finish |-> "afterFinish"][bit]
  /\ UNCHANGED <<mode, halted, irqsPending, irqsEnabled, irqLines, knows>>

\* The test of the mode decides only what is logged.
RunTest ==
  /\ At("core", "runTest")
  /\ Goto("core", "halt")
  /\ UNCHANGED <<shared, knows, before>>

HaltSelf ==
  /\ At("core", "halt")
  /\ halted' = TRUE
  /\ Goto("core", "stopMode")
  /\ UNCHANGED <<mode, pc, irqsPending, irqsEnabled, irqLines, knows, before>>

\* Faulty variant: finish only freezes.
StopModeFreezing ==
  /\ At("core", "stopMode")
  /\ mode' = {"Freeze"}
  /\ Goto("core", "pendRead")
  /\ UNCHANGED <<halted, pc, irqsPending, irqsEnabled, irqLines, knows, before>>

StopMode ==
  /\ At("core", "stopMode")
  /\ mode' = IF "Finish" \in Arg("core") THEN ResetMode ELSE {"Freeze"}
  /\ Goto("core", "pendRead")
  /\ UNCHANGED <<halted, pc, irqsPending, irqsEnabled, irqLines, knows, before>>

CoreThread ==
  \/ Execute
  \/ \E bit \in {"HostReq", "Finish"} : BeginStop(bit)
  \/ RunTest \/ HaltSelf \/ StopMode
  \/ Interrupts("core")

HostThread == Control \/ IntrRegisters \/ Interrupts("host")

Next == HostThread \/ CoreThread

Spec == Init /\ [][Next]_vars

\* Both threads keep being scheduled inside a handler, and a raised line is
\* eventually noticed.  Nothing obliges the host to write or the program to
\* execute.
HostProgress ==
  \/ ~At("host", "idle") /\ HostThread
  \/ TakeInterrupt
CoreProgress == RunTest \/ HaltSelf \/ StopMode \/ Interrupts("core")

FairSpec == Spec /\ WF_vars(HostProgress) /\ WF_vars(CoreProgress)

-----------------------------------------------------------------------------
(* Properties.                                                             *)

\* When the program stops itself the control block takes the core to be
\* running: the error branches of ExecHostReq and ExecFinish are not reached
\* unless somebody has cleared IsHalted by hand.
StopsOnlyWhenRunning == At("core", "runTest") => mode = Run

\* Whenever neither thread is inside a handler, a program that has finished is
\* under SwReset: the mode ExecFinish sets is not overwritten by a Control
\* write in flight.
FinishedStaysReset ==
  At("host", "idle") /\ At("core", "idle") /\ pc = "afterFinish" => "SwReset" \in mode

\* A pending interrupt is withdrawn only by an IntrState write that names it:
\* the read-modify-writes of the two threads lose no bit.
WithdrawnByName ==
  [][\A bit \in irqsPending \ irqsPending' :
       At("host", "pendWrite") /\ thread["host"].clears /\ bit \in Arg("host")]_vars

\* A program that executes finish is reported: the host learns of it.
FinishReported == At("core", "runTest") /\ Arg("core") = {"Finish"} ~> knows

-----------------------------------------------------------------------------
(* Refinement of ControlBlock.  A handler takes effect at one of its steps: *)
(* Control when it unhalts the core or, if it does not, when only the final *)
(* assignment of the mode is left; the interrupt registers when they        *)
(* return; ExecHostReq and ExecFinish when they set their own line.  Until  *)
(* then the abstract state is the one the handler found.                    *)

HostBusy == ~At("host", "idle") /\ ~At("host", "setMode")

CoreBusy ==
  \/ /\ At("core", "line")
     /\ \E i \in thread["core"].line..Len(LineOrder) : LineOrder[i] \in Arg("core")
  \/ ~At("core", "idle") /\ ~At("core", "line")

Effective(field) ==
  CASE HostBusy \/ CoreBusy -> before[field]
    [] At("host", "setMode") /\ field = "mode" -> Arg("host")
    [] OTHER -> Snapshot[field]

Atomic == INSTANCE ControlBlock WITH
  mode        <- Effective("mode"),
  halted      <- Effective("halted"),
  pc          <- Effective("pc"),
  irqsPending <- Effective("irqsPending"),
  irqsEnabled <- Effective("irqsEnabled"),
  irqLines    <- Effective("irqLines")

AtomicSpec == Atomic!Spec
=============================================================================
