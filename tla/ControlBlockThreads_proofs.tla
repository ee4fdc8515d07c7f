---------------------- MODULE ControlBlockThreads_proofs ----------------------
(***************************************************************************)
(* Theorems about ControlBlockThreads, for every order of the interrupt    *)
(* lines.  The types, and what the overlaps of the two threads can break   *)
(* and nothing else can, need no discipline.  That the handlers behave as  *)
(* if they were atomic, in the overlaps that are left, needs PoliteHost    *)
(* and SlowProgram, which are hypotheses of those theorems.                *)
(***************************************************************************)
EXTENDS ControlBlockThreads, TLAPS

-----------------------------------------------------------------------------
(* The invariant.  Its first part holds without any discipline.            *)

Threads == {"host", "core"}

\* A value read or written where a mode is expected is a mode, and where a set
\* of interrupts is expected it is one.
FramesFit ==
  /\ thread["host"].at \notin CoreSteps
  /\ thread["core"].at \notin ControlSteps \cup {"enable"}
  /\ thread["host"].at \in ControlSteps => Arg("host") \in Mode
  /\ thread["host"].at \in {"pendRead", "pendWrite", "enable"} =>
       Arg("host") \in SUBSET InterruptBits
  /\ ~At("core", "idle") => Arg("core") \in {{"HostReq"}, {"Finish"}}
  /\ \A t \in Threads : ~At(t, "line") => thread[t].line = 1

FrameInv == TypeOK /\ FramesFit

LinesFollow == irqLines = irqsEnabled \cap irqsPending

\* What the host leaves the interrupts at before it starts the core.
Clean == irqsPending = {} /\ irqsEnabled = InterruptBits /\ irqLines = {}

StopOf(bit) == IF bit = {"Finish"} THEN ResetMode ELSE {"Freeze"}
PointOf(bit) == IF bit = {"Finish"} THEN "afterFinish" ELSE "afterHostReq"

\* The program is stopping itself, and the host does not know yet: it has the
\* control block to itself until it raises its own line.
StoppingInv ==
  CoreBusy =>
    /\ At("host", "idle")
    /\ ~knows
    /\ irqsEnabled = InterruptBits
    /\ irqLines = {}
    /\ pc = PointOf(Arg("core"))
    /\ thread["core"].at \in {"runTest", "halt"} <=> ~halted
    /\ mode = IF thread["core"].at \in CoreSteps THEN Run ELSE StopOf(Arg("core"))
    /\ irqsPending = IF thread["core"].at \in CoreSteps \cup {"pendRead", "pendWrite"}
                     THEN {} ELSE Arg("core")
    /\ At("core", "pendWrite") => thread["core"].seen = {}
    /\ At("core", "pendingRead") => thread["core"].seen = InterruptBits
    /\ At("core", "line") => thread["core"].seen = Arg("core")
    /\ ~thread["core"].clears
    /\ ~before.halted
    /\ before.irqsPending = {}
    /\ before.irqsEnabled = InterruptBits

\* Once its line is raised the core still lowers the lines behind it, while the
\* host may already be at work.  None of them is up.
TailInv ==
  At("core", "line") /\ ~CoreBusy =>
    /\ thread["core"].seen = Arg("core")
    /\ irqsPending \subseteq Arg("core")
    /\ irqLines \subseteq Arg("core")
    /\ pc # "vector"

\* Between handlers the host sees a consistent control block.
IdleInv ==
  At("host", "idle") /\ ~CoreBusy =>
    /\ halted <=> mode # Run
    /\ LinesFollow
    /\ mode = Run => Clean /\ ~knows
    /\ pc \in {"vector", "afterFinish"} => "SwReset" \in mode

Releasing == "SwReset" \in before.mode /\ "SwReset" \notin Arg("host")

\* Up to the last assignment of Control the fields are those the write found,
\* changed as far as it has come.
UnfinishedControl ==
  /\ before.irqsPending = irqsPending
  /\ before.irqsEnabled = irqsEnabled
  /\ before.irqLines = irqLines
  /\ before.halted <=> before.mode # Run
  /\ before.pc \in {"vector", "afterFinish"} => "SwReset" \in before.mode
  /\ mode = IF thread["host"].at \in {"setPC", "resumeTest", "unhalt"} /\ Releasing
            THEN ResetMode ELSE before.mode
  /\ pc = IF thread["host"].at \in {"resumeTest", "unhalt"} /\ Releasing
          THEN "start" ELSE before.pc
  /\ thread["host"].at \in {"pauseTest", "pause"} => halted = before.halted
  /\ At("host", "pause") => mode = Run /\ Arg("host") # Run
  /\ thread["host"].at \in {"resetTest", "resumeTest"} =>
       (halted <=> mode # Run \/ Arg("host") # Run)
  /\ thread["host"].at \in {"resetHalt", "resetMode", "setPC"} => Releasing /\ halted
  /\ At("host", "unhalt") => mode # Run /\ Arg("host") = Run /\ halted

\* Inside Control the core may be running, at its own instructions only.
ControlInv ==
  thread["host"].at \in ControlSteps =>
    /\ LinesFollow
    /\ ~halted \/ mode = Run \/ Arg("host") = Run => Clean
    /\ knows <=> Arg("host") # Run
    /\ At("host", "setMode") =>
         /\ halted <=> Arg("host") # Run
         /\ pc \in {"vector", "afterFinish"} => "SwReset" \in Arg("host")
    /\ ~At("host", "setMode") => UnfinishedControl

\* What an interrupt register has done so far.
PendingChanged ==
  /\ irqsEnabled = before.irqsEnabled
  /\ \E value \in SUBSET InterruptBits :
       \/ irqsPending = before.irqsPending \ value
       \/ irqsPending = before.irqsPending \cup value
EnabledChanged == irqsPending = before.irqsPending /\ irqsEnabled \in SUBSET InterruptBits

\* Inside an interrupt register's handler the core is stopped.
Stopped ==
  /\ halted
  /\ mode # Run
  /\ pc \in {"vector", "afterFinish"} => "SwReset" \in mode
  /\ before.mode = mode
  /\ before.halted = halted
  /\ before.pc = pc

\* Nothing is changed yet.
BeforeChange ==
  thread["host"].at \in {"pendRead", "pendWrite", "enable"} =>
    /\ before = Snapshot
    /\ LinesFollow
    /\ ~At("host", "enable") /\ ~thread["host"].clears => pc = "vector"
    /\ At("host", "pendWrite") => thread["host"].seen = irqsPending

\* The lines up to the one to set next show what was seen.
LinesSoFar ==
  /\ thread["host"].seen = irqsEnabled \cap irqsPending
  /\ \A i \in 1..Len(LineOrder) :
       i < thread["host"].line =>
         (LineOrder[i] \in irqLines <=> LineOrder[i] \in thread["host"].seen)

\* IrqUpdate is under way.
AfterChange ==
  thread["host"].at \in {"enabledRead", "pendingRead", "line"} =>
    /\ PendingChanged \/ EnabledChanged
    /\ At("host", "pendingRead") => thread["host"].seen = irqsEnabled
    /\ At("host", "line") => LinesSoFar

RegisterInv ==
  thread["host"].at \in IrqSteps => Stopped /\ BeforeChange /\ AfterChange

DisciplineInv ==
  /\ FrameInv
  /\ StoppingInv
  /\ TailInv
  /\ IdleInv
  /\ ControlInv
  /\ RegisterInv
-----------------------------------------------------------------------------
(* Frames.                                                                 *)

\* The interrupt bits are the lines' names, and there is a first line.
LEMMA Lines ==
  /\ LineOrder \in Seq(InterruptBits)
  /\ Len(LineOrder) \in Nat \ {0}
  /\ DOMAIN LineOrder = 1..Len(LineOrder)
  /\ \A i \in 1..Len(LineOrder) : LineOrder[i] \in InterruptBits
  /\ \A bit \in InterruptBits : \E i \in 1..Len(LineOrder) : LineOrder[i] = bit
  /\ {"HostReq"} \in SUBSET InterruptBits
  /\ {"Finish"} \in SUBSET InterruptBits
<1>1. DOMAIN LineOrder = 1..Len(LineOrder) /\ Len(LineOrder) \in Nat
  BY LineAssumption
<1>2. \A i \in 1..Len(LineOrder) : LineOrder[i] \in InterruptBits
  BY <1>1 DEF InterruptBits
<1>3. \A bit \in InterruptBits : \E i \in 1..Len(LineOrder) : LineOrder[i] = bit
  BY <1>1 DEF InterruptBits
<1>4. Len(LineOrder) # 0
  BY <1>1, <1>3, LineAssumption
<1>5. LineOrder \in Seq(InterruptBits)
  BY <1>1, <1>2, LineAssumption
<1> QED
  BY <1>1, <1>2, <1>3, <1>4, <1>5, LineAssumption

\* Goto changes where its thread stands and nothing else.
LEMMA GotoFrame ==
  ASSUME thread \in [Threads -> Frame], NEW t \in Threads, NEW step \in Steps, Goto(t, step)
  PROVE  /\ thread' \in [Threads -> Frame]
         /\ thread'[t].at = step
         /\ thread'[t].arg = thread[t].arg
         /\ thread'[t].clears = thread[t].clears
         /\ thread'[t].seen = thread[t].seen
         /\ thread'[t].line = thread[t].line
         /\ \A u \in Threads \ {t} : thread'[u] = thread[u]
  BY DEF Goto, Frame

\* Return leaves its thread idle.
LEMMA ReturnFrame ==
  ASSUME thread \in [Threads -> Frame], NEW t \in Threads, Return(t)
  PROVE  /\ thread' \in [Threads -> Frame]
         /\ thread'[t] = Idle
         /\ \A u \in Threads \ {t} : thread'[u] = thread[u]
<1>1. Idle \in Frame
  BY Lines DEF Idle, Frame, Steps
<1> QED
  BY <1>1 DEF Return

\* Begin fills in the frame of an idle thread and takes the snapshot.
LEMMA BeginFrame ==
  ASSUME thread \in [Threads -> Frame], NEW t \in Threads, NEW step \in Steps,
         NEW arg \in (SUBSET InterruptBits) \cup Mode, NEW clears \in BOOLEAN,
         Begin(t, step, arg, clears)
  PROVE  /\ thread' \in [Threads -> Frame]
         /\ thread'[t].at = step
         /\ thread'[t].arg = arg
         /\ thread'[t].clears = clears
         /\ thread'[t].seen = thread[t].seen
         /\ thread'[t].line = thread[t].line
         /\ \A u \in Threads \ {t} : thread'[u] = thread[u]
         /\ At(t, "idle")
         /\ before' = Snapshot
  BY DEF Begin, Frame

\* The fields of the snapshot are the shared fields.
LEMMA SharedTypes ==
  Snapshot \in Fields <=>
    /\ mode \in Mode
    /\ halted \in BOOLEAN
    /\ pc \in Points
    /\ irqsPending \in SUBSET InterruptBits
    /\ irqsEnabled \in SUBSET InterruptBits
    /\ irqLines \in SUBSET InterruptBits
  BY DEF Snapshot, Fields

-----------------------------------------------------------------------------
(* Types.                                                                  *)

\* A step of Control before its last assignment keeps the types.
LEMMA ControlFrame ==
  ASSUME FrameInv, NEW step \in ControlSteps, thread["host"].at \in ControlSteps,
         Goto("host", step),
         mode' \in Mode, halted' \in BOOLEAN, pc' \in Points,
         UNCHANGED <<irqsPending, irqsEnabled, irqLines, knows, before>>
  PROVE  FrameInv'
<1> USE DEF FrameInv, TypeOK
<1>1. Snapshot' \in Fields'
  BY SharedTypes DEF Snapshot, Fields
<1>2. thread' \in [Threads -> Frame] /\ thread'["host"].at = step
      /\ thread'["host"].arg = thread["host"].arg /\ thread'["host"].line = thread["host"].line
      /\ thread'["core"] = thread["core"]
  BY GotoFrame DEF Threads, Steps
<1>3. FramesFit'
  BY <1>2 DEF FramesFit, Arg, At, Threads, ControlSteps, CoreSteps
<1> QED
  BY <1>1, <1>2, <1>3 DEF Threads
\* The handlers that both threads run keep the types.
LEMMA InterruptFrame ==
  ASSUME FrameInv, NEW t \in Threads, Interrupts(t)
  PROVE  FrameInv'
<1> USE DEF FrameInv, TypeOK
<1>0. thread \in [Threads -> Frame]
  BY DEF Threads
<1>1. CASE PendRead(t)
  <2>1. /\ thread' \in [Threads -> Frame]
        /\ thread'[t].at = "pendWrite"
        /\ thread'[t].arg = thread[t].arg
        /\ thread'[t].line = thread[t].line
        /\ \A u \in Threads \ {t} : thread'[u] = thread[u]
    BY <1>0, <1>1, SharedTypes DEF PendRead, Frame, Steps, IrqSteps
  <2>2. FramesFit'
    BY <1>1, <2>1 DEF PendRead, FramesFit, Arg, At, Threads, ControlSteps, CoreSteps
  <2> QED
    BY <1>1, <2>1, <2>2 DEF PendRead, shared, Snapshot, Fields, Threads
<1>2. CASE PendWrite(t)
  <2>1. /\ thread' \in [Threads -> Frame]
        /\ thread'[t].at = "enabledRead"
        /\ thread'[t].arg = thread[t].arg
        /\ thread'[t].line = thread[t].line
        /\ \A u \in Threads \ {t} : thread'[u] = thread[u]
    BY <1>0, <1>2, GotoFrame DEF PendWrite, Steps, IrqSteps
  <2>2. FramesFit'
    BY <1>2, <2>1 DEF PendWrite, FramesFit, Arg, At, Threads, ControlSteps, CoreSteps
  <2>3. thread[t].seen \in SUBSET InterruptBits /\ Arg(t) \in SUBSET InterruptBits
    BY <1>0, <1>2, Lines DEF PendWrite, FramesFit, Arg, At, Threads, Frame
  <2>4. irqsPending' \in SUBSET InterruptBits
    BY <1>2, <2>3 DEF PendWrite
  <2> QED
    BY <1>2, <2>1, <2>2, <2>4, SharedTypes DEF PendWrite, Snapshot, Fields, Threads
<1>3. CASE EnabledRead(t)
  <2>1. /\ thread' \in [Threads -> Frame]
        /\ thread'[t].at = "pendingRead"
        /\ thread'[t].arg = thread[t].arg
        /\ thread'[t].line = thread[t].line
        /\ \A u \in Threads \ {t} : thread'[u] = thread[u]
    BY <1>0, <1>3, SharedTypes DEF EnabledRead, Frame, Steps, IrqSteps
  <2>2. FramesFit'
    BY <1>3, <2>1 DEF EnabledRead, FramesFit, Arg, At, Threads, ControlSteps, CoreSteps
  <2> QED
    BY <1>3, <2>1, <2>2 DEF EnabledRead, shared, Snapshot, Fields, Threads
<1>4. CASE PendingRead(t)
  <2>1. /\ thread' \in [Threads -> Frame]
        /\ thread'[t].at = "line"
        /\ thread'[t].arg = thread[t].arg
        /\ thread'[t].line = thread[t].line
        /\ \A u \in Threads \ {t} : thread'[u] = thread[u]
    BY <1>0, <1>4, SharedTypes DEF PendingRead, Frame, Steps, IrqSteps
  <2>2. FramesFit'
    BY <1>4, <2>1 DEF PendingRead, FramesFit, Arg, At, Threads, ControlSteps, CoreSteps
  <2> QED
    BY <1>4, <2>1, <2>2 DEF PendingRead, shared, Snapshot, Fields, Threads
<1>5. CASE SetLine(t)
  <2>1. thread[t].line \in 1..Len(LineOrder) /\ Len(LineOrder) \in Nat
    BY <1>0, Lines DEF Frame
  <2>2. irqLines' \in SUBSET InterruptBits
    BY <1>5, <2>1, Lines, SharedTypes DEF SetLine
  <2>3. CASE thread[t].line = Len(LineOrder)
    <3>1. /\ thread' \in [Threads -> Frame]
          /\ thread'[t] = Idle
          /\ \A u \in Threads \ {t} : thread'[u] = thread[u]
      BY <1>0, <1>5, <2>3, ReturnFrame DEF SetLine
    <3>2. FramesFit'
      BY <1>5, <3>1 DEF SetLine, FramesFit, Arg, At, Idle, Threads, ControlSteps, CoreSteps
    <3> QED
      BY <1>5, <2>2, <3>1, <3>2, SharedTypes DEF SetLine, Snapshot, Fields, Threads
  <2>4. CASE thread[t].line # Len(LineOrder)
    <3>1. thread[t].line + 1 \in DOMAIN LineOrder
      BY <2>1, <2>4, Lines
    <3>2. thread' = [thread EXCEPT ![t].line = @ + 1]
      BY <1>5, <2>4 DEF SetLine
    <3>3. /\ thread' \in [Threads -> Frame]
          /\ thread'[t].at = thread[t].at
          /\ thread'[t].arg = thread[t].arg
          /\ \A u \in Threads \ {t} : thread'[u] = thread[u]
      BY <1>0, <3>1, <3>2 DEF Frame
    <3>4. FramesFit'
      BY <1>5, <3>3 DEF SetLine, FramesFit, Arg, At, Threads, ControlSteps, CoreSteps
    <3> QED
      BY <1>5, <2>2, <3>3, <3>4, SharedTypes DEF SetLine, Snapshot, Fields, Threads
  <2> QED
    BY <2>3, <2>4
<1> QED
  BY <1>1, <1>2, <1>3, <1>4, <1>5 DEF Interrupts

\* Entering a handler keeps the types, if its argument is of the right kind.
LEMMA BeginFrameInv ==
  ASSUME FrameInv, NEW t \in Threads, NEW step \in Steps,
         NEW arg \in (SUBSET InterruptBits) \cup Mode, NEW clears \in BOOLEAN,
         Begin(t, step, arg, clears),
         t = "host" => step \in {"pauseTest", "pendRead", "enable"},
         step = "pauseTest" => arg \in Mode,
         step \in {"pendRead", "enable"} => arg \in SUBSET InterruptBits,
         t = "core" => step = "runTest" /\ arg \in {{"HostReq"}, {"Finish"}},
         pc' \in Points, knows' \in BOOLEAN,
         UNCHANGED <<mode, halted, irqsPending, irqsEnabled, irqLines>>
  PROVE  FrameInv'
<1> USE DEF FrameInv, TypeOK
<1>1. /\ thread' \in [Threads -> Frame]
      /\ thread'[t].at = step
      /\ thread'[t].arg = arg
      /\ thread'[t].line = thread[t].line
      /\ \A u \in Threads \ {t} : thread'[u] = thread[u]
      /\ At(t, "idle")
      /\ before' = Snapshot
  BY BeginFrame DEF Threads
<1>2. FramesFit'
  BY <1>1 DEF FramesFit, Arg, At, Threads, ControlSteps, CoreSteps
<1> QED
  BY <1>1, <1>2, SharedTypes DEF Snapshot, Fields, Threads

\* Every step keeps the types, whatever the discipline.
LEMMA FrameStep ==
  ASSUME FrameInv, [Next]_vars
  PROVE  FrameInv'
<1> USE DEF Threads
<1>0. thread \in [Threads -> Frame] /\ knows \in BOOLEAN /\ Snapshot \in Fields /\ before \in Fields
  BY DEF FrameInv, TypeOK
<1>1. ASSUME NEW newMode \in Mode, BeginControl(newMode) PROVE FrameInv'
  <2>1. "pauseTest" \in Steps /\ newMode \in (SUBSET InterruptBits) \cup Mode
    BY DEF Steps, ControlSteps
  <2>2. Begin("host", "pauseTest", newMode, FALSE) /\ knows' \in BOOLEAN /\ UNCHANGED shared
    BY <1>1 DEF BeginControl
  <2> QED
    BY <1>0, <2>1, <2>2, SharedTypes, BeginFrameInv DEF shared
<1>2. CASE PauseTest \/ PauseCore \/ ResetTest \/ ResetHalt \/ ResetControlBlock
            \/ SetPC \/ ResumeTest \/ Unhalt
  <2>1. PICK step \in ControlSteps : Goto("host", step)
    BY <1>2 DEF PauseTest, PauseCore, ResetTest, ResetHalt, ResetControlBlock, SetPC,
                ResumeTest, Unhalt, ControlSteps
  <2>2. thread["host"].at \in ControlSteps
    BY <1>2 DEF PauseTest, PauseCore, ResetTest, ResetHalt, ResetControlBlock, SetPC,
                ResumeTest, Unhalt, ControlSteps, At
  <2>3. /\ mode' \in Mode /\ halted' \in BOOLEAN /\ pc' \in Points
        /\ UNCHANGED <<irqsPending, irqsEnabled, irqLines, knows, before>>
    BY <1>0, <1>2, SharedTypes
       DEF PauseTest, PauseCore, ResetTest, ResetHalt, ResetControlBlock, SetPC,
           ResumeTest, Unhalt, Mode, ResetMode, Points, shared
  <2> QED
    BY <2>1, <2>2, <2>3, ControlFrame
<1>3. CASE SetMode
  <2>1. /\ thread' \in [Threads -> Frame]
        /\ thread'["host"] = Idle
        /\ thread'["core"] = thread["core"]
    BY <1>0, <1>3, ReturnFrame DEF SetMode
  <2>2. Arg("host") \in Mode
    BY <1>3 DEF SetMode, FrameInv, FramesFit, At, ControlSteps
  <2>3. FramesFit'
    BY <2>1 DEF FrameInv, FramesFit, At, Arg, Idle, ControlSteps, CoreSteps
  <2> QED
    BY <1>0, <1>3, <2>1, <2>2, <2>3, SharedTypes DEF SetMode, FrameInv, TypeOK, Snapshot, Fields
<1>4. ASSUME NEW value \in SUBSET InterruptBits,
             BeginIntrState(value) \/ BeginIntrTest(value) \/ BeginIntrEnable(value)
      PROVE  FrameInv'
  <2>1. PICK step \in {"pendRead", "enable"}, clears \in BOOLEAN : Begin("host", step, value, clears)
    BY <1>4 DEF BeginIntrState, BeginIntrTest, BeginIntrEnable
  <2>2. UNCHANGED <<mode, halted, pc, irqsPending, irqsEnabled, irqLines, knows>>
    BY <1>4 DEF BeginIntrState, BeginIntrTest, BeginIntrEnable, shared
  <2>3. step \in Steps /\ value \in (SUBSET InterruptBits) \cup Mode
    BY DEF Steps, IrqSteps
  <2> QED
    BY <1>0, <2>1, <2>2, <2>3, SharedTypes, BeginFrameInv
<1>5. CASE Enable
  <2>1. /\ thread' \in [Threads -> Frame]
        /\ thread'["host"].at = "enabledRead"
        /\ thread'["host"].arg = thread["host"].arg
        /\ thread'["host"].line = thread["host"].line
        /\ thread'["core"] = thread["core"]
    BY <1>0, <1>5, GotoFrame DEF Enable, Steps, IrqSteps
  <2>2. Arg("host") \in SUBSET InterruptBits
    BY <1>5 DEF Enable, FrameInv, FramesFit, At
  <2>3. FramesFit'
    BY <1>5, <2>1 DEF Enable, FrameInv, FramesFit, At, Arg, ControlSteps, CoreSteps
  <2> QED
    BY <1>0, <1>5, <2>1, <2>2, <2>3, SharedTypes DEF Enable, FrameInv, TypeOK, Snapshot, Fields
<1>6. CASE TakeInterrupt
  BY <1>6 DEF TakeInterrupt, shared, FrameInv, TypeOK, FramesFit, Snapshot, At, Arg
<1>7. CASE Execute
  <2>1. pc' \in Points /\ before' \in Fields
    BY <1>0, <1>7 DEF Execute, Points, Fields
  <2>2. FramesFit'
    BY <1>7 DEF Execute, FrameInv, FramesFit, At, Arg
  <2> QED
    BY <1>0, <1>7, <2>1, <2>2, SharedTypes DEF Execute, FrameInv, TypeOK, Snapshot, Fields
<1>8. ASSUME NEW bit \in {"HostReq", "Finish"}, BeginStop(bit) PROVE FrameInv'
  <2>1. Begin("core", "runTest", {bit}, FALSE)
    BY <1>8 DEF BeginStop
  <2>2. pc' \in Points /\ UNCHANGED <<mode, halted, irqsPending, irqsEnabled, irqLines, knows>>
    BY <1>8 DEF BeginStop, Points
  <2>3. "runTest" \in Steps /\ {bit} \in (SUBSET InterruptBits) \cup Mode
    BY Lines DEF Steps, CoreSteps
  <2> QED
    BY <1>0, <2>1, <2>2, <2>3, BeginFrameInv
<1>9. CASE RunTest \/ HaltSelf \/ StopMode
  <2>1. PICK step \in {"halt", "stopMode", "pendRead"} : Goto("core", step)
    BY <1>9 DEF RunTest, HaltSelf, StopMode
  <2>2. /\ thread' \in [Threads -> Frame]
        /\ thread'["core"].at = step
        /\ thread'["core"].arg = thread["core"].arg
        /\ thread'["core"].line = thread["core"].line
        /\ thread'["host"] = thread["host"]
    BY <1>0, <2>1, GotoFrame DEF Steps, IrqSteps, CoreSteps
  <2>3. thread["core"].at \in CoreSteps
    BY <1>9 DEF RunTest, HaltSelf, StopMode, At, CoreSteps
  <2>4. FramesFit'
    BY <2>2, <2>3 DEF FrameInv, FramesFit, At, Arg, ControlSteps, CoreSteps
  <2>5. mode' \in Mode /\ halted' \in BOOLEAN
        /\ UNCHANGED <<pc, irqsPending, irqsEnabled, irqLines, knows, before>>
    BY <1>0, <1>9, SharedTypes DEF RunTest, HaltSelf, StopMode, shared, Mode, ResetMode
  <2> QED
    BY <1>0, <2>2, <2>4, <2>5, SharedTypes DEF FrameInv, TypeOK, Snapshot, Fields
<1>10. CASE UNCHANGED vars
  BY <1>10 DEF vars, shared, FrameInv, TypeOK, FramesFit, Snapshot, At, Arg
<1> QED
  BY <1>1, <1>2, <1>3, <1>4, <1>5, <1>6, <1>7, <1>8, <1>9, <1>10, InterruptFrame
     DEF Next, HostThread, CoreThread, Control, IntrRegisters

\* Both threads start idle, at power-on.
LEMMA FrameInit == Init => FrameInv
<1> SUFFICES ASSUME Init PROVE FrameInv
  OBVIOUS
<1>1. Idle \in Frame /\ thread = [t \in Threads |-> Idle]
  BY Lines DEF Init, Idle, Frame, Steps, Threads
<1>2. FramesFit
  BY <1>1 DEF FramesFit, At, Arg, Idle, Threads, ControlSteps, CoreSteps
<1>3. Snapshot \in Fields /\ before \in Fields
  BY SharedTypes DEF Init, Mode, ResetMode, Points
<1> QED
  BY <1>1, <1>2, <1>3 DEF Init, FrameInv, TypeOK, Threads

\* The shared fields, the frames of both threads and the snapshot keep their
\* types, whatever host and program do.
THEOREM TypesAreKept == Spec => []TypeOK
<1>1. FrameInv /\ [Next]_vars => FrameInv'
  BY FrameStep
<1>2. FrameInv => TypeOK
  BY DEF FrameInv
<1> QED
  BY <1>1, <1>2, FrameInit, PTL DEF Spec
-----------------------------------------------------------------------------
(* The overlaps.  What host and program may do together is not up to this  *)
(* code, so what follows assumes neither discipline: it says of each       *)
(* property that only one overlap of the two threads can break it.         *)

\* The program stops itself while the Control handler is running.
StopsDuringControl == thread["host"].at \in ControlSteps /\ thread["core"].at \in CoreSteps

\* Both threads have read irqsPending and neither has stored it yet.
BothStore == At("host", "pendWrite") /\ At("core", "pendWrite")

MustReset == pc \in {"vector", "afterFinish"}

\* While neither thread is changing the mode the control block is consistent.
NeitherInv ==
  thread["host"].at \notin ControlSteps /\ thread["core"].at \notin CoreSteps =>
    /\ halted <=> mode # Run
    /\ MustReset => "SwReset" \in mode

\* The program is stopping itself, alone.
StopInv ==
  thread["core"].at \in CoreSteps =>
    /\ mode = Run
    /\ halted <=> At("core", "stopMode")
    /\ MustReset => "Finish" \in Arg("core")

\* The host is writing Control, alone.
WriteInv ==
  /\ At("host", "pauseTest") => (halted <=> mode # Run)
  /\ At("host", "pause") => mode = Run /\ Arg("host") # Run
  /\ At("host", "resetTest") \/ At("host", "resumeTest") =>
       (halted <=> mode # Run \/ Arg("host") # Run)
  /\ thread["host"].at \in {"resetHalt", "resetMode", "setPC"} =>
       halted /\ "SwReset" \notin Arg("host")
  /\ At("host", "setPC") => mode = ResetMode
  /\ At("host", "unhalt") => mode # Run /\ Arg("host") = Run
  /\ At("host", "setMode") => (halted <=> Arg("host") # Run)
  /\ MustReset =>
       /\ thread["host"].at \in {"pauseTest", "pause", "resetTest", "resumeTest"} =>
            "SwReset" \in mode
       /\ thread["host"].at \in {"resumeTest", "unhalt", "setMode"} => "SwReset" \in Arg("host")

AloneInv == FrameInv /\ NeitherInv /\ StopInv /\ WriteInv

\* The interrupt fields are changed without touching the mode, by a thread that
\* is not at one of the steps above, nor gets there.
LEMMA InterruptsApart ==
  ASSUME FrameInv, NEW t \in Threads, Interrupts(t)
  PROVE  /\ UNCHANGED <<mode, halted, pc>>
         /\ thread[t].at \in IrqSteps
         /\ thread'[t].at \in IrqSteps \cup {"idle"}
         /\ \A u \in Threads \ {t} : thread'[u] = thread[u]
<1>0. thread \in [Threads -> Frame]
  BY DEF FrameInv, TypeOK, Threads
<1>1. CASE PendRead(t) \/ EnabledRead(t) \/ PendingRead(t)
  BY <1>0, <1>1 DEF PendRead, EnabledRead, PendingRead, shared, Frame, At, IrqSteps
<1>2. CASE PendWrite(t)
  BY <1>0, <1>2, GotoFrame DEF PendWrite, At, IrqSteps, Steps
<1>3. CASE SetLine(t)
  <2>1. UNCHANGED <<mode, halted, pc>> /\ At(t, "line")
    BY <1>3 DEF SetLine
  <2>2. CASE Return(t)
    BY <1>0, <2>1, <2>2, ReturnFrame DEF At, Idle, IrqSteps
  <2>3. CASE ~Return(t)
    <3>1. thread' = [thread EXCEPT ![t].line = @ + 1]
      BY <1>3, <2>3 DEF SetLine
    <3>2. thread'[t].at = thread[t].at /\ \A u \in Threads \ {t} : thread'[u] = thread[u]
      BY <1>0, <3>1 DEF Frame
    <3> QED
      BY <2>1, <3>2 DEF At, IrqSteps
  <2> QED
    BY <2>2, <2>3
<1> QED
  BY <1>1, <1>2, <1>3 DEF Interrupts

\* Steps that leave the mode, IsHalted and the program counter alone, and do not
\* take a thread into or out of the handlers that change them.
LEMMA ApartStep ==
  ASSUME AloneInv, FrameInv', UNCHANGED <<mode, halted, pc>>,
         \A t \in Threads :
           \/ thread'[t] = thread[t]
           \/ /\ thread[t].at \in IrqSteps \cup {"idle"}
              /\ thread'[t].at \in IrqSteps \cup {"idle"}
  PROVE  AloneInv'
<1>1. \/ thread'["host"] = thread["host"]
      \/ /\ thread["host"].at \in IrqSteps \cup {"idle"}
         /\ thread'["host"].at \in IrqSteps \cup {"idle"}
  BY DEF Threads
<1>2. \/ thread'["core"] = thread["core"]
      \/ /\ thread["core"].at \in IrqSteps \cup {"idle"}
         /\ thread'["core"].at \in IrqSteps \cup {"idle"}
  BY DEF Threads
<1>3. NeitherInv'
  BY <1>1, <1>2 DEF AloneInv, NeitherInv, MustReset, ControlSteps, CoreSteps, IrqSteps
<1>4. StopInv'
  BY <1>2 DEF AloneInv, StopInv, MustReset, CoreSteps, IrqSteps, At, Arg
<1>5. WriteInv'
  BY <1>1 DEF AloneInv, WriteInv, MustReset, IrqSteps, At, Arg
<1> QED
  BY <1>3, <1>4, <1>5 DEF AloneInv

\* A Control write finds the control block consistent and leaves it so.
LEMMA ControlAlone ==
  ASSUME AloneInv, FrameInv', ~StopsDuringControl, ~StopsDuringControl', Control
  PROVE  AloneInv'
<1>0. thread \in [Threads -> Frame]
  BY DEF AloneInv, FrameInv, TypeOK, Threads
<1> USE DEF MustReset
<1>1. ASSUME NEW newMode \in Mode, BeginControl(newMode) PROVE AloneInv'
  <2>1. /\ thread'["host"].at = "pauseTest"
        /\ thread'["core"] = thread["core"]
        /\ At("host", "idle")
    BY <1>0, <1>1, BeginFrame DEF BeginControl, Threads, Steps, ControlSteps
  <2>2. thread["core"].at \notin CoreSteps
    BY <2>1 DEF StopsDuringControl, ControlSteps
  <2>3. UNCHANGED <<mode, halted, pc>> /\ (halted <=> mode # Run)
        /\ (pc \in {"vector", "afterFinish"} => "SwReset" \in mode)
    BY <1>1, <2>1, <2>2 DEF BeginControl, shared, AloneInv, NeitherInv, ControlSteps, At
  <2>4. WriteInv'
    BY <2>1, <2>3 DEF WriteInv, At
  <2>5. NeitherInv' /\ StopInv'
    BY <2>1, <2>2 DEF NeitherInv, StopInv, ControlSteps
  <2> QED
    BY <2>4, <2>5 DEF AloneInv
<1>2. CASE PauseTest \/ PauseCore \/ ResetTest \/ ResetHalt \/ ResetControlBlock
            \/ SetPC \/ ResumeTest \/ Unhalt
  <2>1. PICK step \in ControlSteps : Goto("host", step)
    BY <1>2 DEF PauseTest, PauseCore, ResetTest, ResetHalt, ResetControlBlock, SetPC,
                ResumeTest, Unhalt, ControlSteps
  <2>2. /\ thread'["host"].at = step
        /\ thread'["host"].arg = thread["host"].arg
        /\ thread'["core"] = thread["core"]
    BY <1>0, <2>1, GotoFrame DEF Threads, Steps
  <2>3. thread["core"].at \notin CoreSteps
    BY <2>2 DEF StopsDuringControl
  <2>4. NeitherInv' /\ StopInv'
    BY <2>2, <2>3 DEF NeitherInv, StopInv
  <2>5. WriteInv /\ Arg("host") \in Mode
    BY <1>2 DEF PauseTest, PauseCore, ResetTest, ResetHalt, ResetControlBlock, SetPC,
                ResumeTest, Unhalt, AloneInv, FrameInv, FramesFit, ControlSteps, At
  <2>6. WriteInv'
    <3>1. CASE PauseTest
      <4>1. step = IF mode = Run /\ Arg("host") # Run THEN "pause" ELSE "resetTest"
        BY <1>0, <2>2, <3>1, GotoFrame DEF PauseTest, Threads, Steps, ControlSteps
      <4> QED
        BY <2>2, <2>5, <3>1, <4>1 DEF PauseTest, shared, WriteInv, At, Arg, Run
    <3>2. CASE PauseCore
      <4>1. step = "resetTest"
        BY <1>0, <2>2, <3>2, GotoFrame DEF PauseCore, Threads, Steps, ControlSteps
      <4> QED
        BY <2>2, <2>5, <3>2, <4>1 DEF PauseCore, WriteInv, At, Arg, Run
    <3>3. CASE ResetTest
      <4>1. step = IF "SwReset" \in mode /\ "SwReset" \notin Arg("host")
                   THEN "resetHalt" ELSE "resumeTest"
        BY <1>0, <2>2, <3>3, GotoFrame DEF ResetTest, Threads, Steps, ControlSteps
      <4> QED
        BY <2>2, <2>5, <3>3, <4>1 DEF ResetTest, shared, WriteInv, At, Arg, Run
    <3>4. CASE ResetHalt
      <4>1. step = "resetMode"
        BY <1>0, <2>2, <3>4, GotoFrame DEF ResetHalt, Threads, Steps, ControlSteps
      <4> QED
        BY <2>2, <2>5, <3>4, <4>1 DEF ResetHalt, WriteInv, At, Arg, Run
    <3>5. CASE ResetControlBlock
      <4>1. step = "setPC"
        BY <1>0, <2>2, <3>5, GotoFrame DEF ResetControlBlock, Threads, Steps, ControlSteps
      <4> QED
        BY <2>2, <2>5, <3>5, <4>1 DEF ResetControlBlock, WriteInv, At, Arg, Run
    <3>6. CASE SetPC
      <4>1. step = "resumeTest"
        BY <1>0, <2>2, <3>6, GotoFrame DEF SetPC, Threads, Steps, ControlSteps
      <4> QED
        BY <2>2, <2>5, <3>6, <4>1 DEF SetPC, WriteInv, At, Arg, Run, ResetMode
    <3>7. CASE ResumeTest
      <4>1. step = IF mode # Run /\ Arg("host") = Run THEN "unhalt" ELSE "setMode"
        BY <1>0, <2>2, <3>7, GotoFrame DEF ResumeTest, Threads, Steps, ControlSteps
      <4> QED
        BY <2>2, <2>5, <3>7, <4>1 DEF ResumeTest, shared, WriteInv, At, Arg, Run
    <3>8. CASE Unhalt
      <4>1. step = "setMode"
        BY <1>0, <2>2, <3>8, GotoFrame DEF Unhalt, Threads, Steps, ControlSteps
      <4> QED
        BY <2>2, <2>5, <3>8, <4>1 DEF Unhalt, WriteInv, At, Arg, Run
    <3> QED
      BY <1>2, <3>1, <3>2, <3>3, <3>4, <3>5, <3>6, <3>7, <3>8
  <2> QED
    BY <2>4, <2>6 DEF AloneInv
<1>3. CASE SetMode
  <2>1. /\ thread'["host"].at = "idle"
        /\ thread'["core"] = thread["core"]
        /\ At("host", "setMode")
    BY <1>0, <1>3, ReturnFrame DEF SetMode, Threads, Idle
  <2>2. thread["core"].at \notin CoreSteps
    BY <2>1 DEF StopsDuringControl, ControlSteps, At
  <2>3. NeitherInv'
    BY <1>3, <2>1 DEF SetMode, AloneInv, WriteInv, NeitherInv, At, Arg
  <2>4. StopInv' /\ WriteInv'
    BY <2>1, <2>2 DEF StopInv, WriteInv, At
  <2> QED
    BY <2>3, <2>4 DEF AloneInv
<1> QED
  BY <1>1, <1>2, <1>3 DEF Control

\* So does a program that stops itself, or just executes.
LEMMA CoreAlone ==
  ASSUME AloneInv, FrameInv', ~StopsDuringControl, ~StopsDuringControl',
         \/ Execute
         \/ \E bit \in {"HostReq", "Finish"} : BeginStop(bit)
         \/ RunTest \/ HaltSelf \/ StopMode
  PROVE  AloneInv'
<1>0. thread \in [Threads -> Frame]
  BY DEF AloneInv, FrameInv, TypeOK, Threads
<1> USE DEF MustReset
<1>1. CASE Execute
  <2>1. /\ UNCHANGED <<mode, halted, thread>> /\ pc' = "body"
    BY <1>1 DEF Execute
  <2>2. NeitherInv' /\ StopInv'
    BY <2>1 DEF AloneInv, NeitherInv, StopInv, At, Arg
  <2>3. WriteInv'
    BY <2>1 DEF AloneInv, WriteInv, At, Arg
  <2> QED
    BY <2>2, <2>3 DEF AloneInv
<1>2. ASSUME NEW bit \in {"HostReq", "Finish"}, BeginStop(bit) PROVE AloneInv'
  <2>1. /\ Begin("core", "runTest", {bit}, FALSE) /\ "runTest" \in Steps
        /\ {bit} \in (SUBSET InterruptBits) \cup Mode
    BY <1>2, Lines DEF BeginStop, Steps, CoreSteps
  <2>2. /\ thread'["core"].at = "runTest"
        /\ thread'["core"].arg = {bit}
        /\ thread'["host"] = thread["host"]
        /\ At("core", "idle")
    BY <1>0, <2>1, BeginFrame DEF Threads
  <2>3. thread["host"].at \notin ControlSteps
    BY <2>2 DEF StopsDuringControl, CoreSteps
  <2>4. ~halted /\ mode = Run
    BY <1>2, <2>2, <2>3 DEF BeginStop, AloneInv, NeitherInv, At, CoreSteps
  <2>5. StopInv'
    BY <1>2, <2>2, <2>4 DEF BeginStop, StopInv, At, Arg
  <2>6. NeitherInv' /\ WriteInv'
    BY <2>2, <2>3 DEF NeitherInv, WriteInv, ControlSteps, CoreSteps, At
  <2> QED
    BY <2>5, <2>6 DEF AloneInv
<1>3. CASE RunTest \/ HaltSelf \/ StopMode
  <2>1. thread["core"].at \in CoreSteps
    BY <1>3 DEF RunTest, HaltSelf, StopMode, At, CoreSteps
  <2>2. thread["host"].at \notin ControlSteps
    BY <2>1 DEF StopsDuringControl
  <2>3. PICK step \in {"halt", "stopMode", "pendRead"} : Goto("core", step)
    BY <1>3 DEF RunTest, HaltSelf, StopMode
  <2>4. /\ thread'["core"].at = step
        /\ thread'["core"].arg = thread["core"].arg
        /\ thread'["host"] = thread["host"]
    BY <1>0, <2>3, GotoFrame DEF Threads, Steps, IrqSteps, CoreSteps
  <2>5. WriteInv'
    BY <2>2, <2>4 DEF WriteInv, ControlSteps, At
  <2>6. StopInv /\ Arg("core") \in {{"HostReq"}, {"Finish"}}
    BY <2>1 DEF AloneInv, FrameInv, FramesFit, At, CoreSteps
  <2>7. CASE RunTest
    <3>1. step = "halt"
      BY <1>0, <2>4, <2>7, GotoFrame DEF RunTest, Threads, Steps, CoreSteps
    <3>2. NeitherInv' /\ StopInv'
      BY <2>1, <2>4, <2>6, <2>7, <3>1
         DEF RunTest, shared, NeitherInv, StopInv, CoreSteps, At, Arg
    <3> QED
      BY <2>5, <3>2 DEF AloneInv
  <2>8. CASE HaltSelf
    <3>1. step = "stopMode"
      BY <1>0, <2>4, <2>8, GotoFrame DEF HaltSelf, Threads, Steps, CoreSteps
    <3>2. NeitherInv' /\ StopInv'
      BY <2>1, <2>4, <2>6, <2>8, <3>1
         DEF HaltSelf, NeitherInv, StopInv, CoreSteps, At, Arg
    <3> QED
      BY <2>5, <3>2 DEF AloneInv
  <2>9. CASE StopMode
    <3>1. step = "pendRead"
      BY <1>0, <2>4, <2>9, GotoFrame DEF StopMode, Threads, Steps, IrqSteps
    <3>2. NeitherInv' /\ StopInv'
      BY <2>1, <2>4, <2>6, <2>9, <3>1
         DEF StopMode, NeitherInv, StopInv, CoreSteps, At, Arg, ResetMode, Run
    <3> QED
      BY <2>5, <3>2 DEF AloneInv
  <2> QED
    BY <1>3, <2>7, <2>8, <2>9
<1> QED
  BY <1>1, <1>2, <1>3

\* Without that overlap every step keeps the mode and IsHalted together.
LEMMA AloneStep ==
  ASSUME AloneInv, ~StopsDuringControl, ~StopsDuringControl', [Next]_vars
  PROVE  AloneInv'
<1>1. FrameInv'
  BY FrameStep DEF AloneInv
<1>2. thread \in [Threads -> Frame] /\ FrameInv
  BY DEF AloneInv, FrameInv, TypeOK, Threads
<1>3. ASSUME NEW value \in SUBSET InterruptBits,
             BeginIntrState(value) \/ BeginIntrTest(value) \/ BeginIntrEnable(value)
      PROVE  AloneInv'
  <2>1. PICK step \in {"pendRead", "enable"}, clears \in BOOLEAN :
          Begin("host", step, value, clears)
    BY <1>3 DEF BeginIntrState, BeginIntrTest, BeginIntrEnable
  <2>2. /\ thread'["host"].at = step
        /\ thread'["core"] = thread["core"]
        /\ At("host", "idle")
    <3>1. /\ At("host", "idle")
          /\ thread' = [thread EXCEPT !["host"].at = step, !["host"].arg = value,
                                      !["host"].clears = clears]
      BY <2>1 DEF Begin
    <3>2. thread["host"] \in Frame
      BY <1>2 DEF Threads
    <3>3. thread'["host"].at = step
      BY <1>2, <3>1, <3>2 DEF Threads, Frame
    <3>4. thread'["core"] = thread["core"]
      BY <1>2, <3>1 DEF Threads
    <3> QED
      BY <3>1, <3>3, <3>4
  <2>3. UNCHANGED <<mode, halted, pc>>
    BY <1>3 DEF BeginIntrState, BeginIntrTest, BeginIntrEnable, shared
  <2> QED
    BY <1>1, <2>2, <2>3, ApartStep DEF Threads, IrqSteps, At
<1>4. CASE Enable
  <2>1. /\ thread'["host"].at = "enabledRead"
        /\ thread'["core"] = thread["core"]
        /\ thread["host"].at = "enable"
        /\ UNCHANGED <<mode, halted, pc>>
    BY <1>2, <1>4, GotoFrame DEF Enable, Threads, Steps, IrqSteps, At
  <2> QED
    BY <1>1, <2>1, ApartStep DEF Threads, IrqSteps
<1>5. CASE TakeInterrupt \/ UNCHANGED vars
  <2>1. UNCHANGED <<mode, halted, pc, thread>>
    BY <1>5 DEF TakeInterrupt, vars, shared
  <2> QED
    BY <1>1, <2>1, ApartStep
<1>6. ASSUME NEW t \in Threads, Interrupts(t) PROVE AloneInv'
  <2>1. /\ UNCHANGED <<mode, halted, pc>>
        /\ thread[t].at \in IrqSteps
        /\ thread'[t].at \in IrqSteps \cup {"idle"}
        /\ \A u \in Threads \ {t} : thread'[u] = thread[u]
    BY <1>2, <1>6, InterruptsApart
  <2> QED
    BY <1>1, <2>1, ApartStep
<1> QED
  BY <1>1, <1>3, <1>4, <1>5, <1>6, ControlAlone, CoreAlone
     DEF Next, HostThread, CoreThread, IntrRegisters, Threads

\* At power-on neither thread is in a handler and the core is held.
LEMMA AloneInit == Init => AloneInv
<1> SUFFICES ASSUME Init PROVE AloneInv
  OBVIOUS
<1>1. thread["host"].at = "idle" /\ thread["core"].at = "idle"
  BY DEF Init, Idle
<1> QED
  BY <1>1, FrameInit
     DEF Init, AloneInv, NeitherInv, StopInv, WriteInv, MustReset, Run, ResetMode,
         ControlSteps, CoreSteps, At

\* ExecHostReq and ExecFinish find the control block in mode Run unless the
\* program stops itself during a Control write: that overlap, not a hand on
\* IsHalted, is what their error message reports, and nothing else brings it.
THEOREM StrayStopNeedsOverlap == Spec => []StopsOnlyWhenRunning \/ <>StopsDuringControl
<1>1. AloneInv => StopsOnlyWhenRunning
  BY DEF AloneInv, StopInv, StopsOnlyWhenRunning, At, CoreSteps
<1>2. AloneInv /\ ~StopsDuringControl /\ ~StopsDuringControl' /\ [Next]_vars => AloneInv'
  BY AloneStep
<1> QED
  BY <1>1, <1>2, AloneInit, PTL DEF Spec

\* The mode that ExecFinish sets is lost, so that a finished program could be
\* unfrozen behind its `finish', only if it finishes during a Control write.
THEOREM LostFinishNeedsOverlap == Spec => []FinishedStaysReset \/ <>StopsDuringControl
<1>1. AloneInv => FinishedStaysReset
  BY DEF AloneInv, NeitherInv, MustReset, FinishedStaysReset, At, ControlSteps, CoreSteps
<1>2. AloneInv /\ ~StopsDuringControl /\ ~StopsDuringControl' /\ [Next]_vars => AloneInv'
  BY AloneStep
<1> QED
  BY <1>1, <1>2, AloneInit, PTL DEF Spec

\* What a thread has read of irqsPending is what is there when it stores.
PendingSeen ==
  /\ \A t \in Threads : At(t, "pendWrite") => thread[t].seen = irqsPending
  /\ ~At("core", "idle") => ~thread["core"].clears

\* A step changes irqsPending only where one of the threads stores it.
LEMMA OnlyStores ==
  ASSUME Next, irqsPending' # irqsPending
  PROVE  PendWrite("host") \/ PendWrite("core")
BY DEF Next, HostThread, CoreThread, Control, IntrRegisters, Interrupts, shared,
       BeginControl, PauseTest, PauseCore, ResetTest, ResetHalt, ResetControlBlock, SetPC,
       ResumeTest, Unhalt, SetMode, PendRead, EnabledRead, PendingRead, SetLine,
       BeginIntrState, BeginIntrTest, BeginIntrEnable, Enable, TakeInterrupt,
       Execute, BeginStop, RunTest, HaltSelf, StopMode

\* A thread comes to the store by reading, and does not change on the way whether
\* it adds or removes; the core only ever adds.
LEMMA Moves ==
  ASSUME FrameInv, Next, NEW t \in Threads
  PROVE  /\ \/ thread'[t] = thread[t]
            \/ thread'[t].at # "pendWrite"
            \/ PendRead(t)
         /\ t = "core" => \/ thread'[t].clears = thread[t].clears /\ ~At(t, "idle")
                          \/ thread'[t] = thread[t]
                          \/ ~thread'[t].clears
<1>0. thread \in [Threads -> Frame]
  BY DEF FrameInv, TypeOK, Threads
<1>1. ASSUME NEW newMode \in Mode, BeginControl(newMode)
      PROVE  thread'["host"].at # "pendWrite" /\ thread'["core"] = thread["core"]
  BY <1>0, <1>1, BeginFrame DEF BeginControl, Threads, Steps, ControlSteps
<1>2. ASSUME PauseTest \/ PauseCore \/ ResetTest \/ ResetHalt \/ ResetControlBlock
               \/ SetPC \/ ResumeTest \/ Unhalt
      PROVE  thread'["host"].at # "pendWrite" /\ thread'["core"] = thread["core"]
  <2>1. PICK step \in ControlSteps : Goto("host", step)
    BY <1>2 DEF PauseTest, PauseCore, ResetTest, ResetHalt, ResetControlBlock, SetPC,
                ResumeTest, Unhalt, ControlSteps
  <2> QED
    BY <1>0, <2>1, GotoFrame DEF Threads, Steps, ControlSteps
<1>3. ASSUME SetMode
      PROVE  thread'["host"].at # "pendWrite" /\ thread'["core"] = thread["core"]
  BY <1>0, <1>3, ReturnFrame DEF SetMode, Threads, Idle
<1>4. ASSUME NEW value \in SUBSET InterruptBits,
             BeginIntrState(value) \/ BeginIntrTest(value) \/ BeginIntrEnable(value)
      PROVE  thread'["host"].at # "pendWrite" /\ thread'["core"] = thread["core"]
  <2>1. PICK step \in {"pendRead", "enable"}, clears \in BOOLEAN :
          Begin("host", step, value, clears)
    BY <1>4 DEF BeginIntrState, BeginIntrTest, BeginIntrEnable
  <2> QED
    BY <1>0, <2>1, BeginFrame DEF Threads, Steps, IrqSteps
<1>5. ASSUME Enable
      PROVE  thread'["host"].at # "pendWrite" /\ thread'["core"] = thread["core"]
  BY <1>0, <1>5, GotoFrame DEF Enable, Threads, Steps, IrqSteps
<1>6. ASSUME TakeInterrupt \/ Execute
      PROVE  thread' = thread
  BY <1>6 DEF TakeInterrupt, Execute
<1>7. ASSUME NEW bit \in {"HostReq", "Finish"}, BeginStop(bit)
      PROVE  /\ thread'["core"].at # "pendWrite" /\ ~thread'["core"].clears
             /\ thread'["host"] = thread["host"]
  <2>1. /\ Begin("core", "runTest", {bit}, FALSE) /\ "runTest" \in Steps
        /\ {bit} \in (SUBSET InterruptBits) \cup Mode
    BY <1>7, Lines DEF BeginStop, Steps, CoreSteps
  <2> QED
    BY <1>0, <2>1, BeginFrame DEF Threads
<1>8. ASSUME RunTest \/ HaltSelf \/ StopMode
      PROVE  /\ thread'["core"].at # "pendWrite" /\ thread'["host"] = thread["host"]
             /\ thread'["core"].clears = thread["core"].clears /\ ~At("core", "idle")
  <2>1. PICK step \in {"halt", "stopMode", "pendRead"} : Goto("core", step)
    BY <1>8 DEF RunTest, HaltSelf, StopMode
  <2>2. ~At("core", "idle")
    BY <1>8 DEF RunTest, HaltSelf, StopMode, At
  <2> QED
    BY <1>0, <2>1, <2>2, GotoFrame DEF Threads, Steps, IrqSteps, CoreSteps
<1>9. ASSUME NEW u \in Threads, Interrupts(u)
      PROVE  /\ PendRead(u) \/ thread'[u].at # "pendWrite"
             /\ \A v \in Threads \ {u} : thread'[v] = thread[v]
             /\ \/ thread'[u].clears = thread[u].clears /\ ~At(u, "idle")
                \/ ~thread'[u].clears
  <2>1. ~At(u, "idle") /\ \A v \in Threads \ {u} : thread'[v] = thread[v]
    BY <1>9, InterruptsApart DEF At, IrqSteps
  <2>2. CASE PendRead(u) \/ EnabledRead(u) \/ PendingRead(u)
    BY <1>0, <2>1, <2>2 DEF PendRead, EnabledRead, PendingRead, Frame
  <2>3. CASE PendWrite(u)
    BY <1>0, <2>1, <2>3, GotoFrame DEF PendWrite, Steps, IrqSteps
  <2>4. CASE SetLine(u)
    <3>1. At(u, "line")
      BY <2>4 DEF SetLine
    <3>2. CASE Return(u)
      BY <1>0, <2>1, <3>2, ReturnFrame DEF Idle
    <3>3. CASE ~Return(u)
      <4>1. thread' = [thread EXCEPT ![u].line = @ + 1]
        BY <2>4, <3>3 DEF SetLine
      <4>2. thread'[u].at = thread[u].at /\ thread'[u].clears = thread[u].clears
        BY <1>0, <4>1 DEF Frame
      <4> QED
        BY <2>1, <3>1, <4>2 DEF At
    <3> QED
      BY <3>2, <3>3
  <2> QED
    BY <1>9, <2>2, <2>3, <2>4 DEF Interrupts
<1>10. t = "host" \/ t = "core"
  BY DEF Threads
<1>11. CASE Control \/ IntrRegisters
  BY <1>1, <1>2, <1>3, <1>4, <1>5, <1>6, <1>10, <1>11 DEF Control, IntrRegisters
<1>12. CASE Execute \/ RunTest \/ HaltSelf \/ StopMode
              \/ \E bit \in {"HostReq", "Finish"} : BeginStop(bit)
  BY <1>6, <1>7, <1>8, <1>10, <1>12
<1>13. CASE \E u \in Threads : Interrupts(u)
  BY <1>9, <1>10, <1>13 DEF Threads
<1> QED
  BY <1>11, <1>12, <1>13 DEF Next, HostThread, CoreThread, Threads

\* Without the other overlap nothing comes between reading and storing.
LEMMA PendingSeenStep ==
  ASSUME FrameInv, PendingSeen, ~BothStore, [Next]_vars
  PROVE  PendingSeen'
<1>1. CASE UNCHANGED vars
  BY <1>1 DEF vars, shared, PendingSeen, At
<1>2. CASE Next
  <2>1. ASSUME NEW t \in Threads, thread'[t].at = "pendWrite"
        PROVE  thread'[t].seen = irqsPending'
    <3>0. thread \in [Threads -> Frame]
      BY DEF FrameInv, TypeOK, Threads
    <3>1. CASE PendRead(t)
      BY <3>0, <3>1 DEF PendRead, shared, Frame
    <3>2. CASE ~PendRead(t)
      <4>1. thread'[t] = thread[t]
        BY <1>2, <2>1, <3>2, Moves
      <4>2. At(t, "pendWrite") /\ thread[t].seen = irqsPending
        BY <2>1, <4>1 DEF PendingSeen, At
      <4>3. ASSUME NEW u \in Threads, PendWrite(u) PROVE FALSE
        <5>1. u # t
          <6>1. ASSUME PendWrite(t) PROVE FALSE
            BY <2>1, <3>0, <6>1, GotoFrame DEF PendWrite, Steps, IrqSteps
          <6> QED
            BY <4>3, <6>1
        <5>2. At(u, "pendWrite")
          BY <4>3 DEF PendWrite
        <5> QED
          BY <4>2, <5>1, <5>2 DEF BothStore, Threads
      <4>4. irqsPending' = irqsPending
        BY <1>2, <4>3, OnlyStores DEF Threads
      <4> QED
        BY <4>1, <4>2, <4>4
    <3> QED
      BY <3>1, <3>2
  <2>2. thread'["core"].at # "idle" => ~thread'["core"].clears
    BY <1>2, Moves DEF PendingSeen, At, Threads
  <2> QED
    BY <2>1, <2>2 DEF PendingSeen, At
<1> QED
  BY <1>1, <1>2

\* A pending interrupt is withdrawn by anything but an IntrState write that names
\* it only after both threads have stood between the read and the store of
\* irqsPending: there is no other way to lose a bit.
THEOREM LostBitNeedsOverlap == Spec => WithdrawnByName \/ <>BothStore
<1> DEFINE Named == \A bit \in irqsPending \ irqsPending' :
       At("host", "pendWrite") /\ thread["host"].clears /\ bit \in Arg("host")
<1>1. Init => PendingSeen
  BY DEF Init, PendingSeen, Idle, At, Threads
<1>2. FrameInv /\ PendingSeen /\ [Next]_vars => [Named]_vars
  <2> SUFFICES ASSUME FrameInv, PendingSeen, Next,
                      NEW bit \in irqsPending, bit \notin irqsPending'
               PROVE  At("host", "pendWrite") /\ thread["host"].clears /\ bit \in Arg("host")
    OBVIOUS
  <2>1. PendWrite("host") \/ PendWrite("core")
    BY OnlyStores
  <2>2. ~PendWrite("core")
    <3> SUFFICES ASSUME PendWrite("core") PROVE FALSE
      OBVIOUS
    <3>1. thread["core"].seen = irqsPending /\ ~thread["core"].clears
      BY DEF PendWrite, PendingSeen, At, Threads
    <3>2. irqsPending' = thread["core"].seen \cup Arg("core")
      BY <3>1 DEF PendWrite
    <3> QED
      BY <3>1, <3>2
  <2>3. PendWrite("host") /\ thread["host"].seen = irqsPending
    BY <2>1, <2>2 DEF PendWrite, PendingSeen, Threads
  <2> QED
    BY <2>3 DEF PendWrite
<1>3. FrameInv /\ PendingSeen /\ ~BothStore /\ [Next]_vars => PendingSeen'
  BY PendingSeenStep
<1>4. FrameInv /\ [Next]_vars => FrameInv'
  BY FrameStep
<1>5. WithdrawnByName <=> [][Named]_vars
  BY DEF WithdrawnByName
<1> HIDE DEF Named
<1> QED
  BY <1>1, <1>2, <1>3, <1>4, <1>5, FrameInit, PTL DEF Spec

-----------------------------------------------------------------------------
(* The discipline: Control.                                                *)

\* Whether the core is stopping depends on its own frame only.
LEMMA CoreBusyFrame ==
  ASSUME thread'["core"] = thread["core"]
  PROVE  CoreBusy' <=> CoreBusy
  BY DEF CoreBusy, At, Arg

\* A host that is inside a handler is alone with the control block.
LEMMA HostAlone ==
  ASSUME DisciplineInv, ~At("host", "idle")
  PROVE  ~CoreBusy
  BY DEF DisciplineInv, StoppingInv

\* A step of Control that keeps ControlInv keeps the rest: the core's part of the
\* invariant concerns fields that Control does not write, or speaks of a stopping
\* core, which there is none of.
LEMMA ControlKeeps ==
  ASSUME DisciplineInv, NEW step \in ControlSteps, thread["host"].at \in ControlSteps,
         Goto("host", step), FrameInv', ControlInv',
         pc' \in {pc, "start"},
         UNCHANGED <<irqsPending, irqsEnabled, irqLines, knows, before>>
  PROVE  DisciplineInv'
<1>1. thread'["host"].at = step /\ thread'["core"] = thread["core"]
  BY GotoFrame DEF DisciplineInv, FrameInv, TypeOK, Threads, Steps
<1>2. ~CoreBusy /\ ~CoreBusy'
  BY <1>1, CoreBusyFrame, HostAlone DEF At, ControlSteps
<1>3. StoppingInv' /\ IdleInv' /\ RegisterInv'
  BY <1>1, <1>2 DEF StoppingInv, IdleInv, RegisterInv, At, ControlSteps, IrqSteps
<1>4. TailInv'
  BY <1>1, <1>2 DEF DisciplineInv, TailInv, At, Arg
<1> QED
  BY <1>3, <1>4 DEF DisciplineInv

\* The steps of Control up to its last assignment.
LEMMA ControlStep ==
  ASSUME DisciplineInv, FrameInv',
         \/ PauseTest \/ PauseCore \/ ResetTest \/ ResetHalt \/ ResetControlBlock
         \/ SetPC \/ ResumeTest \/ Unhalt
  PROVE  DisciplineInv'
<1> USE DEF ControlSteps
<1>0. /\ thread["host"].at \in ControlSteps => ControlInv
      /\ thread \in [Threads -> Frame]
      /\ mode \in Mode /\ halted \in BOOLEAN
      /\ before.mode \in Mode /\ before.halted \in BOOLEAN
      /\ thread["host"].at \in ControlSteps => Arg("host") \in Mode
  BY DEF DisciplineInv, FrameInv, TypeOK, FramesFit, Snapshot, Fields, Threads
<1>1. ASSUME NEW step \in ControlSteps, Goto("host", step)
      PROVE  thread'["host"].at = step /\ thread'["host"].arg = thread["host"].arg
  BY <1>0, <1>1, GotoFrame DEF Steps, Threads
<1>2. CASE PauseTest
  <2>1. PICK step \in {"pause", "resetTest"} :
          /\ Goto("host", step)
          /\ step = IF mode = Run /\ Arg("host") # Run THEN "pause" ELSE "resetTest"
    BY <1>2 DEF PauseTest
  <2>2. thread'["host"].at = step /\ thread'["host"].arg = thread["host"].arg
    BY <1>1, <2>1
  <2>3. ControlInv'
    BY <1>0, <1>2, <2>1, <2>2
       DEF PauseTest, shared, ControlInv, UnfinishedControl, Releasing, LinesFollow, Clean,
           At, Arg, Run
  <2> QED
    BY <1>2, <2>1, <2>3, ControlKeeps DEF PauseTest, shared, At
<1>3. CASE PauseCore
  <2>1. Goto("host", "resetTest")
    BY <1>3 DEF PauseCore
  <2>2. thread'["host"].at = "resetTest" /\ thread'["host"].arg = thread["host"].arg
    BY <1>1, <2>1
  <2>3. ControlInv'
    BY <1>0, <1>3, <2>2
       DEF PauseCore, ControlInv, UnfinishedControl, Releasing, LinesFollow, Clean, At, Arg, Run
  <2> QED
    BY <1>3, <2>1, <2>3, ControlKeeps DEF PauseCore, At
<1>4. CASE ResetTest
  <2>1. PICK step \in {"resetHalt", "resumeTest"} :
          /\ Goto("host", step)
          /\ step = IF "SwReset" \in mode /\ "SwReset" \notin Arg("host")
                    THEN "resetHalt" ELSE "resumeTest"
    BY <1>4 DEF ResetTest
  <2>2. thread'["host"].at = step /\ thread'["host"].arg = thread["host"].arg
    BY <1>1, <2>1
  <2>3. ControlInv'
    BY <1>0, <1>4, <2>1, <2>2
       DEF ResetTest, shared, ControlInv, UnfinishedControl, Releasing, LinesFollow, Clean,
           At, Arg, Run
  <2> QED
    BY <1>4, <2>1, <2>3, ControlKeeps DEF ResetTest, shared, At
<1>5. CASE ResetHalt
  <2>1. Goto("host", "resetMode")
    BY <1>5 DEF ResetHalt
  <2>2. thread'["host"].at = "resetMode" /\ thread'["host"].arg = thread["host"].arg
    BY <1>1, <2>1
  <2>3. ControlInv'
    BY <1>0, <1>5, <2>2
       DEF ResetHalt, ControlInv, UnfinishedControl, Releasing, LinesFollow, Clean, At, Arg, Run
  <2> QED
    BY <1>5, <2>1, <2>3, ControlKeeps DEF ResetHalt, At
<1>6. CASE ResetControlBlock
  <2>1. Goto("host", "setPC")
    BY <1>6 DEF ResetControlBlock
  <2>2. thread'["host"].at = "setPC" /\ thread'["host"].arg = thread["host"].arg
    BY <1>1, <2>1
  <2>3. ControlInv'
    BY <1>0, <1>6, <2>2
       DEF ResetControlBlock, ControlInv, UnfinishedControl, Releasing, LinesFollow, Clean,
           At, Arg, Run, ResetMode
  <2> QED
    BY <1>6, <2>1, <2>3, ControlKeeps DEF ResetControlBlock, At
<1>7. CASE SetPC
  <2>1. Goto("host", "resumeTest")
    BY <1>7 DEF SetPC
  <2>2. thread'["host"].at = "resumeTest" /\ thread'["host"].arg = thread["host"].arg
    BY <1>1, <2>1
  <2>3. ControlInv'
    BY <1>0, <1>7, <2>2
       DEF SetPC, ControlInv, UnfinishedControl, Releasing, LinesFollow, Clean,
           At, Arg, Run, ResetMode
  <2> QED
    BY <1>7, <2>1, <2>3, ControlKeeps DEF SetPC, At
<1>8. CASE ResumeTest
  <2>1. PICK step \in {"unhalt", "setMode"} :
          /\ Goto("host", step)
          /\ step = IF mode # Run /\ Arg("host") = Run THEN "unhalt" ELSE "setMode"
    BY <1>8 DEF ResumeTest
  <2>2. thread'["host"].at = step /\ thread'["host"].arg = thread["host"].arg
    BY <1>1, <2>1
  <2>3. ControlInv'
    BY <1>0, <1>8, <2>1, <2>2
       DEF ResumeTest, shared, ControlInv, UnfinishedControl, Releasing, LinesFollow, Clean,
           At, Arg, Run
  <2> QED
    BY <1>8, <2>1, <2>3, ControlKeeps DEF ResumeTest, shared, At
<1>9. CASE Unhalt
  <2>1. Goto("host", "setMode")
    BY <1>9 DEF Unhalt
  <2>2. thread'["host"].at = "setMode" /\ thread'["host"].arg = thread["host"].arg
    BY <1>1, <2>1
  <2>3. ControlInv'
    BY <1>0, <1>9, <2>2
       DEF Unhalt, ControlInv, UnfinishedControl, Releasing, LinesFollow, Clean, At, Arg, Run
  <2> QED
    BY <1>9, <2>1, <2>3, ControlKeeps DEF Unhalt, At
<1> QED
  BY <1>2, <1>3, <1>4, <1>5, <1>6, <1>7, <1>8, <1>9
\* The last assignment of Control leaves a consistent control block.
LEMMA SetModeStep ==
  ASSUME DisciplineInv, FrameInv', SetMode
  PROVE  DisciplineInv'
<1>1. thread'["host"] = Idle /\ thread'["core"] = thread["core"]
  BY ReturnFrame DEF SetMode, DisciplineInv, FrameInv, TypeOK, Threads
<1>2. ~CoreBusy /\ ~CoreBusy'
  BY <1>1, CoreBusyFrame, HostAlone DEF SetMode, At
<1>3. StoppingInv' /\ ControlInv' /\ RegisterInv'
  BY <1>1, <1>2 DEF StoppingInv, ControlInv, RegisterInv, At, Idle, ControlSteps, IrqSteps
<1>4. TailInv'
  BY <1>1, <1>2 DEF SetMode, DisciplineInv, TailInv, At, Arg
<1>5. ControlInv /\ At("host", "setMode") /\ thread["host"].at \in ControlSteps
  BY DEF DisciplineInv, SetMode, At, ControlSteps
<1>6. IdleInv'
  BY <1>5 DEF SetMode, ControlInv, IdleInv, LinesFollow, Clean, At, Arg, Run
<1> QED
  BY <1>3, <1>4, <1>6 DEF DisciplineInv

\* A polite host that writes Control finds no stopping core: either it knows that
\* the core has stopped, or the core's thread is idle.
LEMMA BeginControlStep ==
  ASSUME PoliteHost, DisciplineInv, FrameInv', NEW newMode \in Mode, BeginControl(newMode)
  PROVE  DisciplineInv'
<1>1. /\ thread'["host"].at = "pauseTest"
      /\ thread'["host"].arg = newMode
      /\ thread'["core"] = thread["core"]
      /\ At("host", "idle")
      /\ before' = Snapshot
  <2>1. Begin("host", "pauseTest", newMode, FALSE) /\ "pauseTest" \in Steps
    BY DEF BeginControl, Steps, ControlSteps
  <2> QED
    BY <2>1, BeginFrame DEF DisciplineInv, FrameInv, TypeOK, Threads
<1>2. ~CoreBusy /\ ~CoreBusy'
  BY <1>1, CoreBusyFrame DEF BeginControl, DisciplineInv, StoppingInv, CoreBusy, At
<1>3. StoppingInv' /\ IdleInv' /\ RegisterInv'
  BY <1>1, <1>2 DEF StoppingInv, IdleInv, RegisterInv, At, ControlSteps, IrqSteps
<1>4. TailInv'
  BY <1>1, <1>2 DEF BeginControl, shared, DisciplineInv, TailInv, At, Arg
<1>5. IdleInv
  BY DEF DisciplineInv
<1>6. halted \in BOOLEAN /\ mode \in Mode
  BY DEF DisciplineInv, FrameInv, TypeOK, Snapshot, Fields
<1>7. ~halted \/ mode = Run \/ newMode = Run => Clean
  BY <1>1, <1>2, <1>5 DEF BeginControl, IdleInv, LinesFollow, Clean
<1>8. UnfinishedControl'
  BY <1>1, <1>2, <1>5, <1>6
     DEF BeginControl, shared, IdleInv, UnfinishedControl, Releasing, Snapshot, At, Arg
<1>9. ControlInv'
  BY <1>1, <1>2, <1>5, <1>7, <1>8
     DEF BeginControl, shared, IdleInv, ControlInv, LinesFollow, Clean, At, Arg
<1> QED
  BY <1>3, <1>4, <1>9 DEF DisciplineInv

-----------------------------------------------------------------------------
(* The discipline: the interrupt registers.                                *)

\* A polite host that writes an interrupt register finds the core stopped.
LEMMA BeginRegisterStep ==
  ASSUME PoliteHost, DisciplineInv, FrameInv', NEW value \in SUBSET InterruptBits,
         BeginIntrState(value) \/ BeginIntrTest(value) \/ BeginIntrEnable(value)
  PROVE  DisciplineInv'
<1>1. PICK step \in {"pendRead", "enable"}, clears \in BOOLEAN :
        /\ Begin("host", step, value, clears)
        /\ step = "pendRead" /\ ~clears => pc = "vector"
  BY DEF BeginIntrState, BeginIntrTest, BeginIntrEnable
<1>2. /\ thread'["host"].at = step
      /\ thread'["host"].arg = value
      /\ thread'["host"].clears = clears
      /\ thread'["core"] = thread["core"]
      /\ At("host", "idle")
      /\ before' = Snapshot
  <2>1. step \in Steps
    BY DEF Steps, IrqSteps
  <2> QED
    BY <1>1, <2>1, BeginFrame DEF DisciplineInv, FrameInv, TypeOK, Threads
<1>3. UNCHANGED <<mode, halted, pc, irqsPending, irqsEnabled, irqLines, knows>>
  BY DEF BeginIntrState, BeginIntrTest, BeginIntrEnable, shared
<1>4. knows \/ pc = "vector"
  BY DEF BeginIntrState, BeginIntrTest, BeginIntrEnable
<1>5. ~CoreBusy /\ ~CoreBusy'
  BY <1>2, <1>4, CoreBusyFrame DEF DisciplineInv, StoppingInv, PointOf
<1>6. StoppingInv' /\ IdleInv' /\ ControlInv'
  BY <1>2, <1>5 DEF StoppingInv, IdleInv, ControlInv, At, ControlSteps, IrqSteps
<1>7. TailInv'
  BY <1>2, <1>3, <1>5 DEF DisciplineInv, TailInv, At, Arg
<1>8. halted /\ mode # Run /\ LinesFollow
      /\ (pc \in {"vector", "afterFinish"} => "SwReset" \in mode)
  BY <1>2, <1>4, <1>5 DEF DisciplineInv, IdleInv, Run
<1>9. RegisterInv'
  <2>1. Stopped' /\ AfterChange'
    BY <1>1, <1>2, <1>3, <1>8 DEF Stopped, AfterChange, Snapshot
  <2>2. BeforeChange'
    BY <1>1, <1>2, <1>3, <1>8 DEF BeforeChange, LinesFollow, Snapshot, At
  <2> QED
    BY <2>1, <2>2 DEF RegisterInv
<1> QED
  BY <1>6, <1>7, <1>9 DEF DisciplineInv

\* What holds whenever the host is inside an interrupt register's handler.
LEMMA InRegister ==
  ASSUME DisciplineInv, thread["host"].at \in IrqSteps
  PROVE  /\ RegisterInv
         /\ ~CoreBusy
         /\ thread \in [Threads -> Frame]
         /\ At("core", "line") => irqsPending \subseteq Arg("core") /\ pc # "vector"
  BY HostAlone DEF DisciplineInv, TailInv, FrameInv, TypeOK, At, IrqSteps, Threads

\* A step inside the handler that keeps RegisterInv, without touching what the
\* core's part of the invariant speaks of, keeps the rest.
LEMMA RegisterKeeps ==
  ASSUME DisciplineInv, thread["host"].at \in IrqSteps, FrameInv', RegisterInv',
         thread'["host"].at \in IrqSteps, thread'["core"] = thread["core"],
         UNCHANGED pc,
         At("core", "line") => irqsPending' \subseteq irqsPending /\ irqLines' \subseteq Arg("core")
  PROVE  DisciplineInv'
<1>1. ~CoreBusy /\ ~CoreBusy'
  BY InRegister, CoreBusyFrame
<1>2. StoppingInv' /\ IdleInv' /\ ControlInv'
  BY <1>1 DEF StoppingInv, IdleInv, ControlInv, At, ControlSteps, IrqSteps
<1>3. TailInv'
  BY <1>1 DEF DisciplineInv, TailInv, At, Arg
<1> QED
  BY <1>2, <1>3 DEF DisciplineInv

\* The write to IntrEnable.
LEMMA EnableStep ==
  ASSUME DisciplineInv, FrameInv', Enable
  PROVE  DisciplineInv'
<1>1. At("host", "enable") /\ thread["host"].at \in IrqSteps
  BY DEF Enable, At, IrqSteps
<1>2. /\ thread'["host"].at = "enabledRead"
      /\ thread'["host"].arg = thread["host"].arg
      /\ thread'["core"] = thread["core"]
  BY <1>1, InRegister, GotoFrame DEF Enable, Threads, Steps, IrqSteps
<1>3. irqsEnabled' \in SUBSET InterruptBits
  BY <1>1 DEF Enable, DisciplineInv, FrameInv, FramesFit, At
<1>4. RegisterInv'
  <2>1. Stopped /\ before = Snapshot
    BY <1>1, InRegister DEF RegisterInv, BeforeChange, At
  <2>2. EnabledChanged'
    BY <1>3, <2>1 DEF Enable, EnabledChanged, Snapshot
  <2>3. Stopped' /\ BeforeChange' /\ AfterChange'
    BY <1>2, <2>1, <2>2 DEF Enable, Stopped, BeforeChange, AfterChange, At
  <2> QED
    BY <2>3 DEF RegisterInv
<1>5. At("core", "line") => irqLines \subseteq Arg("core")
  BY <1>1, InRegister DEF DisciplineInv, TailInv
<1> QED
  BY <1>1, <1>2, <1>4, <1>5, RegisterKeeps DEF Enable, IrqSteps

\* A raised line tells the host that the core has stopped.
LEMMA TakeInterruptStep ==
  ASSUME DisciplineInv, FrameInv', TakeInterrupt
  PROVE  DisciplineInv'
<1>1. ~CoreBusy /\ At("host", "idle")
  BY DEF TakeInterrupt, DisciplineInv, StoppingInv
<1>2. mode # Run
  BY <1>1 DEF TakeInterrupt, DisciplineInv, IdleInv, Clean
<1>3. ~CoreBusy'
  BY <1>1, CoreBusyFrame DEF TakeInterrupt
<1>4. StoppingInv' /\ ControlInv' /\ RegisterInv'
  BY <1>1, <1>3 DEF TakeInterrupt, StoppingInv, ControlInv, RegisterInv, At, ControlSteps, IrqSteps
<1>5. TailInv'
  BY <1>1, <1>3 DEF TakeInterrupt, shared, DisciplineInv, TailInv, At, Arg
<1>6. IdleInv'
  BY <1>1, <1>2 DEF TakeInterrupt, shared, DisciplineInv, IdleInv, LinesFollow, Clean, At
<1> QED
  BY <1>4, <1>5, <1>6 DEF DisciplineInv
\* Setting one line settles that line and no other.
LEMMA OneLine ==
  ASSUME NEW n \in 1..Len(LineOrder), NEW seen, NEW lines, NEW linesNext,
         \A i \in 1..Len(LineOrder) :
           i < n => (LineOrder[i] \in lines <=> LineOrder[i] \in seen),
         linesNext = IF LineOrder[n] \in seen THEN lines \cup {LineOrder[n]}
                                              ELSE lines \ {LineOrder[n]}
  PROVE  \A i \in 1..Len(LineOrder) :
           i < n + 1 => (LineOrder[i] \in linesNext <=> LineOrder[i] \in seen)
<1> SUFFICES ASSUME NEW i \in 1..Len(LineOrder), i < n + 1
             PROVE  LineOrder[i] \in linesNext <=> LineOrder[i] \in seen
  OBVIOUS
<1>1. CASE i = n
  BY <1>1
<1>2. CASE i # n
  <2>1. LineOrder[i] # LineOrder[n]
    BY <1>2, LineAssumption, Lines
  <2>2. i < n
    BY <1>2, Lines
  <2> QED
    BY <2>1, <2>2
<1> QED
  BY <1>1, <1>2

\* The rest of the handler, on the host's thread.
LEMMA HostInterruptStep ==
  ASSUME DisciplineInv, FrameInv', Interrupts("host")
  PROVE  DisciplineInv'
<1>0. thread["host"].at \in IrqSteps
  BY DEF Interrupts, PendRead, PendWrite, EnabledRead, PendingRead, SetLine, At, IrqSteps
<1>1. /\ Stopped
      /\ BeforeChange
      /\ AfterChange
      /\ ~CoreBusy
      /\ thread \in [Threads -> Frame]
  BY <1>0, InRegister DEF RegisterInv
<1>2. At("core", "line") => /\ irqsPending \subseteq Arg("core")
                           /\ irqLines \subseteq Arg("core")
                           /\ pc # "vector"
  BY <1>1 DEF DisciplineInv, TailInv
<1>3. /\ irqsPending \in SUBSET InterruptBits
      /\ irqsEnabled \in SUBSET InterruptBits
      /\ irqLines \in SUBSET InterruptBits
  BY SharedTypes DEF DisciplineInv, FrameInv, TypeOK
<1>4. CASE PendRead("host")
  <2>1. /\ thread'["host"].at = "pendWrite"
        /\ thread'["host"].clears = thread["host"].clears
        /\ thread'["host"].seen = irqsPending
        /\ thread'["core"] = thread["core"]
    BY <1>1, <1>4 DEF PendRead, Threads, Frame
  <2>2. UNCHANGED <<shared, before>>
    BY <1>4 DEF PendRead
  <2>3. Stopped' /\ AfterChange'
    BY <1>1, <2>1, <2>2 DEF Stopped, AfterChange, shared
  <2>4. BeforeChange'
    BY <1>1, <1>4, <2>1, <2>2
       DEF PendRead, BeforeChange, LinesFollow, Snapshot, shared, At
  <2> QED
    BY <1>0, <1>2, <2>1, <2>2, <2>3, <2>4, RegisterKeeps DEF RegisterInv, shared, IrqSteps
<1>5. CASE PendWrite("host")
  <2>1. /\ thread'["host"].at = "enabledRead"
        /\ thread'["core"] = thread["core"]
    BY <1>1, <1>5, GotoFrame DEF PendWrite, Threads, Steps, IrqSteps
  <2>2. /\ thread["host"].seen = irqsPending
        /\ before = Snapshot
        /\ ~thread["host"].clears => pc = "vector"
    BY <1>1, <1>5 DEF PendWrite, BeforeChange, At
  <2>3. Arg("host") \in SUBSET InterruptBits
    BY <1>5 DEF PendWrite, DisciplineInv, FrameInv, FramesFit, At
  <2>4. PendingChanged'
    BY <1>5, <2>2, <2>3 DEF PendWrite, PendingChanged, Snapshot
  <2>5. Stopped' /\ BeforeChange' /\ AfterChange'
    BY <1>1, <1>5, <2>1, <2>4 DEF PendWrite, Stopped, BeforeChange, AfterChange, At
  <2>6. At("core", "line") => irqsPending' \subseteq irqsPending
    BY <1>2, <1>5, <2>2 DEF PendWrite
  <2> QED
    BY <1>0, <1>2, <1>5, <2>1, <2>5, <2>6, RegisterKeeps DEF PendWrite, RegisterInv, IrqSteps
<1>6. CASE EnabledRead("host")
  <2>1. /\ thread'["host"].at = "pendingRead"
        /\ thread'["host"].seen = irqsEnabled
        /\ thread'["core"] = thread["core"]
    BY <1>1, <1>6 DEF EnabledRead, Threads, Frame
  <2>2. UNCHANGED <<shared, before>>
    BY <1>6 DEF EnabledRead
  <2>3. Stopped' /\ BeforeChange'
    BY <1>1, <2>1, <2>2 DEF Stopped, BeforeChange, shared
  <2>4. (PendingChanged \/ EnabledChanged)'
    BY <1>1, <1>6, <2>2 DEF EnabledRead, AfterChange, PendingChanged, EnabledChanged, shared, At
  <2>5. AfterChange'
    BY <2>1, <2>2, <2>4 DEF AfterChange, shared, At
  <2> QED
    BY <1>0, <1>2, <2>1, <2>2, <2>3, <2>5, RegisterKeeps DEF RegisterInv, shared, IrqSteps
<1>7. CASE PendingRead("host")
  <2>1. thread["host"].line = 1 /\ thread["host"].seen = irqsEnabled
    BY <1>1, <1>7
       DEF PendingRead, AfterChange, DisciplineInv, FrameInv, FramesFit, At, Threads
  <2>2. /\ thread'["host"].at = "line"
        /\ thread'["host"].seen = irqsEnabled \cap irqsPending
        /\ thread'["host"].line = 1
        /\ thread'["core"] = thread["core"]
    BY <1>1, <1>7, <2>1 DEF PendingRead, Threads, Frame
  <2>3. UNCHANGED <<shared, before>>
    BY <1>7 DEF PendingRead
  <2>4. Stopped' /\ BeforeChange'
    BY <1>1, <2>2, <2>3 DEF Stopped, BeforeChange, shared
  <2>5. (PendingChanged \/ EnabledChanged)'
    BY <1>1, <1>7, <2>3 DEF PendingRead, AfterChange, PendingChanged, EnabledChanged, shared, At
  <2>6. LinesSoFar'
    BY <2>2, <2>3 DEF LinesSoFar, shared
  <2>7. AfterChange'
    BY <2>2, <2>5, <2>6 DEF AfterChange, At
  <2> QED
    BY <1>0, <1>2, <2>2, <2>3, <2>4, <2>7, RegisterKeeps DEF RegisterInv, shared, IrqSteps
<1>8. CASE SetLine("host")
  <2>1. PICK n \in 1..Len(LineOrder) : n = thread["host"].line
    BY <1>1, Lines DEF Threads, Frame
  <2>2. PICK seen : seen = thread["host"].seen
    OBVIOUS
  <2>3. LinesSoFar
    BY <1>1, <1>8 DEF SetLine, AfterChange, At
  <2>4. irqLines' = IF LineOrder[n] \in seen THEN irqLines \cup {LineOrder[n]}
                                             ELSE irqLines \ {LineOrder[n]}
    BY <1>8, <2>1, <2>2 DEF SetLine
  <2>5. \A i \in 1..Len(LineOrder) :
          i < n + 1 => (LineOrder[i] \in irqLines' <=> LineOrder[i] \in seen)
    <3>1. \A i \in 1..Len(LineOrder) :
            i < n => (LineOrder[i] \in irqLines <=> LineOrder[i] \in seen)
      BY <2>1, <2>2, <2>3 DEF LinesSoFar
    <3> QED
      BY <2>4, <3>1, OneLine
  <2>6. seen = irqsEnabled \cap irqsPending
    BY <2>2, <2>3 DEF LinesSoFar
  <2>7. At("core", "line") => irqLines' \subseteq Arg("core")
    BY <1>2, <2>4, <2>6
  <2>8. UNCHANGED <<mode, halted, pc, irqsPending, irqsEnabled, knows, before>>
    BY <1>8 DEF SetLine
  <2>9. CASE n = Len(LineOrder)
    <3>1. thread'["host"] = Idle /\ thread'["core"] = thread["core"]
      BY <1>1, <1>8, <2>1, <2>9, ReturnFrame DEF SetLine, Threads
    <3>2. irqLines' \in SUBSET InterruptBits
      BY SharedTypes DEF FrameInv, TypeOK, Snapshot, Fields
    <3>3. \A i \in 1..Len(LineOrder) : LineOrder[i] \in irqLines' <=> LineOrder[i] \in seen
      BY <2>5, <2>9, Lines
    <3>4. irqLines' = irqsEnabled \cap irqsPending
      <4>1. seen \subseteq InterruptBits
        BY <1>3, <2>6
      <4>2. irqLines' = seen
        <5>1. ASSUME NEW bit \in InterruptBits PROVE bit \in irqLines' <=> bit \in seen
          <6>1. PICK i \in 1..Len(LineOrder) : LineOrder[i] = bit
            BY Lines
          <6> QED
            BY <3>3, <6>1
        <5> QED
          BY <3>2, <4>1, <5>1
      <4> QED
        BY <2>6, <4>2
    <3>5. ~CoreBusy'
      BY <1>1, <3>1, CoreBusyFrame
    <3>6. StoppingInv' /\ ControlInv' /\ RegisterInv'
      BY <3>1, <3>5
         DEF StoppingInv, ControlInv, RegisterInv, At, Idle, ControlSteps, IrqSteps
    <3>7. TailInv'
      BY <1>1, <2>7, <2>8, <3>1 DEF DisciplineInv, TailInv, At, Arg
    <3>8. IdleInv'
      BY <1>1, <2>8, <3>4 DEF Stopped, IdleInv, LinesFollow
    <3> QED
      BY <3>6, <3>7, <3>8 DEF DisciplineInv
  <2>10. CASE n # Len(LineOrder)
    <3>1. thread' = [thread EXCEPT !["host"].line = @ + 1]
      BY <1>8, <2>1, <2>10 DEF SetLine
    <3>2. /\ thread'["host"].at = "line"
          /\ thread'["host"].seen = seen
          /\ thread'["host"].line = n + 1
          /\ thread'["core"] = thread["core"]
      BY <1>1, <1>8, <2>1, <2>2, <3>1 DEF SetLine, At, Threads, Frame
    <3>3. Stopped' /\ BeforeChange'
      BY <1>1, <2>8, <3>2 DEF Stopped, BeforeChange
    <3>4. (PendingChanged \/ EnabledChanged)'
      BY <1>1, <1>8, <2>8 DEF SetLine, AfterChange, PendingChanged, EnabledChanged, At
    <3>5. LinesSoFar'
      BY <2>5, <2>6, <2>8, <3>2 DEF LinesSoFar
    <3>6. AfterChange'
      BY <3>2, <3>4, <3>5 DEF AfterChange, At
    <3> QED
      BY <1>0, <2>7, <2>8, <3>2, <3>3, <3>6, RegisterKeeps DEF RegisterInv, IrqSteps
  <2> QED
    BY <2>9, <2>10
<1> QED
  BY <1>4, <1>5, <1>6, <1>7, <1>8 DEF Interrupts
-----------------------------------------------------------------------------
(* The discipline: the core.                                               *)

\* An instruction of the program that does not involve the control block.
LEMMA ExecuteStep ==
  ASSUME DisciplineInv, FrameInv', Execute
  PROVE  DisciplineInv'
<1>1. ~CoreBusy /\ ~CoreBusy' /\ At("core", "idle") /\ ~halted
  BY CoreBusyFrame DEF Execute, CoreBusy, At
<1>2. /\ UNCHANGED <<mode, halted, irqsPending, irqsEnabled, irqLines, thread, knows>>
      /\ pc' = "body"
      /\ before' = [before EXCEPT !.pc = "body"]
      /\ before \in Fields
  BY DEF Execute, DisciplineInv, FrameInv, TypeOK
<1>3. StoppingInv' /\ TailInv'
  BY <1>1, <1>2 DEF StoppingInv, TailInv, At
<1>4. RegisterInv'
  BY <1>1, <1>2 DEF DisciplineInv, RegisterInv, Stopped
<1>5. IdleInv'
  BY <1>1, <1>2 DEF DisciplineInv, IdleInv, LinesFollow, Clean, At
<1>6. ControlInv'
  <2> SUFFICES ASSUME thread["host"].at \in ControlSteps PROVE ControlInv'
    BY <1>2 DEF ControlInv
  <2>1. ControlInv
    BY DEF DisciplineInv
  <2>2. CASE At("host", "setMode")
    BY <1>2, <2>1, <2>2 DEF ControlInv, LinesFollow, Clean, At, Arg
  <2>3. CASE ~At("host", "setMode")
    <3>1. UnfinishedControl
      BY <2>1, <2>3 DEF ControlInv
    <3>2. /\ before'.mode = before.mode
          /\ before'.halted = before.halted
          /\ before'.irqsPending = before.irqsPending
          /\ before'.irqsEnabled = before.irqsEnabled
          /\ before'.irqLines = before.irqLines
          /\ before'.pc = "body"
      BY <1>2 DEF Fields
    <3>3. ~(thread["host"].at \in {"resumeTest", "unhalt"} /\ Releasing)
      BY <1>1, <3>1 DEF UnfinishedControl, Releasing, Run, ResetMode, At
    <3>4. UnfinishedControl'
      BY <1>1, <1>2, <3>1, <3>2, <3>3 DEF UnfinishedControl, Releasing, At, Arg
    <3> QED
      BY <1>2, <2>1, <2>3, <3>4 DEF ControlInv, LinesFollow, Clean, At, Arg
  <2> QED
    BY <2>2, <2>3
<1> QED
  BY <1>3, <1>4, <1>5, <1>6 DEF DisciplineInv

\* While the core is stopping, the host is idle and only the core's part of the
\* invariant says anything.
LEMMA CoreKeeps ==
  ASSUME DisciplineInv, FrameInv', CoreBusy', At("host", "idle"), StoppingInv',
         thread'["host"] = thread["host"]
  PROVE  DisciplineInv'
<1>1. TailInv' /\ IdleInv'
  BY DEF TailInv, IdleInv
<1>2. ControlInv' /\ RegisterInv'
  BY DEF ControlInv, RegisterInv, At, ControlSteps, IrqSteps
<1> QED
  BY <1>1, <1>2 DEF DisciplineInv

\* Under SlowProgram the host is between handlers when the program stops itself:
\* in Control it may not be, and in an interrupt register the core is stopped.
LEMMA StopFindsHostIdle ==
  ASSUME SlowProgram, DisciplineInv, NEW bit \in {"HostReq", "Finish"}, BeginStop(bit)
  PROVE  At("host", "idle")
<1>1. thread["host"].at \in Steps /\ thread["host"].at \notin CoreSteps
  BY DEF DisciplineInv, FrameInv, TypeOK, FramesFit, Frame
<1>2. thread["host"].at \notin ControlSteps
  BY DEF BeginStop
<1>3. thread["host"].at \notin IrqSteps
  BY DEF BeginStop, DisciplineInv, RegisterInv, Stopped
<1> QED
  BY <1>1, <1>2, <1>3 DEF Steps, At

\* The core executes, so the mode is Run and the interrupts are as the host left
\* them when it started the core.
LEMMA BeginStopStep ==
  ASSUME SlowProgram, DisciplineInv, FrameInv', NEW bit \in {"HostReq", "Finish"}, BeginStop(bit)
  PROVE  DisciplineInv'
<1>1. /\ thread'["core"].at = "runTest"
      /\ thread'["core"].arg = {bit}
      /\ thread'["core"].clears = FALSE
      /\ thread'["host"] = thread["host"]
      /\ At("core", "idle")
      /\ before' = Snapshot
  <2>1. Begin("core", "runTest", {bit}, FALSE) /\ "runTest" \in Steps
        /\ {bit} \in (SUBSET InterruptBits) \cup Mode
    BY Lines DEF BeginStop, Steps, CoreSteps
  <2> QED
    BY <2>1, BeginFrame DEF DisciplineInv, FrameInv, TypeOK, Threads
<1>2. At("host", "idle") /\ ~CoreBusy /\ ~halted
  BY <1>1, StopFindsHostIdle DEF BeginStop, CoreBusy, At
<1>3. mode = Run /\ Clean /\ ~knows
  BY <1>2 DEF DisciplineInv, IdleInv, Run
<1>4. pc' = PointOf({bit})
  BY DEF BeginStop, PointOf
<1>5. CoreBusy'
  BY <1>1 DEF CoreBusy, At
<1>6. StoppingInv'
  BY <1>1, <1>2, <1>3, <1>4
     DEF BeginStop, StoppingInv, Clean, Snapshot, CoreSteps, At, Arg
<1> QED
  BY <1>1, <1>2, <1>5, <1>6, CoreKeeps

\* ExecHostReq and ExecFinish up to their use of the interrupt fields.
LEMMA StopStep ==
  ASSUME DisciplineInv, FrameInv', RunTest \/ HaltSelf \/ StopMode
  PROVE  DisciplineInv'
<1>1. PICK step \in {"halt", "stopMode", "pendRead"} :
        /\ Goto("core", step)
        /\ RunTest => step = "halt"
        /\ HaltSelf => step = "stopMode"
        /\ StopMode => step = "pendRead"
  BY DEF RunTest, HaltSelf, StopMode, At
<1>2. /\ thread'["core"].at = step
      /\ thread'["core"].arg = thread["core"].arg
      /\ thread'["core"].clears = thread["core"].clears
      /\ thread'["host"] = thread["host"]
  BY <1>1, GotoFrame DEF DisciplineInv, FrameInv, TypeOK, Threads, Steps, CoreSteps, IrqSteps
<1>3. CoreBusy /\ CoreBusy'
  BY <1>2 DEF RunTest, HaltSelf, StopMode, CoreBusy, At
<1>4. StoppingInv
  BY DEF DisciplineInv
<1>5. Arg("core") \in {{"HostReq"}, {"Finish"}}
  BY DEF DisciplineInv, FrameInv, FramesFit, RunTest, HaltSelf, StopMode, At
<1>6. StoppingInv'
  <2>1. CASE RunTest
    BY <1>1, <1>2, <1>3, <1>4, <2>1 DEF RunTest, shared, StoppingInv, CoreSteps, At, Arg
  <2>2. CASE HaltSelf
    BY <1>1, <1>2, <1>3, <1>4, <2>2 DEF HaltSelf, StoppingInv, CoreSteps, At, Arg
  <2>3. CASE StopMode
    BY <1>1, <1>2, <1>3, <1>4, <1>5, <2>3
       DEF StopMode, StoppingInv, StopOf, CoreSteps, At, Arg
  <2> QED
    BY <2>1, <2>2, <2>3
<1> QED
  BY <1>2, <1>3, <1>4, <1>6, CoreKeeps DEF StoppingInv

\* The core's read-modify-write of irqsPending, and the reads of IrqUpdate.
LEMMA CorePendStep ==
  ASSUME DisciplineInv, FrameInv',
         PendRead("core") \/ PendWrite("core") \/ EnabledRead("core")
  PROVE  DisciplineInv'
<1>0. /\ CoreBusy
      /\ StoppingInv
      /\ thread \in [Threads -> Frame]
  BY DEF PendRead, PendWrite, EnabledRead, CoreBusy, At, DisciplineInv, FrameInv, TypeOK, Threads
<1>1. CASE PendRead("core")
  <2>1. /\ thread'["core"].at = "pendWrite"
        /\ thread'["core"].arg = thread["core"].arg
        /\ thread'["core"].clears = thread["core"].clears
        /\ thread'["core"].seen = irqsPending
        /\ thread'["host"] = thread["host"]
    BY <1>0, <1>1 DEF PendRead, Threads, Frame
  <2>2. StoppingInv'
    BY <1>0, <1>1, <2>1 DEF PendRead, shared, StoppingInv, CoreSteps, At, Arg
  <2>3. CoreBusy'
    BY <2>1 DEF CoreBusy, At
  <2> QED
    BY <1>0, <2>1, <2>2, <2>3, CoreKeeps DEF StoppingInv
<1>2. CASE PendWrite("core")
  <2>1. /\ thread'["core"].at = "enabledRead"
        /\ thread'["core"].arg = thread["core"].arg
        /\ thread'["core"].clears = thread["core"].clears
        /\ thread'["host"] = thread["host"]
    BY <1>0, <1>2, GotoFrame DEF PendWrite, Threads, Steps, IrqSteps
  <2>2. irqsPending' = Arg("core")
    BY <1>0, <1>2 DEF PendWrite, StoppingInv
  <2>3. StoppingInv'
    BY <1>0, <1>2, <2>1, <2>2 DEF PendWrite, StoppingInv, CoreSteps, At, Arg
  <2>4. CoreBusy'
    BY <2>1 DEF CoreBusy, At
  <2> QED
    BY <1>0, <2>1, <2>3, <2>4, CoreKeeps DEF StoppingInv
<1>3. CASE EnabledRead("core")
  <2>1. /\ thread'["core"].at = "pendingRead"
        /\ thread'["core"].arg = thread["core"].arg
        /\ thread'["core"].clears = thread["core"].clears
        /\ thread'["core"].seen = irqsEnabled
        /\ thread'["host"] = thread["host"]
    BY <1>0, <1>3 DEF EnabledRead, Threads, Frame
  <2>2. StoppingInv'
    BY <1>0, <1>3, <2>1 DEF EnabledRead, shared, StoppingInv, CoreSteps, At, Arg
  <2>3. CoreBusy'
    BY <2>1 DEF CoreBusy, At
  <2> QED
    BY <1>0, <2>1, <2>2, <2>3, CoreKeeps DEF StoppingInv
<1> QED
  BY <1>1, <1>2, <1>3
\* Having read both masks, the core starts on the lines; its own is among them.
LEMMA CorePendingReadStep ==
  ASSUME DisciplineInv, FrameInv', PendingRead("core")
  PROVE  DisciplineInv' /\ CoreBusy'
<1>1. /\ CoreBusy
      /\ StoppingInv
      /\ thread \in [Threads -> Frame]
      /\ Arg("core") \in {{"HostReq"}, {"Finish"}}
      /\ thread["core"].line = 1
  BY DEF PendingRead, CoreBusy, At, DisciplineInv, FrameInv, TypeOK, FramesFit, Threads
<1>2. /\ thread'["core"].at = "line"
      /\ thread'["core"].arg = thread["core"].arg
      /\ thread'["core"].clears = thread["core"].clears
      /\ thread'["core"].seen = thread["core"].seen \cap irqsPending
      /\ thread'["core"].line = 1
      /\ thread'["host"] = thread["host"]
  BY <1>1 DEF PendingRead, Threads, Frame
<1>3. CoreBusy'
  <2>1. PICK i \in 1..Len(LineOrder) : LineOrder[i] \in Arg("core")
    BY <1>1, Lines, LineAssumption
  <2> QED
    BY <1>2, <2>1 DEF CoreBusy, At, Arg
<1>4. thread["core"].seen = InterruptBits /\ irqsPending = Arg("core")
  BY <1>1 DEF PendingRead, StoppingInv, CoreSteps, At
<1>5. thread'["core"].seen = Arg("core")
  BY <1>1, <1>2, <1>4, Lines
<1>6. StoppingInv'
  BY <1>1, <1>2, <1>4, <1>5 DEF PendingRead, shared, StoppingInv, CoreSteps, At, Arg
<1> QED
  BY <1>1, <1>2, <1>3, <1>6, CoreKeeps DEF StoppingInv

\* The core sets one line, then leaves the handler or goes on to the next.
LEMMA CoreLine ==
  ASSUME DisciplineInv, SetLine("core")
  PROVE  /\ Arg("core") \in {{"HostReq"}, {"Finish"}}
         /\ At("core", "line")
         /\ thread["core"].seen = Arg("core")
         /\ UNCHANGED <<mode, halted, pc, irqsPending, irqsEnabled, knows, before>>
         /\ thread'["host"] = thread["host"]
         /\ \E n \in 1..Len(LineOrder) :
              /\ n = thread["core"].line
              /\ irqLines' = IF LineOrder[n] \in Arg("core") THEN irqLines \cup {LineOrder[n]}
                                                             ELSE irqLines \ {LineOrder[n]}
              /\ n = Len(LineOrder) => thread'["core"] = Idle
              /\ n # Len(LineOrder) => /\ thread'["core"].at = "line"
                                       /\ thread'["core"].arg = thread["core"].arg
                                       /\ thread'["core"].clears = thread["core"].clears
                                       /\ thread'["core"].seen = thread["core"].seen
                                       /\ thread'["core"].line = n + 1
<1>1. /\ StoppingInv
      /\ TailInv
      /\ thread \in [Threads -> Frame]
      /\ Arg("core") \in {{"HostReq"}, {"Finish"}}
      /\ At("core", "line")
  BY DEF SetLine, At, DisciplineInv, FrameInv, TypeOK, FramesFit, Threads
<1>2. PICK n \in 1..Len(LineOrder) : n = thread["core"].line
  BY <1>1, Lines DEF Threads, Frame
<1>3. thread["core"].seen = Arg("core")
  BY <1>1 DEF StoppingInv, TailInv
<1>4. irqLines' = IF LineOrder[n] \in Arg("core") THEN irqLines \cup {LineOrder[n]}
                                                  ELSE irqLines \ {LineOrder[n]}
  BY <1>2, <1>3 DEF SetLine
<1>5. UNCHANGED <<mode, halted, pc, irqsPending, irqsEnabled, knows, before>>
  BY DEF SetLine
<1>6. CASE n = Len(LineOrder)
  <2>1. thread'["core"] = Idle /\ thread'["host"] = thread["host"]
    BY <1>1, <1>2, <1>6, ReturnFrame DEF SetLine, Threads
  <2> QED
    BY <1>1, <1>2, <1>3, <1>4, <1>5, <1>6, <2>1
<1>7. CASE n # Len(LineOrder)
  <2>1. thread' = [thread EXCEPT !["core"].line = @ + 1]
    BY <1>2, <1>7 DEF SetLine
  <2>2. /\ thread'["host"] = thread["host"]
        /\ thread'["core"].at = "line"
        /\ thread'["core"].arg = thread["core"].arg
        /\ thread'["core"].clears = thread["core"].clears
        /\ thread'["core"].seen = thread["core"].seen
        /\ thread'["core"].line = n + 1
    BY <1>1, <1>2, <2>1 DEF At, Threads, Frame
  <2> QED
    BY <1>1, <1>2, <1>3, <1>4, <1>5, <1>7, <2>2
<1> QED
  BY <1>6, <1>7

\* Behind its own line the core sets no line and is never stopping again.
LEMMA TailLine ==
  ASSUME DisciplineInv, SetLine("core"), ~CoreBusy
  PROVE  irqLines' = irqLines /\ ~CoreBusy'
<1>1. PICK n \in 1..Len(LineOrder) :
        /\ n = thread["core"].line
        /\ irqLines' = IF LineOrder[n] \in Arg("core") THEN irqLines \cup {LineOrder[n]}
                                                       ELSE irqLines \ {LineOrder[n]}
        /\ n = Len(LineOrder) => thread'["core"] = Idle
        /\ n # Len(LineOrder) => /\ thread'["core"].at = "line"
                                 /\ thread'["core"].arg = thread["core"].arg
                                 /\ thread'["core"].line = n + 1
  BY CoreLine
<1>2. At("core", "line")
  BY CoreLine
<1>3. \A i \in n..Len(LineOrder) : LineOrder[i] \notin Arg("core")
  BY <1>1, <1>2 DEF CoreBusy
<1>4. Len(LineOrder) \in Nat
  BY Lines
<1>5. LineOrder[n] \notin Arg("core")
  BY <1>3, <1>4
<1>6. irqLines \subseteq Arg("core")
  BY <1>2 DEF DisciplineInv, TailInv
<1>7. irqLines' = irqLines
  BY <1>1, <1>5, <1>6
<1>8. ~CoreBusy'
  <2>1. CASE n = Len(LineOrder)
    BY <1>1, <2>1 DEF CoreBusy, At, Idle
  <2>2. CASE n # Len(LineOrder)
    <3>1. \A i \in n + 1 .. Len(LineOrder) : LineOrder[i] \notin Arg("core")
      BY <1>3, <1>4
    <3> QED
      BY <1>1, <2>2, <3>1 DEF CoreBusy, At, Arg
  <2> QED
    BY <2>1, <2>2
<1> QED
  BY <1>7, <1>8

\* The core raises its own line, or lowers another.  Up to its own line the host
\* is idle and learns nothing; from there on the lines are as they should be.
LEMMA CoreSetLineStep ==
  ASSUME DisciplineInv, FrameInv', SetLine("core")
  PROVE  DisciplineInv'
<1>1. /\ StoppingInv
      /\ TailInv
      /\ Arg("core") \in {{"HostReq"}, {"Finish"}}
      /\ At("core", "line")
  BY CoreLine DEF DisciplineInv
<1>2. PICK n \in 1..Len(LineOrder) :
        /\ n = thread["core"].line
        /\ irqLines' = IF LineOrder[n] \in Arg("core") THEN irqLines \cup {LineOrder[n]}
                                                       ELSE irqLines \ {LineOrder[n]}
        /\ n = Len(LineOrder) => thread'["core"] = Idle
        /\ n # Len(LineOrder) => /\ thread'["core"].at = "line"
                                 /\ thread'["core"].arg = thread["core"].arg
                                 /\ thread'["core"].clears = thread["core"].clears
                                 /\ thread'["core"].seen = thread["core"].seen
                                 /\ thread'["core"].line = n + 1
  BY CoreLine
<1>3. thread["core"].seen = Arg("core")
  BY CoreLine
<1>4. irqLines' = IF LineOrder[n] \in Arg("core") THEN irqLines \cup {LineOrder[n]}
                                                  ELSE irqLines \ {LineOrder[n]}
  BY <1>2
<1>5. UNCHANGED <<mode, halted, pc, irqsPending, irqsEnabled, knows, before>>
  BY CoreLine
<1>6. thread'["host"] = thread["host"]
  BY CoreLine
<1>7. CASE CoreBusy /\ LineOrder[n] \notin Arg("core")
  <2>1. PICK i \in 1..Len(LineOrder) : i >= n /\ LineOrder[i] \in Arg("core")
    <3>1. PICK i \in n .. Len(LineOrder) : LineOrder[i] \in Arg("core")
      BY <1>1, <1>2, <1>7 DEF CoreBusy
    <3>2. i \in 1..Len(LineOrder) /\ i >= n
      BY Lines
    <3> QED
      BY <3>1, <3>2
  <2>2. i \in n + 1 .. Len(LineOrder) /\ n # Len(LineOrder)
    <3>1. i # n
      BY <1>7, <2>1
    <3>2. Len(LineOrder) \in Nat
      BY Lines
    <3>3. i > n
      BY <2>1, <3>1, <3>2
    <3> QED
      BY <3>2, <3>3
  <2>3. CoreBusy'
    BY <1>2, <1>6, <2>1, <2>2 DEF CoreBusy, At, Arg
  <2>4. irqLines' = irqLines
    BY <1>1, <1>4, <1>7 DEF StoppingInv
  <2>5. StoppingInv'
    BY <1>1, <1>3, <1>5, <1>2, <1>6, <1>7, <2>2, <2>4 DEF StoppingInv, CoreSteps, At, Arg
  <2> QED
    BY <1>1, <1>2, <1>6, <1>7, <2>3, <2>5, CoreKeeps DEF StoppingInv
<1>8. CASE CoreBusy /\ LineOrder[n] \in Arg("core")
  <2>1. ~CoreBusy'
    <3>1. CASE n = Len(LineOrder)
      BY <1>2, <1>6, <3>1 DEF CoreBusy, At, Idle
    <3>2. CASE n # Len(LineOrder)
      <4>1. ASSUME NEW i \in n + 1 .. Len(LineOrder) PROVE LineOrder[i] \notin Arg("core")
        <5>1. i \in DOMAIN LineOrder /\ n \in DOMAIN LineOrder /\ i # n
          BY Lines
        <5>2. LineOrder[i] # LineOrder[n]
          BY <5>1, LineAssumption
        <5> QED
          BY <1>1, <1>8, <5>2
      <4> QED
        BY <1>2, <1>6, <3>2, <4>1 DEF CoreBusy, At, Arg
    <3> QED
      BY <3>1, <3>2
  <2>2. /\ At("host", "idle") /\ ~knows /\ halted
        /\ irqsEnabled = InterruptBits
        /\ irqsPending = Arg("core")
        /\ irqLines = {}
        /\ mode = StopOf(Arg("core"))
        /\ pc = PointOf(Arg("core"))
    BY <1>1, <1>8 DEF StoppingInv, CoreSteps, At
  <2>3. irqLines' = Arg("core")
    BY <1>1, <1>4, <1>8, <2>2
  <2>4. StoppingInv' /\ ControlInv' /\ RegisterInv'
    BY <1>2, <1>6, <2>1, <2>2 DEF StoppingInv, ControlInv, RegisterInv, At, ControlSteps, IrqSteps
  <2>5. TailInv'
    BY <1>1, <1>3, <1>5, <1>2, <1>6, <2>2, <2>3 DEF TailInv, PointOf, At, Arg, Idle
  <2>6. mode # Run /\ (pc \in {"vector", "afterFinish"} => "SwReset" \in mode)
    BY <1>1, <2>2 DEF StopOf, PointOf, Run, ResetMode
  <2>7. LinesFollow'
    BY <1>1, <1>5, <2>2, <2>3, Lines DEF LinesFollow
  <2>8. IdleInv'
    BY <1>5, <2>2, <2>6, <2>7 DEF IdleInv
  <2> QED
    BY <2>4, <2>5, <2>8 DEF DisciplineInv
<1>9. CASE ~CoreBusy
  <2>1. irqsPending \subseteq Arg("core") /\ irqLines \subseteq Arg("core") /\ pc # "vector"
    BY <1>1, <1>9 DEF TailInv
  <2>2. irqLines' = irqLines
    BY <1>9, TailLine
  <2>3. ~CoreBusy'
    BY <1>9, TailLine
  <2>4. StoppingInv'
    BY <2>3 DEF StoppingInv
  <2>5. TailInv'
    BY <1>3, <1>5, <1>2, <1>6, <2>1, <2>2 DEF TailInv, At, Arg, Idle
  <2>6. IdleInv'
    BY <1>5, <1>2, <1>6, <1>9, <2>2, <2>3 DEF DisciplineInv, IdleInv, LinesFollow, Clean, At
  <2>7. ControlInv'
    BY <1>5, <1>2, <1>6, <2>2
       DEF DisciplineInv, ControlInv, UnfinishedControl, Releasing, LinesFollow, Clean, At, Arg
  <2>8. RegisterInv'
    <3>1. thread["host"].at \in IrqSteps => Stopped /\ BeforeChange /\ AfterChange
      BY DEF DisciplineInv, RegisterInv
    <3>2. Stopped' <=> Stopped
      BY <1>5 DEF Stopped
    <3>3. BeforeChange' <=> BeforeChange
      BY <1>5, <1>2, <1>6, <2>2 DEF BeforeChange, LinesFollow, Snapshot, At
    <3>4. AfterChange' <=> AfterChange
      BY <1>5, <1>2, <1>6, <2>2 DEF AfterChange, LinesSoFar, PendingChanged, EnabledChanged, At
    <3> QED
      BY <1>2, <1>6, <3>1, <3>2, <3>3, <3>4 DEF RegisterInv
  <2> QED
    BY <2>4, <2>5, <2>6, <2>7, <2>8 DEF DisciplineInv
<1> QED
  BY <1>7, <1>8, <1>9

-----------------------------------------------------------------------------
(* The discipline as an invariant.                                         *)

\* Every step of a polite host and a slow program keeps the discipline.
LEMMA DisciplineStep ==
  ASSUME PoliteHost, SlowProgram, DisciplineInv, [Next]_vars
  PROVE  DisciplineInv'
<1>1. FrameInv'
  BY FrameStep DEF DisciplineInv
<1>2. ASSUME HostThread PROVE DisciplineInv'
  BY <1>1, <1>2, ControlStep, SetModeStep, BeginControlStep, BeginRegisterStep, EnableStep,
     TakeInterruptStep, HostInterruptStep
     DEF HostThread, Control, IntrRegisters
<1>3. ASSUME CoreThread PROVE DisciplineInv'
  BY <1>1, <1>3, ExecuteStep, BeginStopStep, StopStep, CorePendStep, CorePendingReadStep,
     CoreSetLineStep
     DEF CoreThread, Interrupts
<1>4. ASSUME UNCHANGED vars PROVE DisciplineInv'
  <2>1. UNCHANGED <<mode, halted, pc, irqsPending, irqsEnabled, irqLines, thread, knows, before>>
    BY <1>4 DEF vars, shared
  <2> HIDE <1>4
  <2>2. CoreBusy' <=> CoreBusy
    BY <2>1, CoreBusyFrame
  <2>3. StoppingInv' /\ TailInv' /\ IdleInv'
    BY <2>1, <2>2
       DEF DisciplineInv, StoppingInv, TailInv, IdleInv, LinesFollow, Clean, At, Arg
  <2>4. ControlInv'
    BY <2>1
       DEF DisciplineInv, ControlInv, UnfinishedControl, Releasing, LinesFollow, Clean, At, Arg
  <2>5. RegisterInv'
    BY <2>1
       DEF DisciplineInv, RegisterInv, Stopped, BeforeChange, AfterChange, LinesSoFar,
           LinesFollow, PendingChanged, EnabledChanged, Snapshot, At
  <2> QED
    BY <1>1, <2>3, <2>4, <2>5 DEF DisciplineInv
<1> QED
  BY <1>2, <1>3, <1>4 DEF Next

\* The discipline holds in every reachable state.
LEMMA DisciplineInvariant ==
  PoliteHost /\ SlowProgram => (Spec => []DisciplineInv)
<1> SUFFICES ASSUME PoliteHost, SlowProgram PROVE Spec => []DisciplineInv
  OBVIOUS
<1>1. Init => DisciplineInv
  <2> SUFFICES ASSUME Init PROVE DisciplineInv
    OBVIOUS
  <2>1. thread["host"].at = "idle" /\ thread["core"].at = "idle"
    BY DEF Init, Idle
  <2>2. ~CoreBusy
    BY <2>1 DEF CoreBusy, At
  <2>3. StoppingInv /\ TailInv /\ ControlInv /\ RegisterInv
    BY <2>1, <2>2 DEF StoppingInv, TailInv, ControlInv, RegisterInv, At, ControlSteps, IrqSteps
  <2>4. IdleInv
    BY DEF Init, IdleInv, LinesFollow, Run, ResetMode
  <2> QED
    BY <2>3, <2>4, FrameInit DEF DisciplineInv
<1>2. DisciplineInv /\ [Next]_vars => DisciplineInv'
  BY DisciplineStep
<1> QED
  BY <1>1, <1>2, PTL DEF Spec

-----------------------------------------------------------------------------
(* The handlers are atomic: refinement of ControlBlock.                    *)

AbstractIsBefore ==
  /\ Effective("mode") = before.mode
  /\ Effective("halted") = before.halted
  /\ Effective("pc") = before.pc
  /\ Effective("irqsPending") = before.irqsPending
  /\ Effective("irqsEnabled") = before.irqsEnabled
  /\ Effective("irqLines") = before.irqLines

AbstractIsCurrent ==
  /\ Effective("halted") = halted
  /\ Effective("pc") = pc
  /\ Effective("irqsPending") = irqsPending
  /\ Effective("irqsEnabled") = irqsEnabled
  /\ Effective("irqLines") = irqLines

\* The abstract state is the one a handler found until the handler takes effect.
EffectiveCases ==
  /\ HostBusy \/ CoreBusy => AbstractIsBefore
  /\ ~HostBusy /\ ~CoreBusy =>
       /\ AbstractIsCurrent
       /\ Effective("mode") = IF At("host", "setMode") THEN Arg("host") ELSE mode

\* The abstract fields of every place of every handler.
LEMMA EffectiveFields == DisciplineInv => EffectiveCases
<1> SUFFICES ASSUME DisciplineInv PROVE EffectiveCases
  OBVIOUS
<1>1. At("host", "setMode") => ~HostBusy /\ ~CoreBusy
  BY HostAlone DEF HostBusy, At
<1>2. CASE HostBusy \/ CoreBusy
  BY <1>1, <1>2 DEF EffectiveCases, AbstractIsBefore, Effective
<1>3. CASE ~HostBusy /\ ~CoreBusy
  BY <1>1, <1>3 DEF EffectiveCases, AbstractIsCurrent, Effective, Snapshot
<1> QED
  BY <1>2, <1>3

\* In the next state too.
LEMMA EffectiveFieldsNext == DisciplineInv' => EffectiveCases'
  BY EffectiveFields, PTL

\* A step inside a handler, before it takes effect, is no step of the abstract
\* control block.
LEMMA BusyStutters ==
  ASSUME DisciplineInv, DisciplineInv',
         HostBusy \/ CoreBusy, (HostBusy \/ CoreBusy)', UNCHANGED before
  PROVE  UNCHANGED Atomic!vars
<1>1. AbstractIsBefore /\ AbstractIsBefore'
  BY EffectiveFields, EffectiveFieldsNext DEF EffectiveCases
<1> QED
  BY <1>1 DEF AbstractIsBefore, Atomic!vars, Atomic!irqVars

\* Nor is entering one.
LEMMA BeginStutters ==
  ASSUME DisciplineInv, DisciplineInv',
         At("host", "idle"), ~CoreBusy, (HostBusy \/ CoreBusy)', before' = Snapshot
  PROVE  UNCHANGED Atomic!vars
<1>1. AbstractIsCurrent /\ Effective("mode") = mode
  BY EffectiveFields DEF EffectiveCases, HostBusy, At
<1>2. AbstractIsBefore'
  BY EffectiveFields, EffectiveFieldsNext DEF EffectiveCases
<1> QED
  BY <1>1, <1>2 DEF AbstractIsCurrent, AbstractIsBefore, Snapshot, Atomic!vars, Atomic!irqVars

\* The step that settles what Control does is the write of the abstract Control.
LEMMA ControlTakesEffect ==
  ASSUME DisciplineInv, DisciplineInv', ResumeTest \/ Unhalt, ~HostBusy'
  PROVE  \E newMode \in Atomic!Mode : Atomic!WriteControl(newMode)
<1>1. /\ thread["host"].at \in {"resumeTest", "unhalt"}
      /\ thread \in [Threads -> Frame]
      /\ HostBusy
      /\ UNCHANGED <<mode, pc, irqsPending, irqsEnabled, irqLines>>
  BY DEF ResumeTest, Unhalt, shared, HostBusy, At, DisciplineInv, FrameInv, TypeOK, Threads
<1>2. PICK step \in {"unhalt", "setMode"} : Goto("host", step)
  BY DEF ResumeTest, Unhalt
<1>3. /\ thread'["host"].at = step
      /\ thread'["host"].arg = thread["host"].arg
      /\ thread'["core"] = thread["core"]
  BY <1>1, <1>2, GotoFrame DEF Threads, Steps, ControlSteps
<1>4. thread'["host"].at = "setMode"
  BY <1>2, <1>3 DEF HostBusy, At
<1>5. ~CoreBusy /\ ~CoreBusy'
  BY <1>1, <1>3, HostAlone, CoreBusyFrame DEF At
<1>6. PICK newMode \in Mode : newMode = Arg("host")
  BY <1>1 DEF DisciplineInv, FrameInv, FramesFit, ControlSteps
<1>7. /\ Effective("mode") = before.mode
      /\ Effective("halted") = before.halted
      /\ Effective("pc") = before.pc
      /\ Effective("irqsPending") = before.irqsPending
      /\ Effective("irqsEnabled") = before.irqsEnabled
      /\ Effective("irqLines") = before.irqLines
  BY <1>1, EffectiveFields DEF EffectiveCases, AbstractIsBefore
<1>8. /\ Effective("mode")' = newMode
      /\ Effective("halted")' = halted'
      /\ Effective("pc")' = pc
      /\ Effective("irqsPending")' = irqsPending
      /\ Effective("irqsEnabled")' = irqsEnabled
      /\ Effective("irqLines")' = irqLines
  BY <1>1, <1>3, <1>4, <1>5, <1>6, EffectiveFieldsNext
     DEF EffectiveCases, AbstractIsCurrent, HostBusy, At, Arg
<1>9. UnfinishedControl
  BY <1>1 DEF DisciplineInv, ControlInv, ControlSteps, At
<1>10. /\ before.irqsPending = irqsPending
       /\ before.irqsEnabled = irqsEnabled
       /\ before.irqLines = irqLines
       /\ before.halted <=> before.mode # Run
       /\ pc = IF Releasing THEN "start" ELSE before.pc
       /\ halted \in BOOLEAN /\ before.halted \in BOOLEAN /\ before.mode \in Mode
  BY <1>1, <1>9
     DEF UnfinishedControl, At, DisciplineInv, FrameInv, TypeOK, Snapshot, Fields
<1>11. halted' <=> newMode # Run
  <2>1. ControlInv' /\ thread'["host"].at \in ControlSteps
    BY <1>4 DEF DisciplineInv, ControlSteps
  <2>2. Arg("host")' = newMode
    BY <1>3, <1>6 DEF Arg
  <2> QED
    BY <1>4, <2>1, <2>2 DEF ControlInv, At
<1>12. halted' \in BOOLEAN
  BY DEF DisciplineInv, FrameInv, TypeOK, Snapshot, Fields
<1>13. UNCHANGED Atomic!irqVars
  BY <1>7, <1>8, <1>10 DEF Atomic!irqVars
<1>14. CASE Releasing
  <2>1. Atomic!Release(newMode)
    BY <1>6, <1>7, <1>8, <1>10, <1>11, <1>12, <1>14 DEF Atomic!Release, Atomic!Run, Releasing, Run
  <2> QED
    BY <1>13, <2>1 DEF Atomic!WriteControl, Atomic!Mode, Mode
<1>15. CASE ~Releasing
  <2>1. Effective("pc")' = Effective("pc")
    BY <1>7, <1>8, <1>10, <1>15
  <2>2. CASE before.mode = Run /\ newMode # Run
    <3>1. Atomic!Pause(newMode)
      BY <1>7, <1>8, <1>11, <1>12, <2>1, <2>2 DEF Atomic!Pause, Atomic!Run, Run
    <3> QED
      BY <1>13, <3>1 DEF Atomic!WriteControl, Atomic!Mode, Mode
  <2>3. CASE before.mode # Run /\ newMode = Run
    <3>1. "SwReset" \notin before.mode
      BY <1>6, <1>15, <2>3 DEF Releasing, Run
    <3>2. Atomic!Unfreeze(newMode)
      BY <1>7, <1>8, <1>11, <1>12, <2>1, <2>3, <3>1 DEF Atomic!Unfreeze, Atomic!Run, Run
    <3> QED
      BY <1>13, <3>2 DEF Atomic!WriteControl, Atomic!Mode, Mode
  <2>4. CASE before.mode = Run <=> newMode = Run
    <3>1. halted' = before.halted
      BY <1>10, <1>11, <1>12, <2>4
    <3>2. Atomic!SetModeOnly(newMode)
      BY <1>6, <1>7, <1>8, <1>15, <2>1, <2>4, <3>1
         DEF Atomic!SetModeOnly, Atomic!Run, Run, Releasing
    <3> QED
      BY <1>13, <3>2 DEF Atomic!WriteControl, Atomic!Mode, Mode
  <2> QED
    BY <2>2, <2>3, <2>4
<1> QED
  BY <1>14, <1>15
\* Before and after a step that starts and ends outside any handler's grip the
\* abstract state is the current one.
LEMMA QuietFields ==
  ASSUME DisciplineInv, ~HostBusy, ~CoreBusy
  PROVE  /\ AbstractIsCurrent
         /\ ~At("host", "setMode") => Effective("mode") = mode
  BY EffectiveFields DEF EffectiveCases

\* The same of the state after a step.
LEMMA QuietFieldsNext ==
  ASSUME DisciplineInv', ~HostBusy', ~CoreBusy'
  PROVE  /\ AbstractIsCurrent'
         /\ ~At("host", "setMode")' => Effective("mode")' = mode'
  BY EffectiveFieldsNext DEF EffectiveCases

\* A write to an interrupt register takes effect when it returns.
LEMMA RegisterTakesEffect ==
  ASSUME DisciplineInv, DisciplineInv', SetLine("host"), ~HostBusy'
  PROVE  \E value \in SUBSET InterruptBits :
           \/ Atomic!WriteIntrState(value)
           \/ Atomic!WriteIntrEnable(value)
           \/ Atomic!WriteIntrTest(value)
<1>1. /\ At("host", "line") /\ thread["host"].at \in IrqSteps
      /\ thread \in [Threads -> Frame]
      /\ HostBusy
      /\ UNCHANGED <<mode, halted, pc, irqsPending, irqsEnabled, before>>
  BY DEF SetLine, HostBusy, At, IrqSteps, DisciplineInv, FrameInv, TypeOK, Threads
<1>2. /\ Stopped
      /\ PendingChanged \/ EnabledChanged
      /\ ~CoreBusy
  BY <1>1, InRegister DEF RegisterInv, AfterChange, At
<1>3. thread'["host"] = Idle /\ thread'["core"] = thread["core"]
  <2>1. CASE thread["host"].line = Len(LineOrder)
    BY <1>1, <2>1, ReturnFrame DEF SetLine, Threads
  <2>2. CASE thread["host"].line # Len(LineOrder)
    <3>1. thread' = [thread EXCEPT !["host"].line = @ + 1]
      BY <2>2 DEF SetLine
    <3>2. thread'["host"].at = "line"
      BY <1>1, <3>1 DEF At, Threads, Frame
    <3> QED
      BY <3>2 DEF HostBusy, At
  <2> QED
    BY <2>1, <2>2
<1>4. ~CoreBusy' /\ At("host", "idle")' /\ ~At("host", "setMode")'
  BY <1>2, <1>3, CoreBusyFrame DEF At, Idle
<1>5. AbstractIsBefore
  BY <1>1, EffectiveFields DEF EffectiveCases
<1>6. AbstractIsCurrent' /\ Effective("mode")' = mode'
  BY <1>4, QuietFieldsNext
<1>7. irqLines' = irqsEnabled \cap irqsPending
  BY <1>1, <1>4 DEF DisciplineInv, IdleInv, LinesFollow
<1>8. /\ Effective("mode")' = Effective("mode")
      /\ Effective("halted")' = Effective("halted")
      /\ Effective("pc")' = Effective("pc")
  BY <1>1, <1>2, <1>5, <1>6 DEF AbstractIsBefore, AbstractIsCurrent, Stopped
<1>9. /\ Effective("irqsPending") = before.irqsPending
      /\ Effective("irqsEnabled") = before.irqsEnabled
      /\ Effective("irqsPending")' = irqsPending
      /\ Effective("irqsEnabled")' = irqsEnabled
      /\ Effective("irqLines")' = irqsEnabled \cap irqsPending
  BY <1>1, <1>5, <1>6, <1>7 DEF AbstractIsBefore, AbstractIsCurrent
<1>10. CASE PendingChanged
  <2>1. PICK value \in SUBSET InterruptBits :
          \/ irqsPending = before.irqsPending \ value
          \/ irqsPending = before.irqsPending \cup value
    BY <1>10 DEF PendingChanged
  <2>2. irqsEnabled = before.irqsEnabled
    BY <1>10 DEF PendingChanged
  <2> QED
    BY <1>8, <1>9, <2>1, <2>2
       DEF Atomic!WriteIntrState, Atomic!WriteIntrTest, Atomic!IrqUpdate
<1>11. CASE EnabledChanged
  BY <1>8, <1>9, <1>11 DEF EnabledChanged, Atomic!WriteIntrEnable, Atomic!IrqUpdate
<1> QED
  BY <1>2, <1>10, <1>11

\* ExecHostReq and ExecFinish take effect when they raise their own line.
LEMMA StopTakesEffect ==
  ASSUME DisciplineInv, DisciplineInv', SetLine("core"), CoreBusy, ~CoreBusy'
  PROVE  Atomic!ExecHostReq \/ Atomic!ExecFinish
<1>1. /\ Arg("core") \in {{"HostReq"}, {"Finish"}}
      /\ At("core", "line")
      /\ UNCHANGED <<mode, halted, pc, irqsPending, irqsEnabled, before>>
      /\ thread'["host"] = thread["host"]
  BY CoreLine
<1>2. /\ At("host", "idle") /\ halted
      /\ irqsEnabled = InterruptBits
      /\ irqsPending = Arg("core")
      /\ mode = StopOf(Arg("core"))
      /\ pc = PointOf(Arg("core"))
  BY <1>1 DEF DisciplineInv, StoppingInv, CoreSteps, At
<1>3. ~HostBusy /\ ~HostBusy' /\ At("host", "idle")' /\ ~At("host", "setMode")'
  BY <1>1, <1>2 DEF HostBusy, At
<1>4. /\ ~before.halted
      /\ before.irqsPending = {}
      /\ before.irqsEnabled = InterruptBits
  BY DEF DisciplineInv, StoppingInv
<1>5. AbstractIsBefore
  BY EffectiveFields DEF EffectiveCases
<1>6. AbstractIsCurrent' /\ Effective("mode")' = mode'
  BY <1>3, QuietFieldsNext
<1>7. irqLines' = irqsEnabled' \cap irqsPending'
  BY <1>3 DEF DisciplineInv, IdleInv, LinesFollow
<1>8. /\ ~Effective("halted")
      /\ Effective("halted")' = TRUE
      /\ Effective("mode")' = StopOf(Arg("core"))
      /\ Effective("pc")' = PointOf(Arg("core"))
  <2>1. halted \in BOOLEAN
    BY DEF DisciplineInv, FrameInv, TypeOK, Snapshot, Fields
  <2> QED
    BY <1>1, <1>2, <1>4, <1>5, <1>6, <2>1 DEF AbstractIsBefore, AbstractIsCurrent
<1>9. /\ Effective("irqsPending")' = Effective("irqsPending") \cup Arg("core")
      /\ Effective("irqsEnabled")' = Effective("irqsEnabled")
      /\ Effective("irqLines")' = Effective("irqsEnabled")' \cap Effective("irqsPending")'
  BY <1>1, <1>2, <1>4, <1>5, <1>6, <1>7 DEF AbstractIsBefore, AbstractIsCurrent
<1>10. CASE Arg("core") = {"HostReq"}
  BY <1>8, <1>9, <1>10 DEF Atomic!ExecHostReq, Atomic!IrqUpdate, StopOf, PointOf
<1>11. CASE Arg("core") = {"Finish"}
  BY <1>8, <1>9, <1>11
     DEF Atomic!ExecFinish, Atomic!IrqUpdate, Atomic!ResetMode, ResetMode, StopOf, PointOf
<1> QED
  BY <1>1, <1>10, <1>11

\* An instruction executed while the host is inside Control counts as having
\* preceded the write.
LEMMA ExecuteIsAtomic ==
  ASSUME DisciplineInv, DisciplineInv', Execute
  PROVE  Atomic!Execute
<1>1. /\ UNCHANGED <<mode, halted, irqsPending, irqsEnabled, irqLines, thread>>
      /\ pc' = "body"
      /\ before' = [before EXCEPT !.pc = "body"]
      /\ before \in Fields
      /\ ~halted /\ ~CoreBusy /\ ~CoreBusy'
  BY CoreBusyFrame DEF Execute, CoreBusy, At, DisciplineInv, FrameInv, TypeOK
<1>2. CASE HostBusy
  <2>1. HostBusy'
    BY <1>1, <1>2 DEF HostBusy, At
  <2>2. AbstractIsBefore /\ AbstractIsBefore'
    BY <1>2, <2>1, EffectiveFields, EffectiveFieldsNext DEF EffectiveCases
  <2>3. thread["host"].at \in ControlSteps
    <3>1. thread["host"].at \notin IrqSteps
      BY <1>1 DEF DisciplineInv, RegisterInv, Stopped
    <3>2. thread["host"].at \in Steps
      BY DEF DisciplineInv, FrameInv, TypeOK, Frame
    <3> QED
      BY <1>2, <3>1, <3>2 DEF HostBusy, At, Steps, DisciplineInv, FrameInv, FramesFit
  <2>4. UnfinishedControl
    BY <1>2, <2>3 DEF DisciplineInv, ControlInv, HostBusy
  <2>5. ~before.halted
    BY <1>1, <1>2, <2>3, <2>4
       DEF UnfinishedControl, Releasing, ControlSteps, HostBusy, At, Run, ResetMode
  <2>6. /\ before'.mode = before.mode
        /\ before'.halted = before.halted
        /\ before'.irqsPending = before.irqsPending
        /\ before'.irqsEnabled = before.irqsEnabled
        /\ before'.irqLines = before.irqLines
        /\ before'.pc = "body"
    BY <1>1 DEF Fields
  <2> QED
    BY <2>2, <2>5, <2>6 DEF AbstractIsBefore, Atomic!Execute, Atomic!irqVars
<1>3. CASE ~HostBusy
  <2>1. ~HostBusy'
    BY <1>1, <1>3 DEF HostBusy, At
  <2>2. EffectiveCases /\ EffectiveCases'
    BY EffectiveFields, EffectiveFieldsNext
  <2>3. /\ AbstractIsCurrent /\ AbstractIsCurrent'
        /\ Effective("mode")' = Effective("mode")
    BY <1>1, <1>3, <2>1, <2>2 DEF EffectiveCases, At, Arg
  <2> QED
    BY <1>1, <2>3 DEF AbstractIsCurrent, Atomic!Execute, Atomic!irqVars
<1> QED
  BY <1>2, <1>3

\* The last assignment of Control was foreseen when the write took effect.
LEMMA SetModeStutters ==
  ASSUME DisciplineInv, DisciplineInv', SetMode
  PROVE  UNCHANGED Atomic!vars
<1>1. thread'["host"] = Idle /\ thread'["core"] = thread["core"]
  BY ReturnFrame DEF SetMode, DisciplineInv, FrameInv, TypeOK, Threads
<1>2. ~HostBusy /\ ~HostBusy' /\ ~CoreBusy /\ ~CoreBusy' /\ ~At("host", "setMode")'
  BY <1>1, CoreBusyFrame, HostAlone DEF SetMode, HostBusy, At, Idle
<1>3. /\ AbstractIsCurrent /\ AbstractIsCurrent'
      /\ Effective("mode") = Arg("host")
      /\ Effective("mode")' = mode'
  BY <1>2, EffectiveFields, EffectiveFieldsNext DEF SetMode, EffectiveCases
<1> QED
  BY <1>3 DEF SetMode, AbstractIsCurrent, Atomic!vars, Atomic!irqVars

\* A step that leaves the shared fields alone, outside any handler.
LEMMA QuietStutters ==
  ASSUME DisciplineInv, DisciplineInv', ~HostBusy, ~CoreBusy, ~CoreBusy',
         thread'["host"] = thread["host"],
         UNCHANGED <<mode, halted, pc, irqsPending, irqsEnabled, irqLines>>
  PROVE  UNCHANGED Atomic!vars
<1>1. ~HostBusy'
  BY DEF HostBusy, At
<1>2. EffectiveCases /\ EffectiveCases'
  BY EffectiveFields, EffectiveFieldsNext
<1>3. /\ AbstractIsCurrent /\ AbstractIsCurrent'
      /\ Effective("mode")' = Effective("mode")
  BY <1>1, <1>2 DEF EffectiveCases, At, Arg
<1> QED
  BY <1>3 DEF AbstractIsCurrent, Atomic!vars, Atomic!irqVars

\* Only the steps that take effect leave a handler of the host.
LEMMA HostLeaves ==
  ASSUME DisciplineInv, HostBusy, HostThread
  PROVE  /\ UNCHANGED before
         /\ HostBusy' \/ ResumeTest \/ Unhalt \/ SetLine("host")
<1>1. thread \in [Threads -> Frame]
  BY DEF DisciplineInv, FrameInv, TypeOK, Threads
<1>2. CASE \/ PauseTest \/ PauseCore \/ ResetTest \/ ResetHalt \/ ResetControlBlock
           \/ SetPC \/ Enable \/ PendWrite("host")
  <2>1. PICK step \in {"pause", "resetTest", "resetHalt", "resetMode", "setPC", "resumeTest",
                       "enabledRead"} : Goto("host", step)
    BY <1>2
       DEF PauseTest, PauseCore, ResetTest, ResetHalt, ResetControlBlock, SetPC, Enable, PendWrite
  <2>2. thread'["host"].at = step
    BY <1>1, <2>1, GotoFrame DEF Threads, Steps, ControlSteps, IrqSteps
  <2>3. UNCHANGED before
    BY <1>2
       DEF PauseTest, PauseCore, ResetTest, ResetHalt, ResetControlBlock, SetPC, Enable, PendWrite
  <2> QED
    BY <2>2, <2>3 DEF HostBusy, At
<1>3. CASE PendRead("host") \/ EnabledRead("host") \/ PendingRead("host")
  <2>1. thread'["host"].at \in {"pendWrite", "pendingRead", "line"}
    BY <1>1, <1>3 DEF PendRead, EnabledRead, PendingRead, Threads, Frame
  <2> QED
    BY <1>3, <2>1 DEF HostBusy, At, PendRead, EnabledRead, PendingRead
<1>4. CASE ResumeTest \/ Unhalt \/ SetLine("host")
  BY <1>4 DEF ResumeTest, Unhalt, SetLine
<1> QED
  BY <1>2, <1>3, <1>4
     DEF HostThread, Control, IntrRegisters, Interrupts, HostBusy, At, SetMode, TakeInterrupt,
         BeginControl, BeginIntrState, BeginIntrTest, BeginIntrEnable, Begin

\* Every step of the host is a step of the abstract host or none at all.
LEMMA HostStepIsAtomic ==
  ASSUME PoliteHost, DisciplineInv, DisciplineInv', HostThread
  PROVE  Atomic!Next \/ UNCHANGED Atomic!vars
<1>1. CASE HostBusy /\ HostBusy'
  BY <1>1, HostLeaves, BusyStutters
<1>2. CASE HostBusy /\ ~HostBusy'
  BY <1>2, HostLeaves, ControlTakesEffect, RegisterTakesEffect DEF Atomic!Next, Atomic!Host
<1>3. CASE At("host", "setMode")
  <2>1. SetMode
    BY <1>3
       DEF HostThread, Control, IntrRegisters, Interrupts, At, TakeInterrupt, Begin,
           BeginControl, BeginIntrState, BeginIntrTest, BeginIntrEnable, PauseTest, PauseCore,
           ResetTest, ResetHalt, ResetControlBlock, SetPC, ResumeTest, Unhalt, Enable,
           PendRead, PendWrite, EnabledRead, PendingRead, SetLine
  <2> QED
    BY <2>1, SetModeStutters
<1>4. CASE At("host", "idle")
  <2>1. \/ \E newMode \in Mode : BeginControl(newMode)
        \/ \E value \in SUBSET InterruptBits :
             BeginIntrState(value) \/ BeginIntrTest(value) \/ BeginIntrEnable(value)
        \/ TakeInterrupt
    BY <1>4
       DEF HostThread, Control, IntrRegisters, Interrupts, At, PauseTest, PauseCore,
           ResetTest, ResetHalt, ResetControlBlock, SetPC, ResumeTest, Unhalt, SetMode, Enable,
           PendRead, PendWrite, EnabledRead, PendingRead, SetLine
  <2>2. CASE TakeInterrupt
    <3>1. ~HostBusy /\ ~CoreBusy
      BY <1>4, <2>2 DEF HostBusy, TakeInterrupt, DisciplineInv, StoppingInv
    <3>2. ~CoreBusy'
      BY <2>2, <3>1, CoreBusyFrame DEF TakeInterrupt
    <3> QED
      BY <2>2, <3>1, <3>2, QuietStutters DEF TakeInterrupt, shared
  <2>3. CASE \E newMode \in Mode : BeginControl(newMode)
    <3>1. PICK newMode \in Mode : BeginControl(newMode)
      BY <2>3
    <3>2. Begin("host", "pauseTest", newMode, FALSE) /\ "pauseTest" \in Steps
      BY <3>1 DEF BeginControl, Steps, ControlSteps
    <3>3. thread'["host"].at = "pauseTest" /\ before' = Snapshot
      BY <3>2, BeginFrame DEF DisciplineInv, FrameInv, TypeOK, Threads
    <3>4. ~CoreBusy
      BY <3>1 DEF BeginControl, DisciplineInv, StoppingInv, CoreBusy, At
    <3> QED
      BY <1>4, <3>3, <3>4, BeginStutters DEF HostBusy, At
  <2>4. CASE \E value \in SUBSET InterruptBits :
               BeginIntrState(value) \/ BeginIntrTest(value) \/ BeginIntrEnable(value)
    <3>1. PICK value \in SUBSET InterruptBits :
            BeginIntrState(value) \/ BeginIntrTest(value) \/ BeginIntrEnable(value)
      BY <2>4
    <3>2. PICK step \in {"pendRead", "enable"}, clears \in BOOLEAN :
            Begin("host", step, value, clears)
      BY <3>1 DEF BeginIntrState, BeginIntrTest, BeginIntrEnable
    <3>3. thread'["host"].at = step /\ before' = Snapshot
      <4>1. thread \in [Threads -> Frame]
        BY DEF DisciplineInv, FrameInv, TypeOK, Threads
      <4> QED
        BY <3>2, <4>1 DEF Begin, Frame, Threads
    <3>4. ~CoreBusy
      BY <3>1
         DEF BeginIntrState, BeginIntrTest, BeginIntrEnable, DisciplineInv, StoppingInv, PointOf
    <3> QED
      BY <1>4, <3>3, <3>4, BeginStutters DEF HostBusy, At
  <2> QED
    BY <2>1, <2>2, <2>3, <2>4
<1> QED
  BY <1>1, <1>2, <1>3, <1>4 DEF HostBusy

\* Every step of the core likewise.
LEMMA CoreStepIsAtomic ==
  ASSUME SlowProgram, DisciplineInv, DisciplineInv', CoreThread
  PROVE  Atomic!Next \/ UNCHANGED Atomic!vars
<1>0. thread \in [Threads -> Frame]
  BY DEF DisciplineInv, FrameInv, TypeOK, Threads
<1>1. CASE Execute
  BY <1>1, ExecuteIsAtomic DEF Atomic!Next, Atomic!Core
<1>2. CASE \E bit \in {"HostReq", "Finish"} : BeginStop(bit)
  <2>1. PICK bit \in {"HostReq", "Finish"} : BeginStop(bit)
    BY <1>2
  <2>2. /\ Begin("core", "runTest", {bit}, FALSE) /\ "runTest" \in Steps
        /\ {bit} \in (SUBSET InterruptBits) \cup Mode
    BY <2>1, Lines DEF BeginStop, Steps, CoreSteps
  <2>3. /\ thread'["core"].at = "runTest"
        /\ before' = Snapshot
        /\ At("core", "idle")
    BY <1>0, <2>2, BeginFrame DEF Threads
  <2>4. At("host", "idle") /\ ~CoreBusy /\ CoreBusy'
    BY <2>1, <2>3, StopFindsHostIdle DEF CoreBusy, At
  <2> QED
    BY <2>3, <2>4, BeginStutters
<1>3. CASE \/ RunTest \/ HaltSelf \/ StopMode
           \/ PendRead("core") \/ PendWrite("core") \/ EnabledRead("core")
  <2>1. CoreBusy /\ UNCHANGED before
    BY <1>3
       DEF RunTest, HaltSelf, StopMode, PendRead, PendWrite, EnabledRead, CoreBusy, At
  <2>2. thread'["core"].at \in {"halt", "stopMode", "pendRead", "pendWrite", "enabledRead",
                                "pendingRead"}
    <3>1. CASE RunTest \/ HaltSelf \/ StopMode \/ PendWrite("core")
      <4>1. PICK step \in {"halt", "stopMode", "pendRead", "enabledRead"} : Goto("core", step)
        BY <3>1 DEF RunTest, HaltSelf, StopMode, PendWrite
      <4> QED
        BY <1>0, <4>1, GotoFrame DEF Threads, Steps, CoreSteps, IrqSteps
    <3>2. CASE PendRead("core") \/ EnabledRead("core")
      BY <1>0, <3>2 DEF PendRead, EnabledRead, Threads, Frame
    <3> QED
      BY <1>3, <3>1, <3>2
  <2>3. CoreBusy'
    BY <2>2 DEF CoreBusy, At
  <2> QED
    BY <2>1, <2>3, BusyStutters
<1>4. CASE PendingRead("core")
  <2>1. CoreBusy /\ UNCHANGED before /\ thread'["host"] = thread["host"]
    BY <1>0, <1>4 DEF PendingRead, CoreBusy, At, Threads, Frame
  <2>2. CoreBusy'
    BY <1>4, CorePendingReadStep DEF DisciplineInv
  <2> QED
    BY <2>1, <2>2, BusyStutters
<1>5. CASE SetLine("core")
  <2>1. /\ thread'["host"] = thread["host"]
        /\ UNCHANGED <<mode, halted, pc, irqsPending, irqsEnabled, before>>
    BY <1>5, CoreLine
  <2>2. CASE CoreBusy /\ CoreBusy'
    BY <2>1, <2>2, BusyStutters
  <2>3. CASE CoreBusy /\ ~CoreBusy'
    BY <1>5, <2>3, StopTakesEffect DEF Atomic!Next, Atomic!Core
  <2>4. CASE ~CoreBusy
    <3>1. irqLines' = irqLines /\ ~CoreBusy'
      BY <1>5, <2>4, TailLine
    <3>2. CASE HostBusy
      BY <2>1, <3>2, BusyStutters DEF HostBusy, At
    <3>3. CASE ~HostBusy
      BY <2>1, <2>4, <3>1, <3>3, QuietStutters
    <3> QED
      BY <3>2, <3>3
  <2> QED
    BY <2>2, <2>3, <2>4
<1> QED
  BY <1>1, <1>2, <1>3, <1>4, <1>5 DEF CoreThread, Interrupts

\* The emulator's two threads, with their handlers taken apart, do nothing that
\* the control block with atomic handlers cannot do.
THEOREM HandlersAreAtomic == PoliteHost /\ SlowProgram => (Spec => AtomicSpec)
<1> SUFFICES ASSUME PoliteHost, SlowProgram PROVE Spec => AtomicSpec
  OBVIOUS
<1>1. Init => Atomic!Init
  <2> SUFFICES ASSUME Init PROVE Atomic!Init
    OBVIOUS
  <2>1. ~HostBusy /\ ~CoreBusy /\ ~At("host", "setMode")
    BY DEF Init, HostBusy, CoreBusy, At, Idle
  <2> QED
    BY <2>1 DEF Init, Effective, Snapshot, Atomic!Init, Atomic!ResetMode, ResetMode
<1>2. DisciplineInv /\ DisciplineInv' /\ [Next]_vars => [Atomic!Next]_(Atomic!vars)
  <2> SUFFICES ASSUME DisciplineInv, DisciplineInv', [Next]_vars
               PROVE  Atomic!Next \/ UNCHANGED Atomic!vars
    OBVIOUS
  <2>1. CASE Next
    BY <2>1, HostStepIsAtomic, CoreStepIsAtomic DEF Next
  <2>2. CASE UNCHANGED vars
    <3>1. UNCHANGED <<mode, halted, pc, irqsPending, irqsEnabled, irqLines, thread, before>>
      BY <2>2 DEF vars, shared
    <3>2. CASE HostBusy \/ CoreBusy
      BY <3>1, <3>2, BusyStutters DEF HostBusy, CoreBusy, At, Arg
    <3>3. CASE ~HostBusy /\ ~CoreBusy
      BY <3>1, <3>3, QuietStutters, CoreBusyFrame
    <3> QED
      BY <3>2, <3>3
  <2> QED
    BY <2>1, <2>2
<1> QED
  BY <1>1, <1>2, DisciplineInvariant, PTL DEF Spec, AtomicSpec, Atomic!Spec

-----------------------------------------------------------------------------
(* What is proved of the whole handlers holds of the interleaved ones.     *)

Handlers == INSTANCE ControlBlock_proofs WITH
  mode        <- Effective("mode"),
  halted      <- Effective("halted"),
  pc          <- Effective("pc"),
  irqsPending <- Effective("irqsPending"),
  irqsEnabled <- Effective("irqsEnabled"),
  irqLines    <- Effective("irqLines")

\* On two threads, with a polite host and a program that does not stop during a Control
\* write, the control block keeps its promise to the host, CoreLifecycle.
THEOREM ThreadsKeepLifecycle ==
  PoliteHost /\ SlowProgram => (Spec => Handlers!LifecycleSpec)
<1> SUFFICES ASSUME PoliteHost, SlowProgram PROVE Spec => Handlers!LifecycleSpec
  OBVIOUS
<1>1. Spec => Handlers!Spec
  <2>1. Atomic!Init => Handlers!Init
    BY Zenon DEF Atomic!Init, Handlers!Init, Atomic!ResetMode, Handlers!ResetMode
  <2>2. \A m : Atomic!WriteControl(m) => Handlers!WriteControl(m)
    BY Zenon DEF Atomic!WriteControl, Handlers!WriteControl, Atomic!Release, Handlers!Release,
           Atomic!Pause, Handlers!Pause, Atomic!Unfreeze, Handlers!Unfreeze, Atomic!SetModeOnly,
           Handlers!SetModeOnly, Atomic!Run, Handlers!Run, Atomic!irqVars, Handlers!irqVars
  <2>3. \A v : /\ (Atomic!WriteIntrState(v) => Handlers!WriteIntrState(v))
             /\ (Atomic!WriteIntrEnable(v) => Handlers!WriteIntrEnable(v))
             /\ (Atomic!WriteIntrTest(v) => Handlers!WriteIntrTest(v))
    BY Zenon DEF Atomic!WriteIntrState, Handlers!WriteIntrState, Atomic!WriteIntrEnable,
           Handlers!WriteIntrEnable, Atomic!WriteIntrTest, Handlers!WriteIntrTest,
           Atomic!IrqUpdate, Handlers!IrqUpdate
  <2>4. Atomic!MachineReset => Handlers!MachineReset
    BY Zenon DEF Atomic!MachineReset, Handlers!MachineReset, Atomic!ResetMode, Handlers!ResetMode,
           Atomic!irqVars, Handlers!irqVars
  <2>5. Atomic!Core => Handlers!Core
    BY Zenon DEF Atomic!Core, Handlers!Core, Atomic!Execute, Handlers!Execute, Atomic!ExecHostReq,
           Handlers!ExecHostReq, Atomic!ExecFinish, Handlers!ExecFinish, Atomic!IrqUpdate,
           Handlers!IrqUpdate, Atomic!ResetMode, Handlers!ResetMode, Atomic!irqVars,
           Handlers!irqVars
  <2>6. Atomic!Next => Handlers!Next
    BY <2>2, <2>3, <2>4, <2>5, Zenon
       DEF Atomic!Next, Handlers!Next, Atomic!Host, Handlers!Host, Atomic!Mode,
           Handlers!Mode
  <2>7. UNCHANGED Atomic!vars => UNCHANGED Handlers!vars
    BY Zenon DEF Atomic!vars, Handlers!vars, Atomic!irqVars, Handlers!irqVars
  <2>8. [Atomic!Next]_(Atomic!vars) => [Handlers!Next]_(Handlers!vars)
    BY <2>6, <2>7, Zenon
  <2>9. Spec => AtomicSpec
    BY HandlersAreAtomic
  <2> QED
    BY <2>1, <2>8, <2>9, PTL DEF AtomicSpec, Atomic!Spec, Handlers!Spec
<1>2. Handlers!Spec => Handlers!LifecycleSpec
  BY Handlers!Implements, LineAssumption
<1> QED
  BY <1>1, <1>2, PTL
===============================================================================
