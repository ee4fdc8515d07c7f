------------------------ MODULE ControlBlock_proofs ------------------------
(***************************************************************************)
(* Theorems about ControlBlock, for every set of interrupt sources.        *)
(*                                                                         *)
(* Inv is inductive.  ResetBeforeRerun alone is not: that a held core does *)
(* not execute needs HaltedUnlessRun, since Execute is guarded by halted   *)
(* and not by the mode.                                                    *)
(***************************************************************************)
EXTENDS ControlBlock, TLAPS

Inv ==
  /\ TypeOK
  /\ HaltedUnlessRun
  /\ ResetBeforeRerun
  /\ LinesFollow

-----------------------------------------------------------------------------
(* Lemmas: the initial state, and one per group of handlers.               *)

\* The power-on state satisfies the invariant.
LEMMA InitInv == Init => Inv
  BY DEF Init, Inv, TypeOK, HaltedUnlessRun, ResetBeforeRerun, LinesFollow,
         Mode, Run, ResetMode, Points

\* A write to Control preserves the invariant, whichever of its four branches
\* the old and the new mode select.
LEMMA ControlInv ==
  ASSUME Inv, NEW newMode \in Mode, WriteControl(newMode)
  PROVE  Inv'
<1> USE DEF Inv, TypeOK, HaltedUnlessRun, ResetBeforeRerun, LinesFollow,
            Mode, Run, Points, irqVars
<1>1. CASE Release(newMode)
  BY <1>1 DEF WriteControl, Release
<1>2. CASE Pause(newMode)
  BY <1>2 DEF WriteControl, Pause
<1>3. CASE Unfreeze(newMode)
  BY <1>3 DEF WriteControl, Unfreeze
<1>4. CASE SetModeOnly(newMode)
  BY <1>4 DEF WriteControl, SetModeOnly
<1> QED
  BY <1>1, <1>2, <1>3, <1>4 DEF WriteControl

\* The three interrupt registers preserve the invariant.
LEMMA IrqRegistersInv ==
  ASSUME Inv, NEW value \in SUBSET InterruptBits,
         \/ WriteIntrState(value)
         \/ WriteIntrEnable(value)
         \/ WriteIntrTest(value)
  PROVE  Inv'
<1> USE DEF Inv, TypeOK, HaltedUnlessRun, ResetBeforeRerun, LinesFollow, IrqUpdate
<1>1. CASE WriteIntrState(value)
  BY <1>1 DEF WriteIntrState
<1>2. CASE WriteIntrEnable(value)
  BY <1>2 DEF WriteIntrEnable
<1>3. CASE WriteIntrTest(value)
  BY <1>3 DEF WriteIntrTest
<1> QED
  BY <1>1, <1>2, <1>3

\* What the core does by itself, and a machine reset, preserve the invariant.
LEMMA CoreInv ==
  ASSUME Inv, Core \/ MachineReset
  PROVE  Inv'
<1> USE BitsAssumption
    DEF Inv, TypeOK, HaltedUnlessRun, ResetBeforeRerun, LinesFollow, IrqUpdate,
        Mode, Run, ResetMode, Points, irqVars
<1>1. CASE Execute
  BY <1>1 DEF Execute
<1>2. CASE ExecHostReq
  BY <1>2 DEF ExecHostReq
<1>3. CASE ExecFinish
  BY <1>3 DEF ExecFinish
<1>4. CASE MachineReset
  BY <1>4 DEF MachineReset
<1> QED
  BY <1>1, <1>2, <1>3, <1>4 DEF Core

\* Every step preserves the invariant.
LEMMA NextInv == Inv /\ [Next]_vars => Inv'
<1> SUFFICES ASSUME Inv, [Next]_vars PROVE Inv'
  OBVIOUS
<1>1. CASE \E newMode \in Mode : WriteControl(newMode)
  BY <1>1, ControlInv
<1>2. CASE \E value \in SUBSET InterruptBits :
             \/ WriteIntrState(value)
             \/ WriteIntrEnable(value)
             \/ WriteIntrTest(value)
  BY <1>2, IrqRegistersInv
<1>3. CASE Core \/ MachineReset
  BY <1>3, CoreInv
<1>4. CASE UNCHANGED vars
  BY <1>4 DEF vars, irqVars, Inv, TypeOK, HaltedUnlessRun, ResetBeforeRerun, LinesFollow
<1> QED
  BY <1>1, <1>2, <1>3, <1>4 DEF Next, Host

\* The invariant holds in every reachable state.
THEOREM Invariance == Spec => []Inv
  BY InitInv, NextInv, PTL DEF Spec

-----------------------------------------------------------------------------
(* The properties of the runs.                                             *)

\* Type correctness.
THEOREM TypeCorrect == Spec => []TypeOK
<1>1. Inv => TypeOK
  BY DEF Inv
<1> QED
  BY <1>1, Invariance, PTL

\* IsHalted and the mode never drift apart.
THEOREM HaltedAgrees == Spec => []HaltedUnlessRun
<1>1. Inv => HaltedUnlessRun
  BY DEF Inv
<1> QED
  BY <1>1, Invariance, PTL

\* A finished or never started program is under SwReset until it is released.
THEOREM NoRerunWithoutReset == Spec => []ResetBeforeRerun
<1>1. Inv => ResetBeforeRerun
  BY DEF Inv
<1> QED
  BY <1>1, Invariance, PTL

\* The GPIO lines are the enabled pending interrupts.
THEOREM LinesAgree == Spec => []LinesFollow
<1>1. Inv => LinesFollow
  BY DEF Inv
<1> QED
  BY <1>1, Invariance, PTL

\* Only the host's IntrState write withdraws a pending interrupt.
THEOREM NoNoticeLost == Spec => PendingUntilCleared
<1> DEFINE Kept == \A bit \in irqsPending \ irqsPending' :
                     \E value \in SUBSET InterruptBits : bit \in value /\ WriteIntrState(value)
<1>1. [Next]_vars => [Kept]_vars
  <2> SUFFICES ASSUME Next, NEW bit \in irqsPending \ irqsPending'
               PROVE  \E value \in SUBSET InterruptBits :
                        bit \in value /\ WriteIntrState(value)
    OBVIOUS
  <2>1. PICK value \in SUBSET InterruptBits : WriteIntrState(value)
    BY DEF Next, Host, Core, WriteControl, irqVars, WriteIntrEnable, WriteIntrTest,
           Execute, ExecHostReq, ExecFinish, MachineReset
  <2>2. bit \in value
    BY <2>1 DEF WriteIntrState
  <2> QED
    BY <2>1, <2>2
<1> QED
  BY <1>1, PTL DEF Spec, PendingUntilCleared

-----------------------------------------------------------------------------
(* Refinement of CoreLifecycle.                                            *)

\* The power-on state is an initial state of the promise.
LEMMA LifecycleInit == Init => Lifecycle!Init
  BY DEF Init, Lifecycle!Init, phaseBar, progressBar, ResetMode

\* A Control write starts, freezes, resumes or holds the core, or is not
\* visible to the promise.
LEMMA LifecycleControl ==
  ASSUME Inv, NEW newMode \in Mode, WriteControl(newMode)
  PROVE  Lifecycle!Next \/ UNCHANGED Lifecycle!vars
<1> USE DEF Inv, TypeOK, ResetBeforeRerun, Mode, Run, Points, irqVars,
            phaseBar, progressBar, Lifecycle!vars
<1>1. CASE Release(newMode)
  <2>1. Lifecycle!Start
    BY <1>1 DEF WriteControl, Release, Lifecycle!Start
  <2> QED
    BY <2>1 DEF Lifecycle!Next
<1>2. CASE Pause(newMode)
  <2>1. Lifecycle!Freeze \/ Lifecycle!Hold
    BY <1>2 DEF WriteControl, Pause, Lifecycle!Freeze, Lifecycle!Hold
  <2> QED
    BY <2>1 DEF Lifecycle!Next
<1>3. CASE Unfreeze(newMode)
  <2>1. Lifecycle!Resume
    BY <1>3 DEF WriteControl, Unfreeze, Lifecycle!Resume
  <2> QED
    BY <2>1 DEF Lifecycle!Next
<1>4. CASE SetModeOnly(newMode)
  <2>1. Lifecycle!Hold \/ UNCHANGED Lifecycle!vars
    BY <1>4 DEF WriteControl, SetModeOnly, Lifecycle!Hold
  <2> QED
    BY <2>1 DEF Lifecycle!Next
<1> QED
  BY <1>1, <1>2, <1>3, <1>4 DEF WriteControl

\* Every other step of the host is a step of the promise.
LEMMA LifecycleHost ==
  ASSUME Inv, Host
  PROVE  Lifecycle!Next \/ UNCHANGED Lifecycle!vars
<1>1. CASE \E newMode \in Mode : WriteControl(newMode)
  BY <1>1, LifecycleControl
<1>2. ASSUME NEW value \in SUBSET InterruptBits,
             WriteIntrState(value) \/ WriteIntrEnable(value)
      PROVE  Lifecycle!TakeBack
  BY <1>2 DEF WriteIntrState, WriteIntrEnable, phaseBar, progressBar, Lifecycle!TakeBack
<1>3. ASSUME NEW value \in SUBSET InterruptBits, WriteIntrTest(value)
      PROVE  Lifecycle!Raise
  BY <1>3 DEF Inv, TypeOK, WriteIntrTest, phaseBar, progressBar, Lifecycle!Raise
<1>4. CASE MachineReset
  <2>1. Lifecycle!PowerCycle
    BY <1>4 DEF MachineReset, ResetMode, irqVars, phaseBar, progressBar, Lifecycle!PowerCycle
  <2> QED
    BY <2>1 DEF Lifecycle!Next
<1> QED
  BY <1>1, <1>2, <1>3, <1>4 DEF Host, Lifecycle!Next

\* An instruction of the program is a step of the promise: in particular it
\* is never executed by a completed program.
LEMMA LifecycleCore ==
  ASSUME Inv, Core
  PROVE  Lifecycle!Next
<1> USE DEF Inv, TypeOK, HaltedUnlessRun, Mode, Run, ResetMode, irqVars,
            phaseBar, progressBar
<1>1. CASE Execute
  <2>1. Lifecycle!Execute
    BY <1>1 DEF Execute, Lifecycle!Execute
  <2> QED
    BY <2>1 DEF Lifecycle!Next
<1>2. CASE ExecHostReq
  <2>1. Lifecycle!Request
    BY <1>2 DEF ExecHostReq, Lifecycle!Request
  <2> QED
    BY <2>1 DEF Lifecycle!Next
<1>3. CASE ExecFinish
  <2>1. Lifecycle!Complete
    BY <1>3 DEF ExecFinish, Lifecycle!Complete
  <2> QED
    BY <2>1 DEF Lifecycle!Next
<1> QED
  BY <1>1, <1>2, <1>3 DEF Core

\* The control block implements the promise of CoreLifecycle.
THEOREM Implements == Spec => LifecycleSpec
<1>1. Inv /\ [Next]_vars => [Lifecycle!Next]_(Lifecycle!vars)
  <2> SUFFICES ASSUME Inv, [Next]_vars
               PROVE  Lifecycle!Next \/ UNCHANGED Lifecycle!vars
    OBVIOUS
  <2>1. CASE Host
    BY <2>1, LifecycleHost
  <2>2. CASE Core
    BY <2>2, LifecycleCore
  <2>3. CASE UNCHANGED vars
    BY <2>3 DEF vars, irqVars, phaseBar, progressBar, Lifecycle!vars
  <2> QED
    BY <2>1, <2>2, <2>3 DEF Next
<1> QED
  BY <1>1, LifecycleInit, Invariance, PTL DEF Spec, LifecycleSpec, Lifecycle!Spec
=============================================================================
