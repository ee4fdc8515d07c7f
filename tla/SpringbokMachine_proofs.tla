------------------------ MODULE SpringbokMachine_proofs ------------------------
(***************************************************************************)
(* Theorems about SpringbokMachine, for every set of interrupt sources and *)
(* all page sizes, memories, address ranges and queue lengths.             *)
(*                                                                         *)
(* The composition is a refinement of each of its two components: every    *)
(* step of the machine is a step of ControlBlock or leaves it alone, and   *)
(* likewise of MemInit.  So what is proved of the components holds of the  *)
(* machine, and only what relates the two is proved here.                  *)
(***************************************************************************)
EXTENDS SpringbokMachine, ControlBlock_proofs

ClearProofs == INSTANCE MemInit_proofs

-----------------------------------------------------------------------------
(* The control block within the machine.                                   *)

\* Composed with the memory-clear registers, the control block still takes only
\* its own steps.
THEOREM ControlBlockKept == MachineSpec => Spec
<1>1. [MachineNext]_machineVars => [Next]_vars
  <2> SUFFICES ASSUME MachineNext PROVE Next \/ UNCHANGED vars
    BY DEF machineVars
  <2>1. ASSUME NEW newMode \in Mode, ReleaseCore(newMode) \/ WriteOtherControl(newMode)
        PROVE  Next
    BY <2>1 DEF ReleaseCore, WriteOtherControl, Next, Host
  <2>2. CASE ResetMachine
    BY <2>2 DEF ResetMachine, Next, Host
  <2>3. ASSUME NEW address \in Clears!Addresses, NEW flag \in BOOLEAN,
               WriteInitStart(address, flag) \/ WriteInitEnd(address, flag)
        PROVE  UNCHANGED vars
    BY <2>3 DEF WriteInitStart, WriteInitEnd
  <2>4. ASSUME NEW pendingFlag \in BOOLEAN, NEW doneFlag \in BOOLEAN,
               WriteInitStatus(pendingFlag, doneFlag)
        PROVE  UNCHANGED vars
    BY <2>4 DEF WriteInitStatus
  <2>5. ASSUME NEW memory \in Clears!Memories, LoadMemory(memory)
        PROVE  UNCHANGED vars
    BY <2>5 DEF LoadMemory
  <2>6. CASE RunClosure
    BY <2>6 DEF RunClosure
  <2>7. CASE RunCore
    BY <2>7 DEF RunCore, Next, Core
  <2> QED
    BY <2>1, <2>2, <2>3, <2>4, <2>5, <2>6, <2>7 DEF MachineNext
<1>2. MachineInit => Init
  BY DEF MachineInit
<1> QED
  BY <1>1, <1>2, PTL DEF MachineSpec, Spec

\* Hence the promise the control block makes to its host, CoreLifecycle, is the machine's:
\* nothing that the memory-clear registers do gets in its way.
THEOREM MachineKeepsLifecycle == MachineSpec => LifecycleSpec
  BY ControlBlockKept, Implements, PTL

\* The invariant of the control block holds in the machine.
LEMMA ControlInvariant == MachineSpec => []Inv
  BY ControlBlockKept, Invariance

-----------------------------------------------------------------------------
(* The memory-clear registers within the machine.                          *)

\* The memory-clear registers take only their own steps too: a release of the
\* core is one of their resets.
THEOREM ClearsKept == MachineSpec => Clears!Spec
<1> USE DEF Clears!Next
<1>1. [MachineNext]_machineVars => [Clears!Next]_(Clears!vars)
  <2> SUFFICES ASSUME MachineNext PROVE Clears!Next \/ UNCHANGED clearVars
    BY DEF machineVars, clearVars, Clears!vars, Clears!registers, Clears!status, Clears!history
  <2>1. ASSUME NEW newMode \in Mode, ReleaseCore(newMode)
        PROVE  Clears!Next
    BY <2>1 DEF ReleaseCore
  <2>2. ASSUME NEW newMode \in Mode, WriteOtherControl(newMode)
        PROVE  UNCHANGED clearVars
    BY <2>2 DEF WriteOtherControl
  <2>3. CASE ResetMachine
    BY <2>3 DEF ResetMachine
  <2>4. ASSUME NEW address \in Clears!Addresses, NEW flag \in BOOLEAN,
               WriteInitStart(address, flag) \/ WriteInitEnd(address, flag)
        PROVE  Clears!Next
    BY <2>4 DEF WriteInitStart, WriteInitEnd
  <2>5. ASSUME NEW pendingFlag \in BOOLEAN, NEW doneFlag \in BOOLEAN,
               WriteInitStatus(pendingFlag, doneFlag)
        PROVE  Clears!Next
    BY <2>5 DEF WriteInitStatus
  <2>6. ASSUME NEW memory \in Clears!Memories, LoadMemory(memory)
        PROVE  Clears!Next
    BY <2>6 DEF LoadMemory
  <2>7. CASE RunClosure
    BY <2>7 DEF RunClosure
  <2>8. CASE RunCore
    BY <2>8 DEF RunCore
  <2> QED
    BY <2>1, <2>2, <2>3, <2>4, <2>5, <2>6, <2>7, <2>8 DEF MachineNext
<1>2. MachineInit => Clears!Init
  BY DEF MachineInit
<1> QED
  BY <1>1, <1>2, PTL DEF MachineSpec, Clears!Spec

\* The definitions that the instance of the proofs brings in are those that the
\* machine uses.
LEMMA SameClears == Clears!Spec <=> ClearProofs!Spec
<1>1. Clears!Init <=> ClearProofs!Init
  BY DEF Clears!Init, ClearProofs!Init, Clears!Memories, ClearProofs!Memories,
         Clears!NoRequest, ClearProofs!NoRequest
<1>2. UNCHANGED Clears!vars <=> UNCHANGED ClearProofs!vars
  BY DEF Clears!vars, Clears!registers, Clears!status, Clears!history,
         ClearProofs!vars, ClearProofs!registers, ClearProofs!status, ClearProofs!history
<1>3. Clears!Next <=> ClearProofs!Next
  <2> USE DEF Clears!Addresses, ClearProofs!Addresses, Clears!Memories, ClearProofs!Memories,
              Clears!registers, ClearProofs!registers, Clears!status, ClearProofs!status,
              Clears!history, ClearProofs!history,
              Clears!Disturb, ClearProofs!Disturb, Clears!NoRequest, ClearProofs!NoRequest,
              Clears!Selected, ClearProofs!Selected
  <2>1. \A address \in Clears!Addresses, flag \in BOOLEAN :
          /\ Clears!WriteInitStart(address, flag) <=> ClearProofs!WriteInitStart(address, flag)
          /\ Clears!WriteInitEnd(address, flag) <=> ClearProofs!WriteInitEnd(address, flag)
    BY DEF Clears!WriteInitStart, ClearProofs!WriteInitStart,
           Clears!WriteInitEnd, ClearProofs!WriteInitEnd
  <2>2. \A pendingFlag, doneFlag \in BOOLEAN :
          Clears!WriteInitStatus(pendingFlag, doneFlag)
            <=> ClearProofs!WriteInitStatus(pendingFlag, doneFlag)
    BY DEF Clears!WriteInitStatus, ClearProofs!WriteInitStatus
  <2>3. Clears!Closure <=> ClearProofs!Closure
    <3>1. Clears!Named = ClearProofs!Named
      BY DEF Clears!Named, ClearProofs!Named, Clears!PageSize, ClearProofs!PageSize,
             Clears!ErasedBy, ClearProofs!ErasedBy, Clears!PageDown, ClearProofs!PageDown
    <3>2. Clears!Within(Clears!Selected) = ClearProofs!Within(ClearProofs!Selected)
      BY DEF Clears!Within, ClearProofs!Within, Clears!MemorySize, ClearProofs!MemorySize
    <3> QED
      BY <3>1, <3>2 DEF Clears!Closure, ClearProofs!Closure, Clears!Clear, ClearProofs!Clear,
                        Clears!ClearBeyondMemory, ClearProofs!ClearBeyondMemory
  <2>4. Clears!ResetRegisters <=> ClearProofs!ResetRegisters
    BY DEF Clears!ResetRegisters, ClearProofs!ResetRegisters
  <2>5. \A memory \in Clears!Memories : Clears!Store(memory) <=> ClearProofs!Store(memory)
    BY DEF Clears!Store, ClearProofs!Store
  <2> QED
    BY <2>1, <2>2, <2>3, <2>4, <2>5 DEF Clears!Next, ClearProofs!Next
<1>4. [Clears!Next]_(Clears!vars) <=> [ClearProofs!Next]_(ClearProofs!vars)
  BY <1>2, <1>3
<1> QED
  BY <1>1, <1>4, PTL DEF Clears!Spec, ClearProofs!Spec

\* The invariant of the memory clears holds in the machine.
LEMMA ClearInvariant == MachineSpec => []ClearProofs!ClearInv
<1>1. ClearProofs!PageAssumption /\ ClearProofs!QueueAssumption
  BY ClearAssumption DEF ClearProofs!PageAssumption, ClearProofs!QueueAssumption
<1>2. ClearProofs!MemoryAssumption
  BY ClearAssumption DEF ClearProofs!MemoryAssumption
<1>3. ClearProofs!Spec => []ClearProofs!ClearInv
  BY <1>1, <1>2, ClearProofs!ClearInvariant
<1> QED
  BY <1>3, ClearsKept, SameClears

\* INIT_DONE keeps its meaning when releases and machine resets interfere.
THEOREM DoneIsErasedInMachine == MachineSpec => []DoneMeansErased
<1>1. ClearProofs!ClearInv => DoneMeansErased
  BY DEF ClearProofs!ClearInv, ClearProofs!SettledMeansErased, ClearProofs!NoRequest,
         DoneMeansErased, Clears!DoneMeansErased, Clears!NoRequest
<1> QED
  BY <1>1, ClearInvariant, PTL

-----------------------------------------------------------------------------
(* What relates the two: a clear is pending only while the core is held.   *)

\* A careful host asks for a clear only under SwReset, and ends the reset or
\* asks for another clear only when INIT_PENDING is clear, so no closure ever
\* waits under a program.
HeldWhileClearing == initPending => "SwReset" \in mode
PendingWhileWaiting == deferred > 0 => initPending /\ deferred = 1

\* The history of a careful host's requests: the first was made and none was
\* disturbed since, or there was none and memory is as it was loaded.
NoneDisturbed == requested = Clears!NoRequest => deferred = 0 /\ ~initPending

CarefulInv == Inv /\ HeldWhileClearing /\ PendingWhileWaiting /\ NoneDisturbed

\* Neither the host nor the core breaks it.  The core does not because it only
\* executes in mode Run, where no clear can be pending in the first place.
LEMMA CarefulStep ==
  ASSUME CarefulHost, CarefulInv, Inv', deferred \in Nat, [MachineNext]_machineVars
  PROVE  CarefulInv'
<1> USE DEF CarefulInv, HeldWhileClearing, PendingWhileWaiting, NoneDisturbed, Undisturbed,
            Clears!status, Clears!history, vars
<1>1. ASSUME NEW newMode \in Mode, ReleaseCore(newMode)
      PROVE  CarefulInv'
  BY <1>1 DEF ReleaseCore, Clears!ResetRegisters, Clears!Disturb
<1>2. ASSUME NEW newMode \in Mode, WriteOtherControl(newMode)
      PROVE  CarefulInv'
  BY <1>2 DEF WriteOtherControl, WriteControl, Release, Pause, Unfreeze, SetModeOnly,
              clearVars, Run
<1>3. CASE ResetMachine
  BY <1>3 DEF ResetMachine, Clears!ResetRegisters, Clears!Disturb
<1>4. ASSUME NEW address \in Clears!Addresses, NEW flag \in BOOLEAN,
             WriteInitStart(address, flag)
      PROVE  CarefulInv'
  BY <1>4 DEF WriteInitStart, Clears!WriteInitStart, Clears!Disturb
<1>5. ASSUME NEW address \in Clears!Addresses, NEW flag \in BOOLEAN,
             WriteInitEnd(address, flag)
      PROVE  CarefulInv'
  <2>1. deferred = 0
    BY <1>5 DEF WriteInitEnd
  <2>2. [memory |-> Clears!Selected, start |-> initStart, end |-> address] # Clears!NoRequest
    BY DEF Clears!Selected, Clears!NoRequest
  <2>3. CASE flag
    BY <1>5, <2>1, <2>2, <2>3 DEF WriteInitEnd, Clears!WriteInitEnd
  <2>4. CASE ~flag
    BY <1>5, <2>4 DEF WriteInitEnd, Clears!WriteInitEnd, Clears!Disturb
  <2> QED
    BY <2>3, <2>4
<1>6. ASSUME NEW pendingFlag \in BOOLEAN, NEW doneFlag \in BOOLEAN,
             WriteInitStatus(pendingFlag, doneFlag)
      PROVE  CarefulInv'
  BY <1>6 DEF WriteInitStatus, Clears!WriteInitStatus, Clears!Disturb
<1>7. ASSUME NEW memory \in Clears!Memories, LoadMemory(memory)
      PROVE  CarefulInv'
  BY <1>7 DEF LoadMemory, Clears!Store
<1>8. CASE RunClosure
  BY <1>8 DEF RunClosure, Clears!Closure, Clears!Clear, Clears!ClearBeyondMemory
<1>9. CASE RunCore
  <2>1. ~initPending
    BY <1>9 DEF RunCore, Execute, ExecHostReq, ExecFinish, Inv, HaltedUnlessRun, Run
  <2>2. UNCHANGED <<initPending, deferred, requested>>
    BY <1>9 DEF RunCore, Clears!Store, clearVars
  <2> QED
    BY <2>1, <2>2
<1>10. CASE UNCHANGED machineVars
  BY <1>10 DEF machineVars, clearVars
<1> QED
  BY <1>1, <1>2, <1>3, <1>4, <1>5, <1>6, <1>7, <1>8, <1>9, <1>10 DEF MachineNext

\* It holds in every reachable state of a careful host's machine.
LEMMA CarefulInvariant == CarefulHost => (MachineSpec => []CarefulInv)
<1> SUFFICES ASSUME CarefulHost PROVE MachineSpec => []CarefulInv
  OBVIOUS
<1>1. MachineInit /\ Inv => CarefulInv
  BY DEF MachineInit, Clears!Init, CarefulInv, HeldWhileClearing, PendingWhileWaiting,
         NoneDisturbed
<1>2. CarefulInv /\ Inv' /\ ClearProofs!ClearInv /\ [MachineNext]_machineVars => CarefulInv'
  BY CarefulStep DEF ClearProofs!ClearInv, ClearProofs!TypeOK
<1> QED
  BY <1>1, <1>2, ControlInvariant, ClearInvariant, PTL DEF MachineSpec

\* When the core is out of reset nothing is pending, hence what a careful host
\* asked for has been erased.
THEOREM StartsErased == CarefulHost => (MachineSpec => []StartsOnClearedMemory)
<1>1. CarefulInv /\ ClearProofs!ClearInv => StartsOnClearedMemory
  BY DEF CarefulInv, HeldWhileClearing, StartsOnClearedMemory, Clears!NoRequest,
         ClearProofs!ClearInv, ClearProofs!SettledMeansErased, ClearProofs!NoRequest
<1> QED
  BY <1>1, CarefulInvariant, ClearInvariant, PTL

\* A closure that runs was pending, so the core is held.
THEOREM ErasesOnlyUnderReset == CarefulHost => (MachineSpec => NeverErasesUnderProgram)
<1> SUFFICES ASSUME CarefulHost PROVE MachineSpec => NeverErasesUnderProgram
  OBVIOUS
<1> DEFINE OK == deferred' < deferred => "SwReset" \in mode
<1>1. CarefulInv /\ ClearProofs!ClearInv /\ ClearProofs!ClearInv' => [OK]_machineVars
  BY DEF CarefulInv, HeldWhileClearing, PendingWhileWaiting,
         ClearProofs!ClearInv, ClearProofs!TypeOK
<1>2. NeverErasesUnderProgram <=> [][OK]_machineVars
  BY DEF NeverErasesUnderProgram
<1> HIDE DEF OK
<1> QED
  BY <1>1, <1>2, CarefulInvariant, ClearInvariant, PTL
================================================================================
