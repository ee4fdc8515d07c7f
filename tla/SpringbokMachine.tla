-------------------------- MODULE SpringbokMachine --------------------------
(***************************************************************************)
(* The control block with its memory-clear registers: the two components   *)
(* meet in Core.Reset, which the Control handler calls when the host       *)
(* releases the core and which resets the registers under a pending clear, *)
(* and in the memories, which the program uses while a closure may still   *)
(* be waiting to erase them.                                               *)
(***************************************************************************)
EXTENDS ControlBlock, Integers

CONSTANTS InstructionPageSize, DataPageSize,
          InstructionMemorySize, DataMemorySize, AddressBound, MaxDeferred,
          CarefulHost    \* see Undisturbed and WriteInitEnd

ASSUME ClearAssumption ==
  /\ InstructionPageSize \in Nat \ {0}
  /\ DataPageSize \in Nat \ {0}
  /\ AddressBound \in Nat \ {0}
  /\ InstructionMemorySize \in Nat /\ InstructionMemorySize % InstructionPageSize = 0
  /\ DataMemorySize \in Nat /\ DataMemorySize % DataPageSize = 0
  /\ MaxDeferred \in Nat \ {0}
ASSUME CarefulAssumption == CarefulHost \in BOOLEAN

VARIABLES initStart, imemDmemSel, initEnd, initPending, initDone,
          deferred, pattern, requested, written

Clears == INSTANCE MemInit

clearVars   == <<initStart, imemDmemSel, initEnd, initPending, initDone,
                 deferred, pattern, requested, written>>
machineVars == <<vars, clearVars>>

MachineInit == Init /\ Clears!Init

\* A careful host touches the memory-clear registers, or has them reset, only
\* when INIT_PENDING is clear.
Undisturbed == CarefulHost => ~initPending

\* Core.Reset, on a release and on a machine reset, resets both components.
ReleaseCore(newMode) ==
  /\ Undisturbed
  /\ "SwReset" \in mode /\ "SwReset" \notin newMode
  /\ WriteControl(newMode)
  /\ Clears!ResetRegisters

ResetMachine ==
  /\ Undisturbed
  /\ MachineReset
  /\ Clears!ResetRegisters

WriteOtherControl(newMode) ==
  /\ ~("SwReset" \in mode /\ "SwReset" \notin newMode)
  /\ WriteControl(newMode)
  /\ UNCHANGED clearVars

\* A careful host asks for a clear only while it holds the core in reset.
WriteInitEnd(address, valid) ==
  /\ Undisturbed
  /\ CarefulHost /\ valid => "SwReset" \in mode
  /\ Clears!WriteInitEnd(address, valid)
  /\ UNCHANGED vars

WriteInitStart(address, select) ==
  /\ Undisturbed
  /\ Clears!WriteInitStart(address, select)
  /\ UNCHANGED vars

\* A careful host does not set the flags that are the closure's to set.
WriteInitStatus(pendingFlag, doneFlag) ==
  /\ Undisturbed
  /\ CarefulHost => ~pendingFlag /\ ~doneFlag
  /\ Clears!WriteInitStatus(pendingFlag, doneFlag)
  /\ UNCHANGED vars

LoadMemory(memory) == Clears!Store(memory) /\ UNCHANGED vars

RunClosure == Clears!Closure /\ UNCHANGED vars

RunCore ==
  \/ /\ Execute
     /\ \/ \E memory \in Clears!Memories : Clears!Store(memory)
        \/ UNCHANGED clearVars
  \/ (ExecHostReq \/ ExecFinish) /\ UNCHANGED clearVars

MachineNext ==
  \/ \E newMode \in Mode : ReleaseCore(newMode) \/ WriteOtherControl(newMode)
  \/ ResetMachine
  \/ \E address \in Clears!Addresses, flag \in BOOLEAN :
       WriteInitStart(address, flag) \/ WriteInitEnd(address, flag)
  \/ \E pendingFlag, doneFlag \in BOOLEAN : WriteInitStatus(pendingFlag, doneFlag)
  \/ \E memory \in Clears!Memories : LoadMemory(memory)
  \/ RunClosure
  \/ RunCore

MachineSpec == MachineInit /\ [][MachineNext]_machineVars

-----------------------------------------------------------------------------
(* Properties.                                                             *)

\* A core released from reset finds the memory that the host asked to clear
\* erased, apart from what was loaded since: the request is neither still waiting
\* nor cut short by the end of the memory nor lost with the registers.
StartsOnClearedMemory ==
  pc = "start" /\ "SwReset" \notin mode /\ requested # Clears!NoRequest /\ ~written =>
    requested.start .. requested.end - 1 \subseteq pattern[requested.memory]

\* No clear erases memory under a program that is running, or frozen in the
\* middle.
NeverErasesUnderProgram == [][deferred' < deferred => "SwReset" \in mode]_machineVars

\* INIT_DONE keeps its meaning (MemInit), also when the core is released.
DoneMeansErased == Clears!DoneMeansErased
=============================================================================
