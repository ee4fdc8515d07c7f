------------------------------ MODULE MemInit ------------------------------
(***************************************************************************)
(* The memory-clear registers of SpringbokRiscV32_ControlBlock.  Writing   *)
(* InitEnd with VALID announces a clear of [InitStart, InitEnd) of one of  *)
(* the two memories; the clear itself is a closure that the emulator runs  *)
(* at the next point where its threads are synchronised, and that reads    *)
(* the registers only then.  In between the host can write them again, and *)
(* releasing the core resets every one of them.                            *)
(*                                                                         *)
(* The host may do anything at any time.  What it may rely on depends on   *)
(* whether it has left its latest request alone, and `requested' forgets a *)
(* request that the host, or a reset, has interfered with.                 *)
(***************************************************************************)
EXTENDS Integers, FiniteSets

CONSTANTS InstructionPageSize, DataPageSize,
          InstructionMemorySize, DataMemorySize,
          AddressBound,      \* addresses are below this, which may be beyond a memory
          MaxDeferred        \* bound: closures waiting at once

ASSUME PageAssumption ==
  /\ InstructionPageSize \in Nat \ {0}
  /\ DataPageSize \in Nat \ {0}
  /\ AddressBound \in Nat \ {0}
ASSUME MemoryAssumption ==  \* whole pages
  /\ InstructionMemorySize \in Nat /\ InstructionMemorySize % InstructionPageSize = 0
  /\ DataMemorySize \in Nat /\ DataMemorySize % DataPageSize = 0
ASSUME QueueAssumption == MaxDeferred \in Nat \ {0}

VARIABLES initStart, imemDmemSel, initEnd,  \* the registers (the flag selects IMem)
          initPending, initDone,            \* the flags of InitStatus
          deferred,                         \* closures not yet run
          pattern,                          \* per memory, the addresses holding the erase pattern
          requested,                        \* the latest clear the host asked for, see Disturb
          written                           \* whether its memory was stored to since

registers == <<initStart, imemDmemSel, initEnd>>
status    == <<initPending, initDone>>
history   == <<requested, written>>
vars      == <<registers, status, deferred, pattern, history>>

Memories   == {"IMem", "DMem"}
Addresses  == 0..AddressBound - 1
PageSize   == [IMem |-> InstructionPageSize, DMem |-> DataPageSize]
MemorySize == [IMem |-> InstructionMemorySize, DMem |-> DataMemorySize]
Requests   == [memory : Memories, start : Addresses, end : Addresses]
NoRequest  == [memory |-> "none", start |-> 0, end |-> 0]

TypeOK ==
  /\ initStart \in Addresses
  /\ imemDmemSel \in BOOLEAN
  /\ initEnd \in Addresses
  /\ initPending \in BOOLEAN
  /\ initDone \in BOOLEAN
  /\ deferred \in 0..MaxDeferred
  /\ pattern \in [Memories -> SUBSET Nat]
  /\ requested \in Requests \cup {NoRequest}
  /\ written \in BOOLEAN

Selected == IF imemDmemSel THEN "IMem" ELSE "DMem"

Init ==
  /\ initStart = 0
  /\ imemDmemSel = FALSE
  /\ initEnd = 0
  /\ initPending = FALSE
  /\ initDone = FALSE
  /\ deferred = 0
  /\ pattern = [m \in Memories |-> {}]
  /\ requested = NoRequest
  /\ written = FALSE

\* The loop of the closure: whole pages from the one that holds `start' up to
\* `end' rounded up.  The masks are ~(page - 1), the pages powers of two.
PageDown(a, page)        == a - (a % page)
\* Faulty variants: the end is rounded down; it is rounded up one too far.
ErasedRoundingDown(start, end, page) == PageDown(start, page) .. PageDown(end, page) - 1
ErasedOneTooFar(start, end, page)    == PageDown(start, page) .. PageDown(end + page, page) - 1

ErasedBy(start, end, page) == PageDown(start, page) .. PageDown(end + page - 1, page) - 1

\* The pages that the registers name now, and those of them that exist.
Named  == ErasedBy(initStart, initEnd, PageSize[Selected])
Within(memory) == 0..MemorySize[memory] - 1

-----------------------------------------------------------------------------
(* The host.                                                               *)

\* History: the host touches the registers, or has them reset, while a clear is
\* pending or waiting, or stores a flag that is not its own to set.
Disturb(forging) ==
  IF initPending \/ deferred > 0 \/ forging
  THEN requested' = NoRequest /\ written' = FALSE
  ELSE UNCHANGED history

\* Faulty variant: the address is not cut to the width of its field.
WriteInitStartUnmasked(address, select) ==
  /\ initStart' = address + AddressBound
  /\ imemDmemSel' = select
  /\ Disturb(FALSE)
  /\ UNCHANGED <<initEnd, status, deferred, pattern>>

WriteInitStart(address, select) ==
  /\ initStart' = address
  /\ imemDmemSel' = select
  /\ Disturb(FALSE)
  /\ UNCHANGED <<initEnd, status, deferred, pattern>>

\* Faulty variants: one of the two flags is left as it was.
WriteInitEndFlags(address, valid, pendingFlag, doneFlag) ==
  /\ initEnd' = address
  /\ IF valid
     THEN /\ deferred < MaxDeferred
          /\ initPending' = pendingFlag
          /\ initDone' = doneFlag
          /\ deferred' = deferred + 1
          /\ requested' = [memory |-> Selected, start |-> initStart, end |-> address]
          /\ written' = FALSE
     ELSE Disturb(FALSE) /\ UNCHANGED <<status, deferred>>
  /\ UNCHANGED <<initStart, imemDmemSel, pattern>>

WriteInitEndStillDone(address, valid)  == WriteInitEndFlags(address, valid, TRUE, initDone)
WriteInitEndNotPending(address, valid) == WriteInitEndFlags(address, valid, initPending, FALSE)

\* The ADDRESS field is stored first, then the write callback of VALID runs.
WriteInitEnd(address, valid) ==
  /\ initEnd' = address
  /\ IF valid
     THEN /\ deferred < MaxDeferred
          /\ initPending' = TRUE
          /\ initDone' = FALSE
          /\ deferred' = deferred + 1
          /\ requested' = [memory |-> Selected, start |-> initStart, end |-> address]
          /\ written' = FALSE
     ELSE Disturb(FALSE) /\ UNCHANGED <<status, deferred>>
  /\ UNCHANGED <<initStart, imemDmemSel, pattern>>

\* Both flags are plain storage.
WriteInitStatus(pendingFlag, doneFlag) ==
  /\ initPending' = pendingFlag
  /\ initDone' = doneFlag
  /\ Disturb(pendingFlag \/ doneFlag)
  /\ UNCHANGED <<registers, deferred, pattern>>

\* Faulty variant: a waiting clear is forgotten with the registers.
ResetRegistersAndQueue ==
  /\ initStart' = 0
  /\ imemDmemSel' = FALSE
  /\ initEnd' = 0
  /\ initPending' = FALSE
  /\ initDone' = FALSE
  /\ deferred' = 0
  /\ Disturb(FALSE)
  /\ UNCHANGED pattern

\* RegistersCollection.Reset, called by Core.Reset when the host releases the
\* core and by a machine reset.  The closures stay queued.
ResetRegisters ==
  /\ initStart' = 0
  /\ imemDmemSel' = FALSE
  /\ initEnd' = 0
  /\ initPending' = FALSE
  /\ initDone' = FALSE
  /\ Disturb(FALSE)
  /\ UNCHANGED <<deferred, pattern>>

-----------------------------------------------------------------------------
(* The emulator.                                                           *)

\* The closure passed to ExecuteInNearestSyncedState.
Clear ==
  /\ deferred > 0
  /\ Named \subseteq Within(Selected)
  /\ pattern' = [pattern EXCEPT ![Selected] = @ \cup Named]
  /\ initPending' = FALSE
  /\ initDone' = TRUE
  /\ deferred' = deferred - 1
  /\ UNCHANGED <<registers, history>>

\* A page beyond the memory's end: WriteBytes throws, the pages in front of it
\* have been erased, and the flags are never set.
ClearBeyondMemory ==
  /\ deferred > 0
  /\ ~(Named \subseteq Within(Selected))
  /\ pattern' = [pattern EXCEPT ![Selected] = @ \cup (Named \cap Within(Selected))]
  /\ deferred' = deferred - 1
  /\ UNCHANGED <<registers, status, history>>

Closure == Clear \/ ClearBeyondMemory

\* The program, or the host loading one, stores to a memory.
Store(memory) ==
  /\ pattern' = [pattern EXCEPT ![memory] = {}]
  /\ written' = (written \/ memory = requested.memory)
  /\ UNCHANGED <<registers, status, deferred, requested>>

Next ==
  \/ \E address \in Addresses, flag \in BOOLEAN :
       WriteInitStart(address, flag) \/ WriteInitEnd(address, flag)
  \/ \E pendingFlag, doneFlag \in BOOLEAN : WriteInitStatus(pendingFlag, doneFlag)
  \/ ResetRegisters
  \/ Closure
  \/ \E memory \in Memories : Store(memory)

Spec == Init /\ [][Next]_vars

\* The emulator reaches a synchronised state again and again.
FairSpec == Spec /\ WF_vars(Closure)

-----------------------------------------------------------------------------
(* Properties.                                                             *)

\* When INIT_DONE is set, the range named by the latest write with VALID holds
\* the erase pattern, apart from what was stored since, unless the host has
\* disturbed that request.  A second request made while the closure of the first
\* still waits does not disturb anything: either closure serves the second.
DoneMeansErased ==
  initDone /\ requested # NoRequest /\ ~written =>
    requested.start .. requested.end - 1 \subseteq pattern[requested.memory]

\* The closures touch only pages that meet the (non-empty) range of a request
\* that was not disturbed, also those closures that fail and those left over from
\* a request before it.
ErasesRequestedPages ==
  [][\A m \in Memories : \A a \in pattern'[m] \ pattern[m] :
       requested # NoRequest /\ requested.start < requested.end =>
         /\ m = requested.memory
         /\ \E b \in requested.start .. requested.end - 1 :
              a \div PageSize[m] = b \div PageSize[m]]_vars

\* However the host writes the registers and the flags meanwhile, and over every
\* reset of them by a release: once a clear was asked for, a poll of INIT_DONE or
\* of INIT_PENDING gets its answer, unless the registers come to name pages that
\* do not exist.
ClearIsReported ==
  deferred > 0 ~> \/ initDone /\ ~initPending
                  \/ ~(Named \subseteq Within(Selected))
=============================================================================
