---------------------------- MODULE MemInit_proofs ----------------------------
(***************************************************************************)
(* Theorems about MemInit, for all page sizes, memories, address ranges    *)
(* and queue lengths, and for any host: the history that the properties    *)
(* mention forgets a request that the host or a reset has interfered with. *)
(***************************************************************************)
EXTENDS MemInit, TLAPS

-----------------------------------------------------------------------------
(* Pages.                                                                  *)

\* The quotient and the remainder of an address by a page size.
LEMMA DivMod ==
  ASSUME NEW a \in Nat, NEW p \in Nat \ {0}
  PROVE  /\ a \div p \in Nat
         /\ a % p \in 0..p-1
         /\ a = p * (a \div p) + (a % p)
  OBVIOUS

\* An address lies in the page whose bounds enclose it.
LEMMA PageIsUnique ==
  ASSUME NEW a \in Nat, NEW p \in Nat \ {0}, NEW q \in Int, p * q <= a, a < p * q + p
  PROVE  a \div p = q
  OBVIOUS

\* PageDown is the first address of the page that holds its argument.
LEMMA PageDownIsFirst ==
  ASSUME NEW a \in Nat, NEW p \in Nat \ {0}
  PROVE  \E q \in Nat : /\ a \div p = q
                        /\ PageDown(a, p) = p * q
                        /\ p * q \in Nat
                        /\ p * q <= a
                        /\ a < p * q + p
<1> DEFINE q == a \div p
<1>1. q \in Nat /\ p * q \in Nat
  BY DivMod
<1>2. a % p \in 0..p-1 /\ a = p * q + (a % p)
  BY DivMod
<1>3. PageDown(a, p) = p * q
  BY <1>1, <1>2 DEF PageDown
<1>4. p * q <= a /\ a < p * q + p
  BY <1>1, <1>2
<1> QED
  BY <1>1, <1>3, <1>4

\* What a clear erases starts and ends with whole pages around its range.
LEMMA ErasedPages ==
  ASSUME NEW start \in Nat, NEW end \in Nat, NEW page \in Nat \ {0}
  PROVE  \E first \in Nat, past \in Nat :
           /\ first = start \div page
           /\ past = (end + page - 1) \div page
           /\ ErasedBy(start, end, page) = page * first .. page * past - 1
           /\ page * first \in Nat
           /\ page * first <= start
           /\ start < page * first + page
           /\ page * past \in Nat
           /\ page * past <= end + page - 1
           /\ end <= page * past
<1>1. end + page - 1 \in Nat
  OBVIOUS
<1>2. PICK first \in Nat : /\ start \div page = first
                          /\ PageDown(start, page) = page * first
                          /\ page * first \in Nat
                          /\ page * first <= start
                          /\ start < page * first + page
  BY PageDownIsFirst
<1>3. PICK past \in Nat : /\ (end + page - 1) \div page = past
                         /\ PageDown(end + page - 1, page) = page * past
                         /\ page * past \in Nat
                         /\ page * past <= end + page - 1
                         /\ end + page - 1 < page * past + page
  BY <1>1, PageDownIsFirst
<1>4. end <= page * past
  BY <1>3
<1>5. ErasedBy(start, end, page) = page * first .. page * past - 1
  BY <1>2, <1>3 DEF ErasedBy
<1> QED
  BY <1>2, <1>3, <1>4, <1>5

\* A clear erases at least the requested range, and only addresses.
LEMMA RangeIsErased ==
  ASSUME NEW start \in Nat, NEW end \in Nat, NEW page \in Nat \ {0}
  PROVE  /\ start .. end - 1 \subseteq ErasedBy(start, end, page)
         /\ ErasedBy(start, end, page) \subseteq Nat
<1>1. PICK low \in Nat, high \in Nat :
        ErasedBy(start, end, page) = low .. high - 1 /\ low <= start /\ end <= high
  BY ErasedPages
<1> QED
  BY <1>1

\* The page of an address holds an address of the range.
PageMeets(a, start, end, page) == \E b \in start .. end - 1 : a \div page = b \div page

\* Each address it erases shares its page with one of the requested range: the
\* first page holds `start', the last one end - 1, and any page in between lies
\* inside the range.
LEMMA ErasedPageMeetsRange ==
  ASSUME NEW start \in Nat, NEW end \in Nat, NEW page \in Nat \ {0}, start < end,
         NEW a \in ErasedBy(start, end, page)
  PROVE  PageMeets(a, start, end, page)
<1> USE DEF PageMeets
<1>1. PICK first \in Nat, past \in Nat :
           /\ first = start \div page
           /\ ErasedBy(start, end, page) = page * first .. page * past - 1
           /\ page * first \in Nat
           /\ page * first <= start
           /\ start < page * first + page
           /\ page * past \in Nat
           /\ page * past <= end + page - 1
           /\ end <= page * past
  BY ErasedPages
<1>2. a \in Nat /\ page * first <= a /\ a < page * past
  BY <1>1
<1>3. CASE a \in start .. end - 1
  BY <1>3
<1>4. CASE a < start
  <2>1. a < page * first + page
    BY <1>1, <1>2, <1>4
  <2>2. a \div page = first
    BY <1>2, <2>1, PageIsUnique
  <2> QED
    BY <1>1, <2>2
<1>5. CASE a >= end
  <2>1. past - 1 \in Int /\ page * (past - 1) = page * past - page
    OBVIOUS
  <2>2. /\ page * (past - 1) <= end - 1
        /\ page * (past - 1) <= a
        /\ end - 1 < page * (past - 1) + page
        /\ a < page * (past - 1) + page
    BY <1>1, <1>2, <1>5, <2>1
  <2>3. end - 1 \in Nat /\ end - 1 \in start .. end - 1
    OBVIOUS
  <2>4. a \div page = past - 1
    BY <1>2, <2>1, <2>2, PageIsUnique
  <2>5. (end - 1) \div page = past - 1
    BY <2>1, <2>2, <2>3, PageIsUnique
  <2> QED
    BY <2>3, <2>4, <2>5
<1> QED
  BY <1>2, <1>3, <1>4, <1>5

-----------------------------------------------------------------------------
(* Types.                                                                  *)

\* Both page sizes are positive, whichever memory is meant.
LEMMA PageSizes == \A m \in Memories : PageSize[m] \in Nat \ {0}
  BY PageAssumption DEF Memories, PageSize

\* There is an address 0.
LEMMA ZeroIsAddress == 0 \in Addresses
  BY PageAssumption DEF Addresses

\* The selector picks one of the two memories.
LEMMA SelectedIsMemory == Selected \in Memories
  BY DEF Selected, Memories

\* The registers name addresses, though perhaps none of the memory.
LEMMA NamedAreAddresses == TypeOK => Named \subseteq Nat
<1> SUFFICES ASSUME TypeOK PROVE Named \subseteq Nat
  OBVIOUS
<1>1. initStart \in Nat /\ initEnd \in Nat
  BY DEF TypeOK, Addresses
<1>2. PICK page \in Nat \ {0} : page = PageSize[Selected]
  BY PageSizes, SelectedIsMemory
<1> QED
  BY <1>1, <1>2, RangeIsErased DEF Named

\* Every step keeps the types: nothing is erased below address 0, and no
\* closure runs that was not queued.
LEMMA TypeOKStep ==
  ASSUME TypeOK, [Next]_vars
  PROVE  TypeOK'
<1> USE QueueAssumption
    DEF TypeOK, vars, registers, status, history, Disturb
<1>1. ASSUME NEW address \in Addresses, NEW flag \in BOOLEAN, WriteInitStart(address, flag)
      PROVE  TypeOK'
  BY <1>1 DEF WriteInitStart
<1>2. ASSUME NEW address \in Addresses, NEW flag \in BOOLEAN, WriteInitEnd(address, flag)
      PROVE  TypeOK'
  <2>1. CASE flag
    <3>1. requested' \in Requests /\ deferred' \in 0..MaxDeferred
      BY <1>2, <2>1, SelectedIsMemory DEF WriteInitEnd, Requests
    <3> QED
      BY <1>2, <2>1, <3>1 DEF WriteInitEnd
  <2>2. CASE ~flag
    BY <1>2, <2>2 DEF WriteInitEnd
  <2> QED
    BY <2>1, <2>2
<1>3. ASSUME NEW pendingFlag \in BOOLEAN, NEW doneFlag \in BOOLEAN,
             WriteInitStatus(pendingFlag, doneFlag)
      PROVE  TypeOK'
  BY <1>3 DEF WriteInitStatus
<1>4. CASE Closure
  <2>1. Named \subseteq Nat
    BY NamedAreAddresses
  <2>2. pattern' \in [Memories -> SUBSET Nat]
    BY <1>4, <2>1 DEF Closure, Clear, ClearBeyondMemory
  <2>3. deferred' \in 0..MaxDeferred
    BY <1>4 DEF Closure, Clear, ClearBeyondMemory
  <2> QED
    BY <1>4, <2>2, <2>3 DEF Closure, Clear, ClearBeyondMemory
<1>5. CASE ResetRegisters
  BY <1>5, ZeroIsAddress DEF ResetRegisters
<1>6. ASSUME NEW memory \in Memories, Store(memory)
      PROVE  TypeOK'
  BY <1>6 DEF Store
<1>7. CASE UNCHANGED vars
  BY <1>7
<1> QED
  BY <1>1, <1>2, <1>3, <1>4, <1>5, <1>6, <1>7 DEF Next

\* The registers have their types at power-on.
LEMMA TypesAtStart == Init => TypeOK
<1>1. ASSUME Init PROVE deferred \in 0..MaxDeferred
  BY <1>1, QueueAssumption DEF Init
<1> QED
  BY <1>1, ZeroIsAddress DEF Init, TypeOK

\* The registers, the queue and the memories keep their types.
THEOREM TypesAreKept == Spec => []TypeOK
<1>1. TypeOK /\ [Next]_vars => TypeOK'
  BY TypeOKStep
<1> QED
  BY <1>1, TypesAtStart, PTL DEF Spec

-----------------------------------------------------------------------------
(* The promise of INIT_DONE.                                               *)

\* What the closures still waiting will read is what the host asked for last.
RequestStands ==
  deferred > 0 =>
    requested = [memory |-> Selected, start |-> initStart, end |-> initEnd]

\* While nothing is pending the latest request has been carried out.
SettledMeansErased ==
  ~initPending /\ ~written =>
    requested.start .. requested.end - 1 \subseteq pattern[requested.memory]

\* DoneMeansErased is not inductive: INIT_DONE says nothing of the registers
\* that the closure of a clear still pending is going to read.
ClearInv ==
  /\ TypeOK
  /\ requested # NoRequest =>
       /\ RequestStands
       /\ initPending => ~initDone
       /\ SettledMeansErased

\* The host and the resets keep it: they begin a request, leave one alone that
\* has been carried out, or disturb it.
LEMMA HostStep ==
  ASSUME ClearInv, TypeOK',
         \/ \E address \in Addresses, flag \in BOOLEAN :
              WriteInitStart(address, flag) \/ WriteInitEnd(address, flag)
         \/ \E pendingFlag, doneFlag \in BOOLEAN : WriteInitStatus(pendingFlag, doneFlag)
         \/ ResetRegisters
  PROVE  ClearInv'
<1> USE DEF ClearInv, RequestStands, SettledMeansErased, Selected,
            registers, status, history, Disturb
<1>1. ASSUME NEW address \in Addresses, NEW flag \in BOOLEAN, WriteInitStart(address, flag)
      PROVE  ClearInv'
  BY <1>1 DEF WriteInitStart
<1>2. ASSUME NEW address \in Addresses, NEW flag \in BOOLEAN, WriteInitEnd(address, flag)
      PROVE  ClearInv'
  <2>1. CASE flag
    BY <1>2, <2>1 DEF WriteInitEnd
  <2>2. CASE ~flag
    BY <1>2, <2>2 DEF WriteInitEnd
  <2> QED
    BY <2>1, <2>2
<1>3. ASSUME NEW pendingFlag \in BOOLEAN, NEW doneFlag \in BOOLEAN,
             WriteInitStatus(pendingFlag, doneFlag)
      PROVE  ClearInv'
  BY <1>3 DEF WriteInitStatus
<1>4. CASE ResetRegisters
  BY <1>4 DEF ResetRegisters
<1> QED
  BY <1>1, <1>2, <1>3, <1>4

\* So do the emulator and the program: a closure that succeeds erases the
\* requested range, one that fails leaves INIT_PENDING set.
LEMMA ClearStep ==
  ASSUME ClearInv, [Next]_vars
  PROVE  ClearInv'
<1>0. TypeOK'
  BY TypeOKStep DEF ClearInv
<1> USE DEF ClearInv, RequestStands, SettledMeansErased, Selected,
            vars, registers, status, history
<1>1. CASE Clear
  <2> SUFFICES ASSUME requested # NoRequest PROVE SettledMeansErased'
    BY <1>0, <1>1, QueueAssumption DEF Clear, TypeOK
  <2>1. /\ requested.memory = Selected
        /\ requested.start = initStart
        /\ requested.end = initEnd
        /\ requested' = requested
    BY <1>1 DEF Clear
  <2>2. initStart .. initEnd - 1 \subseteq Named
    <3>1. initStart \in Nat /\ initEnd \in Nat
      BY DEF TypeOK, Addresses
    <3>2. PICK page \in Nat \ {0} : page = PageSize[Selected]
      BY PageSizes, SelectedIsMemory
    <3> HIDE DEF Selected
    <3> QED
      BY <3>1, <3>2, RangeIsErased DEF Named
  <2>3. Named \subseteq pattern'[Selected]
    BY <1>1, SelectedIsMemory DEF Clear, TypeOK
  <2> QED
    BY <2>1, <2>2, <2>3
<1>2. CASE ClearBeyondMemory
  <2> SUFFICES ASSUME requested # NoRequest, SettledMeansErased PROVE SettledMeansErased'
    BY <1>0, <1>2, QueueAssumption DEF ClearBeyondMemory, TypeOK
  <2>1. \A m \in Memories : pattern[m] \subseteq pattern'[m]
    BY <1>2 DEF ClearBeyondMemory, TypeOK
  <2>2. requested.memory \in Memories
    BY DEF TypeOK, Requests
  <2> HIDE DEF Selected
  <2> QED
    BY <1>2, <2>1, <2>2 DEF ClearBeyondMemory
<1>3. ASSUME NEW memory \in Memories, Store(memory)
      PROVE  ClearInv'
  <2>1. ASSUME requested # NoRequest, SettledMeansErased PROVE SettledMeansErased'
    <3>1. requested.memory \in Memories
      BY <2>1 DEF TypeOK, Requests
    <3>2. CASE memory = requested.memory
      BY <1>3, <3>2 DEF Store
    <3>3. CASE memory # requested.memory
      <4>1. pattern'[requested.memory] = pattern[requested.memory]
        BY <1>3, <3>1, <3>3 DEF Store, TypeOK
      <4> QED
        BY <1>3, <2>1, <4>1 DEF Store
    <3> QED
      BY <3>2, <3>3
  <2> QED
    BY <1>0, <1>3, <2>1 DEF Store
<1>4. CASE UNCHANGED vars
  BY <1>0, <1>4
<1> QED
  BY <1>0, <1>1, <1>2, <1>3, <1>4, HostStep DEF Next, Closure

\* The invariant holds in every state.
LEMMA ClearInvariant == Spec => []ClearInv
<1>1. Init => ClearInv
  BY TypesAtStart DEF Init, ClearInv
<1>2. ClearInv /\ [Next]_vars => ClearInv'
  BY ClearStep
<1> QED
  BY <1>1, <1>2, PTL DEF Spec

\* INIT_DONE means what the host reads into it: the closure that set it used the
\* registers of the host's latest request, so that request, unless disturbed, has
\* been carried out.
THEOREM DoneIsErased == Spec => []DoneMeansErased
<1>1. ClearInv => DoneMeansErased
  BY DEF ClearInv, TypeOK, SettledMeansErased, DoneMeansErased
<1> QED
  BY <1>1, ClearInvariant, PTL

\* While a request stands, no closure, whichever request queued it and whether it
\* fails or not, erases in the other memory or in a page that the requested range
\* does not meet.
THEOREM OnlyRequestedPages == Spec => ErasesRequestedPages
<1> DEFINE OK == \A m \in Memories : \A a \in pattern'[m] \ pattern[m] :
       requested # NoRequest /\ requested.start < requested.end =>
         /\ m = requested.memory
         /\ \E b \in requested.start .. requested.end - 1 :
              a \div PageSize[m] = b \div PageSize[m]
<1>1. ClearInv /\ [Next]_vars => [OK]_vars
  <2> SUFFICES ASSUME ClearInv, Next,
                      NEW m \in Memories, NEW a \in pattern'[m], a \notin pattern[m],
                      requested # NoRequest, requested.start < requested.end
               PROVE  /\ m = requested.memory
                      /\ \E b \in requested.start .. requested.end - 1 :
                           a \div PageSize[m] = b \div PageSize[m]
    OBVIOUS
  <2>1. Closure
    <3>1. ASSUME NEW memory \in Memories, Store(memory) PROVE FALSE
      BY <3>1 DEF Store, ClearInv, TypeOK
    <3> QED
      BY <3>1 DEF Next, WriteInitStart, WriteInitEnd, WriteInitStatus, ResetRegisters
  <2>2. /\ requested.memory = Selected
        /\ requested.start = initStart
        /\ requested.end = initEnd
    BY <2>1 DEF Closure, Clear, ClearBeyondMemory, ClearInv, RequestStands
  <2>3. m = Selected /\ a \in Named
    BY <2>1, SelectedIsMemory DEF Closure, Clear, ClearBeyondMemory, ClearInv, TypeOK
  <2>4. initStart \in Nat /\ initEnd \in Nat
    BY DEF ClearInv, TypeOK, Addresses
  <2>5. PICK page \in Nat \ {0} : page = PageSize[m]
    BY PageSizes
  <2>6. a \in ErasedBy(initStart, initEnd, page) /\ initStart < initEnd
    BY <2>2, <2>3, <2>5 DEF Named
  <2>7. PageMeets(a, initStart, initEnd, page)
    BY <2>4, <2>6, ErasedPageMeetsRange
  <2> QED
    BY <2>2, <2>3, <2>5, <2>7 DEF PageMeets
<1>2. ErasesRequestedPages <=> [][OK]_vars
  BY DEF ErasesRequestedPages
<1> HIDE DEF OK
<1> QED
  BY <1>1, <1>2, ClearInvariant, PTL DEF Spec
===============================================================================
