------------------------- MODULE TestSession_proofs -------------------------
(***************************************************************************)
(* Theorems about Firmware and TestSession, for every set of return values *)
(* and causes and for every bound: what the log of a start says of it, and *)
(* what the exit status of the test runner says of the program it ran.     *)
(***************************************************************************)
EXTENDS TestSession, TLAPS

-----------------------------------------------------------------------------
(* The invariant of the run time.                                          *)

Entry  == [text : Texts, number : Words \cup {1}]
Stored == {"none", "handler", "csrs"} \cup UserStages

\* Every message has its place on the way: so many have been printed when a
\* stage is reached.
LogIsBounded ==
  /\ stage = "reset" => log = <<>>
  /\ stage = "handler" => Len(log) < MaxLog
  /\ stage \notin {"result", "store", "finished"} => Len(log) <= MaxLog
  /\ stage = "result" => Len(log) <= MaxLog + 1
  /\ Len(log) <= MaxLog + 2

\* A start has no outcome before it says so, and none but exceptions before it
\* says that main returned.
OutcomeIsAhead ==
  \A i \in DOMAIN log :
    /\ stage \in UserStages \cup {"reset", "atexit", "check", "result"} =>
         log[i].text \notin OutcomeTexts
    /\ stage \in {"handler", "csrs"} => log[i].text # "MainReturned"

\* Between the outcome and the finish instruction s0 holds what was printed.
OutcomeIsKept ==
  stage \in {"csrs", "store", "finished"} =>
    /\ log # <<>>
    /\ log[Len(log)].text \in OutcomeTexts
    /\ log[Len(log)].number = s0
    /\ stage = "finished" => report.value = s0

\* _check_stack has just complained.
DamageIsNoted ==
  stage = "result" /\ sentinels = "damaged" =>
    log # <<>> /\ log[Len(log)].text = "StackCorrupted"

FirmwareInv ==
  /\ TypeOK
  /\ LogIsBounded
  /\ OutcomeIsAhead
  /\ OutcomeIsKept
  /\ OneOutcome
  /\ DamageIsNoted
  /\ DamageIsLogged

-----------------------------------------------------------------------------
(* The log.                                                                *)

\* What TypeOK says of the log, place by place.
LEMMA TheLog ==
  ASSUME TypeOK
  PROVE  /\ log \in Seq(Entry)
         /\ Len(log) \in Nat
         /\ DOMAIN log = 1..Len(log)
         /\ \A i \in 1..Len(log) : log[i] \in Entry
<1>1. log \in Seq(Entry)
  BY DEF TypeOK, Entry
<1> QED
  BY <1>1

\* simprint adds one message at the end.
LEMMA Printed ==
  ASSUME TypeOK, NEW text \in Texts, NEW number \in Words \cup {1}, Simprint(text, number)
  PROVE  /\ log' \in Seq(Entry)
         /\ log' # <<>>
         /\ Len(log') = Len(log) + 1
         /\ DOMAIN log' = 1..(Len(log) + 1)
         /\ log'[Len(log) + 1].text = text
         /\ log'[Len(log) + 1].number = number
         /\ \A i \in 1..Len(log) : log'[i] = log[i]
<1>1. log \in Seq(Entry) /\ [text |-> text, number |-> number] \in Entry
  BY TheLog DEF Entry
<1>2. log' = Append(log, [text |-> text, number |-> number])
  BY DEF Simprint
<1>3. /\ log' \in Seq(Entry)
      /\ Len(log') = Len(log) + 1
      /\ log'[Len(log) + 1] = [text |-> text, number |-> number]
      /\ \A i \in 1..Len(log) : log'[i] = log[i]
  BY <1>1, <1>2
<1> QED
  BY <1>1, <1>3

-----------------------------------------------------------------------------
(* The run time's steps.                                                   *)

\* The initial state and a release start from an empty log.
LEMMA FirmwareInit == Init => FirmwareInv
<1> SUFFICES ASSUME Init PROVE FirmwareInv
  OBVIOUS
<1>1. log = <<>> /\ DOMAIN log = {} /\ Len(log) = 0
  BY DEF Init
<1>2. TypeOK
  <2>1. log \in Seq([text : Texts, number : Words \cup {1}]) /\ Len(log) <= MaxLog + 2
    BY <1>1, BoundsAssumption
  <2> QED
    BY <2>1, BoundsAssumption DEF Init, TypeOK, Words, Stages
<1> QED
  BY <1>1, <1>2, BoundsAssumption
     DEF Init, FirmwareInv, LogIsBounded, OutcomeIsAhead, OutcomeIsKept, OneOutcome,
         DamageIsNoted, DamageIsLogged

\* A release starts a new log.
LEMMA RestartStep ==
  ASSUME FirmwareInv, Restart
  PROVE  FirmwareInv'
<1>1. log' = <<>> /\ DOMAIN log' = {} /\ Len(log') = 0
  BY DEF Restart
<1>2. TypeOK'
  <2>1. log' \in Seq([text : Texts, number : Words \cup {1}]) /\ Len(log') <= MaxLog + 2
    BY <1>1, BoundsAssumption
  <2>2. mcause' \in Words /\ mepc' \in {"none", "handler", "csrs"} \cup UserStages
    BY DEF Restart, FirmwareInv, TypeOK, Words
  <2> QED
    BY <2>1, <2>2 DEF Restart, FirmwareInv, TypeOK, Stages
<1> QED
  BY <1>1, <1>2, BoundsAssumption
     DEF Restart, FirmwareInv, LogIsBounded, OutcomeIsAhead, OutcomeIsKept,
         OneOutcome, DamageIsNoted, DamageIsLogged

\* Steps that print nothing.
LEMMA SilentStep ==
  ASSUME FirmwareInv,
         \/ Start \/ RegisterFini \/ RunInit
         \/ CallExitProcs \/ Finish \/ PrintCsrs \/ DamageStack
         \/ \E value \in ReturnValues : MainReturns(value)
         \/ \E cause \in Causes : Fault(cause)
  PROVE  FirmwareInv'
<1> USE DEF FirmwareInv
<1>1. log' = log
  BY DEF Start, RegisterFini, RunInit, CallExitProcs, Finish, PrintCsrs, DamageStack,
         MainReturns, Fault
<1>2. TypeOK'
  BY <1>1, BoundsAssumption
     DEF TypeOK, Stages, UserStages, Words, Start, RegisterFini, RunInit,
         CallExitProcs, Finish, PrintCsrs, DamageStack, MainReturns, Fault
<1>3. LogIsBounded'
  BY <1>1, BoundsAssumption, TheLog
     DEF LogIsBounded, UserStages, Start, RegisterFini, RunInit, CallExitProcs,
         Finish, PrintCsrs, DamageStack, MainReturns, Fault
<1>4. OutcomeIsAhead'
  BY <1>1
     DEF OutcomeIsAhead, OutcomeTexts, UserStages, Start, RegisterFini, RunInit,
         CallExitProcs, Finish, PrintCsrs, DamageStack, MainReturns, Fault
<1>5. OutcomeIsKept'
  BY <1>1
     DEF OutcomeIsKept, Start, RegisterFini, RunInit, CallExitProcs, Finish,
         PrintCsrs, DamageStack, MainReturns, Fault
<1>6. OneOutcome'
  BY <1>1 DEF OneOutcome
<1>7. DamageIsNoted'
  BY <1>1 DEF DamageIsNoted, UserStages, Start, RegisterFini, RunInit, CallExitProcs,
         Finish, PrintCsrs, DamageStack, MainReturns, Fault
<1>8. DamageIsLogged'
  <2>1. CASE sentinels' = sentinels
    BY <1>1, <2>1 DEF DamageIsLogged
  <2>2. CASE Start \/ DamageStack
    BY <1>1, <2>2
       DEF OutcomeIsAhead, OutcomeTexts, UserStages, Start, DamageStack, DamageIsLogged
  <2> QED
    BY <2>1, <2>2 DEF RegisterFini, RunInit, CallExitProcs, Finish, PrintCsrs,
                      MainReturns, Fault
<1> QED
  BY <1>2, <1>3, <1>4, <1>5, <1>6, <1>7, <1>8

\* A message that is no outcome, printed while none has been.
LEMMA RemarkStep ==
  ASSUME FirmwareInv, NEW text \in Texts \ OutcomeTexts, NEW number \in {0, 1},
         Simprint(text, number),
         \/ /\ stage \in UserStages /\ stage' = stage
            /\ Len(log) < MaxLog
         \/ /\ stage = "check" /\ stage' = "result"
            /\ text = "StackCorrupted",
         sp' \in {"top", "off"},
         UNCHANGED <<sentinels, exitHandlers, s0, mcause, mepc, report>>
  PROVE  FirmwareInv'
<1> USE DEF FirmwareInv
<1>1. PICK n \in Nat : /\ n = Len(log)
                       /\ DOMAIN log = 1..n
  BY TheLog
<1>2. /\ log' \in Seq(Entry)
      /\ log' # <<>>
      /\ Len(log') = n + 1
      /\ DOMAIN log' = 1..(n + 1)
      /\ log'[n + 1].text = text
      /\ \A i \in 1..n : log'[i] = log[i]
  <2>1. text \in Texts /\ number \in Words \cup {1}
    BY DEF Words
  <2> QED
    BY <1>1, <2>1, Printed
<1>3. \A i \in 1..n : log[i].text \notin OutcomeTexts
  BY <1>1 DEF OutcomeIsAhead, UserStages
<1>4. ASSUME NEW i \in DOMAIN log' PROVE log'[i].text \notin OutcomeTexts
  <2>1. i \in 1..n \/ i = n + 1
    BY <1>1, <1>2
  <2> QED
    BY <1>2, <1>3, <2>1
<1>5. n <= MaxLog /\ (stage \in UserStages => n + 1 <= MaxLog)
  BY <1>1, BoundsAssumption DEF LogIsBounded, UserStages
<1>6. TypeOK'
  <2>1. stage' \in Stages
    BY DEF Stages, UserStages
  <2>2. Len(log') <= MaxLog + 2
    BY <1>1, <1>2, <1>5, BoundsAssumption
  <2> QED
    BY <1>2, <2>1, <2>2 DEF TypeOK, Entry
<1>7. LogIsBounded'
  BY <1>1, <1>2, <1>5, BoundsAssumption DEF LogIsBounded, UserStages
<1>8. OneOutcome' /\ DamageIsLogged' /\ OutcomeIsAhead'
  BY <1>4 DEF OneOutcome, DamageIsLogged, OutcomeIsAhead, OutcomeTexts
<1>9. OutcomeIsKept' /\ DamageIsNoted'
  BY <1>2 DEF OutcomeIsKept, DamageIsNoted, UserStages
<1> QED
  BY <1>6, <1>7, <1>8, <1>9

\* The program's own messages.
LEMMA ProgramPrintsStep ==
  ASSUME FirmwareInv, NEW text \in ProgramTexts, ProgramPrints(text)
  PROVE  FirmwareInv'
<1>1. text \in Texts \ OutcomeTexts
  BY DEF Texts, OutcomeTexts, ProgramTexts
<1> QED
  BY <1>1, RemarkStep DEF ProgramPrints, FirmwareInv, TypeOK

\* The complaint of _check_stack comes before the outcome.
LEMMA CheckStackStep ==
  ASSUME FirmwareInv, CheckStack
  PROVE  FirmwareInv'
<1> USE DEF FirmwareInv
<1>1. CASE sp = "top" /\ sentinels = "intact"
  <2>1. log' = log
    BY <1>1 DEF CheckStack
  <2>2. TypeOK'
    BY <2>1 DEF CheckStack, TypeOK, Stages
  <2>3. Len(log) <= MaxLog /\ Len(log) \in Nat
    BY TheLog DEF CheckStack, LogIsBounded
  <2>4. LogIsBounded'
    BY <2>1, <2>3, BoundsAssumption DEF CheckStack, LogIsBounded
  <2>5. OutcomeIsAhead' /\ OneOutcome' /\ DamageIsLogged'
    BY <2>1 DEF CheckStack, OutcomeIsAhead, OneOutcome, DamageIsLogged
  <2>6. OutcomeIsKept' /\ DamageIsNoted'
    BY <1>1 DEF CheckStack, OutcomeIsKept, DamageIsNoted
  <2> QED
    BY <2>2, <2>4, <2>5, <2>6
<1>2. CASE ~(sp = "top" /\ sentinels = "intact")
  <2>1. "StackCorrupted" \in Texts \ OutcomeTexts
    BY DEF Texts, OutcomeTexts
  <2> QED
    BY <1>2, <2>1, RemarkStep DEF CheckStack
<1> QED
  BY <1>1, <1>2

\* What the two steps that print an outcome do to the log.
LEMMA OutcomePrinted ==
  ASSUME FirmwareInv, NEW text \in OutcomeTexts, NEW number \in Words, Simprint(text, number),
         NEW n \in Nat, n = Len(log)
  PROVE  /\ log' \in Seq(Entry)
         /\ log' # <<>>
         /\ Len(log') = n + 1
         /\ DOMAIN log = 1..n
         /\ DOMAIN log' = 1..(n + 1)
         /\ log'[n + 1].text = text
         /\ log'[n + 1].number = number
         /\ \A i \in 1..n : log'[i] = log[i]
<1>1. text \in Texts /\ number \in Words \cup {1} /\ TypeOK
  BY DEF Texts, FirmwareInv
<1> QED
  BY <1>1, Printed, TheLog

\* The message that main returned is the first outcome, and follows the complaint
\* if there was something to complain of.
LEMMA PrintResultStep ==
  ASSUME FirmwareInv, PrintResult
  PROVE  FirmwareInv'
<1> USE DEF FirmwareInv
<1>1. /\ stage = "result" /\ stage' = "store"
      /\ UNCHANGED <<sp, sentinels, exitHandlers, s0, mcause, mepc, report>>
      /\ Simprint("MainReturned", s0)
  BY DEF PrintResult
<1>2. "MainReturned" \in OutcomeTexts /\ s0 \in Words
  BY DEF OutcomeTexts, TypeOK
<1>3. PICK n \in Nat : n = Len(log)
  BY TheLog
<1>4. /\ log' \in Seq(Entry)
      /\ log' # <<>>
      /\ Len(log') = n + 1
      /\ DOMAIN log = 1..n
      /\ DOMAIN log' = 1..(n + 1)
      /\ log'[n + 1].text = "MainReturned"
      /\ log'[n + 1].number = s0
      /\ \A i \in 1..n : log'[i] = log[i]
  BY <1>1, <1>2, <1>3, OutcomePrinted
<1>5. \A i \in 1..n : log'[i].text \notin OutcomeTexts
  BY <1>1, <1>3, <1>4 DEF OutcomeIsAhead
<1>6. n <= MaxLog + 1
  BY <1>1, <1>3 DEF LogIsBounded
<1>7. TypeOK'
  <2>1. Len(log') <= MaxLog + 2 /\ stage' \in Stages
    BY <1>1, <1>3, <1>4, <1>6, BoundsAssumption DEF Stages
  <2> QED
    BY <1>1, <1>4, <2>1 DEF TypeOK, Entry
<1>8. LogIsBounded'
  BY <1>1, <1>3, <1>4, <1>6, BoundsAssumption DEF LogIsBounded
<1>9. OutcomeIsAhead' /\ OutcomeIsKept' /\ DamageIsNoted'
  BY <1>1, <1>2, <1>4 DEF OutcomeIsAhead, OutcomeIsKept, DamageIsNoted, UserStages
<1>10. \A j \in 1..(n + 1) : log'[j].text = "MainReturned" => j = n + 1
  BY <1>2, <1>3, <1>5
<1>11. OneOutcome'
  BY <1>3, <1>4, <1>5, <1>10 DEF OneOutcome
<1>12. DamageIsLogged'
  <2> SUFFICES ASSUME sentinels = "damaged"
               PROVE  n + 1 > 1 /\ log'[n].text = "StackCorrupted"
    BY <1>1, <1>3, <1>4, <1>10 DEF DamageIsLogged
  <2>1. log # <<>> /\ log[n].text = "StackCorrupted"
    BY <1>1, <1>3 DEF DamageIsNoted
  <2>2. n # 0
    BY <1>3, <2>1, TheLog
  <2> QED
    BY <1>3, <1>4, <2>1, <2>2
<1> QED
  BY <1>7, <1>8, <1>9, <1>11, <1>12

\* The handler's message; that main returned has not been said and will not be.
LEMMA HandleExceptionStep ==
  ASSUME FirmwareInv, HandleException
  PROVE  FirmwareInv'
<1> USE DEF FirmwareInv
<1>1. /\ stage = "handler" /\ stage' = "csrs" /\ s0' = mcause
      /\ UNCHANGED <<sp, sentinels, exitHandlers, mcause, mepc, report>>
      /\ Simprint("ExceptionOccurred", mcause)
  BY DEF HandleException
<1>2. "ExceptionOccurred" \in OutcomeTexts /\ mcause \in Words
  BY DEF OutcomeTexts, TypeOK
<1>3. PICK n \in Nat : n = Len(log)
  BY TheLog
<1>4. /\ log' \in Seq(Entry)
      /\ log' # <<>>
      /\ Len(log') = n + 1
      /\ DOMAIN log = 1..n
      /\ DOMAIN log' = 1..(n + 1)
      /\ log'[n + 1].text = "ExceptionOccurred"
      /\ log'[n + 1].number = mcause
      /\ \A i \in 1..n : log'[i] = log[i]
  BY <1>1, <1>2, <1>3, OutcomePrinted
<1>5. \A i \in DOMAIN log' : log'[i].text # "MainReturned"
  BY <1>1, <1>3, <1>4 DEF OutcomeIsAhead
<1>6. n < MaxLog
  BY <1>1, <1>3 DEF LogIsBounded
<1>7. TypeOK'
  <2>1. Len(log') <= MaxLog + 2 /\ stage' \in Stages
    BY <1>1, <1>3, <1>4, <1>6, BoundsAssumption DEF Stages
  <2>2. UNCHANGED <<sp, sentinels, exitHandlers, mcause, mepc, report>> /\ s0' \in Words
    BY <1>1, <1>2
  <2> QED
    BY <1>4, <2>1, <2>2 DEF TypeOK, Entry
<1>8. LogIsBounded'
  BY <1>1, <1>3, <1>4, <1>6, BoundsAssumption DEF LogIsBounded
<1>9. OutcomeIsAhead' /\ OneOutcome' /\ DamageIsLogged'
  BY <1>1, <1>5 DEF OutcomeIsAhead, OneOutcome, DamageIsLogged, UserStages
<1>10. OutcomeIsKept' /\ DamageIsNoted'
  BY <1>1, <1>2, <1>4 DEF OutcomeIsKept, DamageIsNoted
<1> QED
  BY <1>7, <1>8, <1>9, <1>10

\* Every step of the core and every release keeps the invariant.
LEMMA FirmwareStep ==
  ASSUME FirmwareInv, Program \/ Runtime \/ Restart
  PROVE  FirmwareInv'
  BY RestartStep, SilentStep, CheckStackStep, ProgramPrintsStep, PrintResultStep, HandleExceptionStep
     DEF Program, Runtime

\* A step of the test runner leaves the core alone.
LEMMA StutterStep ==
  ASSUME FirmwareInv, UNCHANGED vars
  PROVE  FirmwareInv'
<1>1. UNCHANGED <<stage, sp, sentinels, exitHandlers, s0, mcause, mepc, report, log>>
  BY DEF vars
<1> QED
  BY <1>1
     DEF FirmwareInv, TypeOK, LogIsBounded, OutcomeIsAhead, OutcomeIsKept, OneOutcome,
         DamageIsNoted, DamageIsLogged

-----------------------------------------------------------------------------
(* The session.                                                            *)

\* The runner stops waiting only for a message that is still in the log when
\* the emulator ends.
TerminationIsLogged ==
  runner \in {"quitting", "judging"} => Mentions(log, TerminationStrings)

\* The log stands still once the emulator has ended, and was judged as it stands.
Judged ==
  /\ runner = "judging" => output = log
  /\ status.by # "judge" \/ runner = "exited"
  /\ status = Unended \/ runner = "exited"
  /\ runner = "exited" /\ status.by = "traceback" => output = <<>>
  /\ status = Exit(0) =>
       /\ ~Mentions(log, FailureStrings)
       /\ \E i \in DOMAIN log : log[i].text = "MainReturned" /\ log[i].number % 256 = 0

SessionInv ==
  /\ SessionTypeOK
  /\ FirmwareInv
  /\ TerminationIsLogged
  /\ Judged

\* What the log mentions it goes on mentioning until the core is released again.
LEMMA LogGrows ==
  ASSUME TypeOK, Program \/ Runtime, NEW strings, Mentions(log, strings)
  PROVE  Mentions(log', strings)
<1>1. CASE log' = log
  BY <1>1
<1>2. ASSUME NEW text \in Texts, NEW number \in Words \cup {1}, Simprint(text, number)
      PROVE  Mentions(log', strings)
  <2>1. PICK i \in 1..Len(log) : log[i].text \in strings
    BY TheLog DEF Mentions
  <2>2. log'[i] = log[i] /\ DOMAIN log' = 1..(Len(log) + 1) /\ Len(log) \in Nat
    BY <1>2, Printed, TheLog
  <2> QED
    BY <2>1, <2>2 DEF Mentions
<1>3. \/ log' = log
      \/ \E text \in Texts, number \in Words \cup {1} : Simprint(text, number)
  <2>1. ProgramTexts \cup OutcomeTexts \cup {"StackCorrupted"} \subseteq Texts
    BY DEF Texts
  <2>2. {0, 1, s0, mcause} \subseteq Words \cup {1}
    BY DEF TypeOK, Words
  <2>3. {"MainReturned", "ExceptionOccurred"} \subseteq OutcomeTexts
    BY DEF OutcomeTexts
  <2>4. CASE Program
    BY <2>1, <2>2, <2>4 DEF Program, DamageStack, ProgramPrints, MainReturns, Fault
  <2>5. CASE Runtime
    BY <2>1, <2>2, <2>3, <2>5
       DEF Runtime, Start, RegisterFini, RunInit, CallExitProcs, CheckStack,
           PrintResult, Finish, HandleException, PrintCsrs
  <2> QED
    BY <2>4, <2>5
<1> QED
  BY <1>1, <1>2, <1>3

\* A byte is a status.
LEMMA ExitCodes ==
  /\ Unended \in Status /\ Traceback \in Status
  /\ \A n \in Nat : Exit(n) \in Status /\ (Exit(n) = Exit(0) => n % 256 = 0)
<1>1. \A n \in Nat : n % 256 \in 0..255
  OBVIOUS
<1>2. 0 % 256 = 0
  OBVIOUS
<1> QED
  BY <1>1, <1>2 DEF Unended, Traceback, Exit, Status

\* The only message that main returned is the one that is judged.
LEMMA TheReturn ==
  ASSUME FirmwareInv, output = log, ReturnCodes # {}
  PROVE  FirstReturn \in DOMAIN log /\ log[FirstReturn].text = "MainReturned"
<1>1. PICK i \in DOMAIN log : log[i].text = "MainReturned"
  BY DEF ReturnCodes
<1>2. ASSUME NEW j \in ReturnCodes PROVE i <= j
  <2>1. j \in DOMAIN log /\ log[j].text = "MainReturned"
    BY <1>2 DEF ReturnCodes
  <2>2. i \in Nat /\ j \in Nat
    BY <2>1, TheLog DEF FirmwareInv
  <2>3. ~(j < i)
    BY <1>1, <2>1 DEF FirmwareInv, OneOutcome, OutcomeTexts
  <2> QED
    BY <2>2, <2>3
<1>3. i \in ReturnCodes
  BY <1>1 DEF ReturnCodes
<1>4. FirstReturn \in ReturnCodes
  BY <1>2, <1>3 DEF FirstReturn
<1> QED
  BY <1>4 DEF ReturnCodes

\* The verdict.
LEMMA JudgeStep ==
  ASSUME SessionInv, Judge
  PROVE  SessionInv'
<1>1. /\ runner = "judging" /\ runner' = "exited"
      /\ output = log
      /\ UNCHANGED <<vars, output>>
      /\ Mentions(log, TerminationStrings)
      /\ FirmwareInv
  BY DEF Judge, SessionInv, Judged, TerminationIsLogged
<1>2. FirmwareInv'
  BY <1>1, StutterStep
<1>3. CASE Mentions(output, FailureStrings)
  <2>1. status' = Exit(1)
    BY <1>3 DEF Judge
  <2>2. Exit(1) \in Status /\ Exit(1) # Exit(0) /\ Exit(1).by = "judge"
    <3>1. 1 % 256 # 0
      OBVIOUS
    <3> QED
      BY <3>1, ExitCodes DEF Exit
  <2> QED
    BY <1>1, <1>2, <2>1, <2>2
       DEF SessionInv, SessionTypeOK, FirmwareInv, TerminationIsLogged, Judged
<1>4. CASE ~Mentions(output, FailureStrings)
  <2>1. ReturnCodes # {}
    <3>1. PICK i \in DOMAIN log : log[i].text \in TerminationStrings
      BY <1>1 DEF Mentions
    <3>2. log[i].text \notin FailureStrings
      BY <1>1, <1>4 DEF Mentions
    <3>3. log[i].text = "MainReturned"
      BY <3>1, <3>2 DEF TerminationStrings, FailureStrings
    <3> QED
      BY <1>1, <3>3 DEF ReturnCodes
  <2>2. FirstReturn \in DOMAIN log /\ log[FirstReturn].text = "MainReturned"
    BY <1>1, <2>1, TheReturn
  <2>3. PICK n \in Nat : n = log[FirstReturn].number
    BY <1>1, <2>2, TheLog, WordsAssumption DEF FirmwareInv, Entry, Words
  <2>4. status' = Exit(n)
    BY <1>1, <1>4, <2>1, <2>3 DEF Judge
  <2>5. Exit(n) \in Status /\ Exit(n).by = "judge" /\ (Exit(n) = Exit(0) => n % 256 = 0)
    BY <2>3, ExitCodes DEF Exit
  <2>6. Judged'
    BY <1>1, <1>4, <2>2, <2>3, <2>4, <2>5 DEF Judged, vars
  <2>7. SessionTypeOK'
    BY <1>1, <1>2, <2>4, <2>5 DEF SessionTypeOK, FirmwareInv
  <2> QED
    BY <1>1, <1>2, <2>6, <2>7 DEF SessionInv, TerminationIsLogged
<1> QED
  BY <1>3, <1>4

\* A step of the core, or a release, while the emulator runs.
LEMMA EmulatorStep ==
  ASSUME SessionInv, RuntimeStep \/ ProgramStep \/ Rerelease
  PROVE  SessionInv'
<1>1. /\ runner \in {"none", "expecting", "quitting"}
      /\ UNCHANGED <<runner, output, status>>
      /\ SessionTypeOK
      /\ status = Unended
  BY DEF RuntimeStep, ProgramStep, Rerelease, EmulatorRuns, Waiting, SessionInv, Judged
<1>2. FirmwareInv'
  BY FirmwareStep DEF RuntimeStep, ProgramStep, Rerelease, SessionInv
<1>3. SessionTypeOK'
  BY <1>1, <1>2 DEF SessionTypeOK, FirmwareInv
<1>4. TerminationIsLogged'
  <2> SUFFICES ASSUME runner = "quitting" PROVE Mentions(log', TerminationStrings)
    BY <1>1 DEF TerminationIsLogged, Mentions
  <2>1. Program \/ Runtime
    BY DEF RuntimeStep, ProgramStep, Rerelease
  <2>2. TypeOK /\ Mentions(log, TerminationStrings)
    BY DEF SessionInv, FirmwareInv, TerminationIsLogged
  <2> QED
    BY <2>1, <2>2, LogGrows
<1>5. Judged'
  BY <1>1 DEF Judged, Unended, Exit
<1> QED
  BY <1>2, <1>3, <1>4, <1>5 DEF SessionInv

\* The runner's other steps, and the end.
LEMMA RunnerStep ==
  ASSUME SessionInv, ExpectTermination \/ EmulatorQuits \/ TimeOut \/ UNCHANGED sessionVars
  PROVE  SessionInv'
<1>1. UNCHANGED vars /\ log' = log
  BY DEF ExpectTermination, EmulatorQuits, TimeOut, sessionVars, vars
<1>2. FirmwareInv'
  BY <1>1, StutterStep DEF SessionInv
<1>3. SessionTypeOK /\ TypeOK'
  BY <1>2 DEF SessionInv, FirmwareInv
<1>4. CASE ExpectTermination
  <2>1. status = Unended
    BY <1>4 DEF ExpectTermination, SessionInv, Judged
  <2>2. SessionTypeOK'
    BY <1>3, <1>4 DEF ExpectTermination, SessionTypeOK
  <2>3. Judged' /\ TerminationIsLogged'
    BY <1>1, <1>4, <2>1
       DEF ExpectTermination, Judged, TerminationIsLogged, Mentions, Unended, Exit
  <2> QED
    BY <1>2, <2>2, <2>3 DEF SessionInv
<1>5. CASE EmulatorQuits
  <2>1. status = Unended /\ Mentions(log, TerminationStrings)
    BY <1>5 DEF EmulatorQuits, SessionInv, Judged, TerminationIsLogged
  <2>2. SessionTypeOK'
    BY <1>3, <1>5 DEF EmulatorQuits, SessionTypeOK
  <2>3. Judged' /\ TerminationIsLogged'
    BY <1>1, <1>5, <2>1
       DEF EmulatorQuits, Judged, TerminationIsLogged, Mentions, Unended, Exit
  <2> QED
    BY <1>2, <2>2, <2>3 DEF SessionInv
<1>6. CASE TimeOut
  <2>1. runner' = "exited" /\ status' = Traceback /\ output' = <<>>
    BY <1>3, <1>6 DEF TimeOut, Waiting, SessionTypeOK
  <2>2. SessionTypeOK'
    BY <1>3, <2>1, ExitCodes DEF SessionTypeOK
  <2>3. Judged' /\ TerminationIsLogged'
    BY <2>1 DEF Judged, TerminationIsLogged, Traceback, Exit
  <2> QED
    BY <1>2, <2>2, <2>3 DEF SessionInv
<1>7. CASE UNCHANGED sessionVars
  <2>1. UNCHANGED <<runner, output, status>>
    BY <1>7 DEF sessionVars
  <2>2. SessionTypeOK'
    BY <1>3, <2>1 DEF SessionTypeOK
  <2>3. Judged' /\ TerminationIsLogged'
    BY <1>1, <2>1 DEF SessionInv, Judged, TerminationIsLogged, Mentions
  <2> QED
    BY <1>2, <2>2, <2>3 DEF SessionInv
<1> QED
  BY <1>4, <1>5, <1>6, <1>7

\* Whatever the program does, the invariant holds throughout the session.
LEMMA SessionInvariant == SessionSpec => []SessionInv
<1>1. SessionInit => SessionInv
  <2> SUFFICES ASSUME SessionInit PROVE SessionInv
    OBVIOUS
  <2>1. FirmwareInv
    BY FirmwareInit DEF SessionInit
  <2>2. SessionTypeOK
    BY <2>1, ExitCodes DEF SessionInit, SessionTypeOK, FirmwareInv
  <2>3. Judged /\ TerminationIsLogged
    BY DEF SessionInit, Judged, TerminationIsLogged, Unended, Exit
  <2> QED
    BY <2>1, <2>2, <2>3 DEF SessionInv
<1>2. SessionInv /\ [SessionNext]_sessionVars => SessionInv'
  BY EmulatorStep, RunnerStep, JudgeStep DEF SessionNext, Runner, Over
<1> QED
  BY <1>1, <1>2, PTL DEF SessionSpec

-----------------------------------------------------------------------------
(* The properties.                                                         *)

\* The session keeps its types and the log its bound.
THEOREM SessionTypes == SessionSpec => []SessionTypeOK
<1>1. SessionInv => SessionTypeOK
  BY DEF SessionInv
<1> QED
  BY <1>1, SessionInvariant, PTL

\* Once the core has finished, the word _finish left under the stack pointer is
\* the number of the last outcome in the log, after any number of nested
\* exceptions and releases.
THEOREM TheReportIsTheLogs == SessionSpec => []ReportMatchesLog
<1>1. SessionInv => ReportMatchesLog
  <2> SUFFICES ASSUME FirmwareInv, stage = "finished"
               PROVE  \E i \in DOMAIN log : IsLastOutcome(i) /\ report.value = log[i].number
    BY DEF SessionInv, ReportMatchesLog
  <2>1. PICK n \in Nat : n = Len(log) /\ DOMAIN log = 1..n
    BY TheLog DEF FirmwareInv
  <2>2. /\ log # <<>>
        /\ log[n].text \in OutcomeTexts
        /\ report.value = log[n].number
    BY <2>1 DEF FirmwareInv, OutcomeIsKept
  <2>3. n # 0
    BY <2>1, <2>2, TheLog DEF FirmwareInv
  <2> QED
    BY <2>1, <2>2, <2>3 DEF IsLastOutcome
<1> QED
  BY <1>1, SessionInvariant, PTL

\* An exception and a return are never both reported, and no return twice.
THEOREM OneOutcomeOnly == SessionSpec => []OneOutcome
<1>1. SessionInv => OneOutcome
  BY DEF SessionInv, FirmwareInv
<1> QED
  BY <1>1, SessionInvariant, PTL

\* A program that damaged its stack is complained of right before its result, in
\* every start.
THEOREM DamageIsSaid == SessionSpec => []DamageIsLogged
<1>1. SessionInv => DamageIsLogged
  BY DEF SessionInv, FirmwareInv
<1> QED
  BY <1>1, SessionInvariant, PTL

\* An exit status of zero is earned: the log, still as it was judged, has the
\* result in it and none of the failures.
THEOREM APassIsEarned == SessionSpec => []PassIsEarned
<1>1. SessionInv => PassIsEarned
  <2>1. {"ExceptionOccurred"} \cup ProgramTexts \subseteq FailureStrings
    BY DEF ProgramTexts, FailureStrings
  <2> QED
    BY <2>1 DEF SessionInv, Judged, PassIsEarned, Mentions
<1> QED
  BY <1>1, SessionInvariant, PTL

\* The script ends in a traceback only if it was timed out: a termination string
\* in the log means a failure string or a result to judge by.
THEOREM NoTracebackWithOutput == SessionSpec => []JudgedByResult
<1>1. SessionInv => JudgedByResult
  BY DEF SessionInv, Judged, JudgedByResult, Traceback
<1> QED
  BY <1>1, SessionInvariant, PTL
=============================================================================
