------------------------------ MODULE Firmware ------------------------------
(***************************************************************************)
(* The run time of a Springbok program: crt0.S from _start to finish, its  *)
(* exception handler, and print_csrs.  A start puts the registers in a     *)
(* known state but keeps the memory, so what an earlier start left behind  *)
(* is still there.                                                         *)
(*                                                                         *)
(* main, the constructors and the destructors are the program's own: they  *)
(* may print, overrun the stack and fault, and main may return any word    *)
(* and move the stack pointer.                                             *)
(***************************************************************************)
EXTENDS Naturals, Sequences

CONSTANTS ReturnValues, Causes,    \* words: what main returns, mcause
          MaxLog, MaxHandlers      \* bounds: messages per start, atexit entries

ASSUME WordsAssumption == ReturnValues \subseteq Nat /\ Causes \subseteq Nat
ASSUME BoundsAssumption == MaxLog \in Nat /\ MaxHandlers \in Nat \ {0}

VARIABLES stage,         \* what the core executes next
          sp,            \* "top": at _stack_ptr; "off": anywhere else
          sentinels,     \* the words written at both ends of the stack
          exitHandlers,  \* __libc_fini_array registrations not yet called
          s0,            \* the value to report
          mcause, mepc,  \* of the latest exception; mepc is the stage that faulted
          report,        \* the two words _finish leaves under _stack_ptr
          log            \* what simprint printed since the start

vars == <<stage, sp, sentinels, exitHandlers, s0, mcause, mepc, report, log>>

UserStages == {"init", "main", "destructors"}
Stages == {"reset", "atexit", "check", "result", "store", "finished", "handler", "csrs"} \cup UserStages
Words  == {0} \cup ReturnValues \cup Causes

\* What the program's own output, or the emulator on its behalf, may put in the
\* log that somebody looks for.
ProgramTexts == {"FAILED", "NonExistingPeripheral"}
OutcomeTexts == {"MainReturned", "ExceptionOccurred"}
Texts        == {"StackCorrupted"} \cup OutcomeTexts \cup ProgramTexts

TypeOK ==
  /\ stage \in Stages
  /\ sp \in {"top", "off"}
  /\ sentinels \in {"unset", "intact", "damaged"}
  /\ exitHandlers \in 0..MaxHandlers
  /\ s0 \in Words
  /\ mcause \in Words
  /\ mepc \in {"none", "handler", "csrs"} \cup UserStages
  /\ report \in [value : Words, epc : {"none", "handler", "csrs"} \cup UserStages]
  /\ log \in Seq([text : Texts, number : Words \cup {1}]) /\ Len(log) <= MaxLog + 2

Init ==
  /\ stage = "reset"
  /\ sp = "off"
  /\ sentinels = "unset"
  /\ exitHandlers = 0
  /\ s0 = 0
  /\ mcause = 0
  /\ mepc = "none"
  /\ report = [value |-> 0, epc |-> "none"]
  /\ log = <<>>

Simprint(text, number) == log' = Append(log, [text |-> text, number |-> number])

-----------------------------------------------------------------------------
(* From the release to main.                                               *)

\* The host releases the core again; the memory is as it was.  Whether the
\* emulator's reset clears the exception registers is not up to this code.
Restart ==
  /\ stage' = "reset"
  /\ log' = <<>>
  /\ \/ mcause' = 0 /\ mepc' = "none"
     \/ UNCHANGED <<mcause, mepc>>
  /\ UNCHANGED <<sp, sentinels, exitHandlers, s0, report>>

\* _start: registers, mtvec, stack pointer and sentinels.
Start ==
  /\ stage = "reset"
  /\ sp' = "top"
  /\ sentinels' = "intact"
  /\ s0' = 0
  /\ stage' = "atexit"
  /\ UNCHANGED <<exitHandlers, mcause, mepc, report, log>>

\* Faulty variant: the table of exit handlers has no end.
RegisterFiniUnbounded ==
  /\ stage = "atexit"
  /\ exitHandlers' = exitHandlers + 1
  /\ stage' = "init"
  /\ UNCHANGED <<sp, sentinels, s0, mcause, mepc, report, log>>

\* atexit(__libc_fini_array), whose failure is ignored.
RegisterFini ==
  /\ stage = "atexit"
  /\ exitHandlers' = IF exitHandlers < MaxHandlers THEN exitHandlers + 1 ELSE exitHandlers
  /\ stage' = "init"
  /\ UNCHANGED <<sp, sentinels, s0, mcause, mepc, report, log>>

\* __libc_init_array returns: the constructors have run, and main is called.
RunInit ==
  /\ stage = "init"
  /\ stage' = "main"
  /\ UNCHANGED <<sp, sentinels, exitHandlers, s0, mcause, mepc, report, log>>

-----------------------------------------------------------------------------
(* The program: its constructors, main, and its destructors.               *)

\* The stack overflows or underflows into a sentinel.
DamageStack ==
  /\ stage \in UserStages
  /\ sentinels' = "damaged"
  /\ UNCHANGED <<stage, sp, exitHandlers, s0, mcause, mepc, report, log>>

ProgramPrints(text) ==
  /\ stage \in UserStages
  /\ Len(log) < MaxLog
  /\ Simprint(text, 0)
  /\ UNCHANGED <<stage, sp, sentinels, exitHandlers, s0, mcause, mepc, report>>

MainReturns(value) ==
  /\ stage = "main"
  /\ s0' = value
  /\ sp' \in {"top", "off"}
  /\ stage' = "destructors"
  /\ UNCHANGED <<sentinels, exitHandlers, mcause, mepc, report, log>>

\* __call_exitprocs forgets each registered handler and calls it.
CallExitProcs ==
  /\ stage = "destructors"
  /\ IF exitHandlers > 0 THEN exitHandlers' = exitHandlers - 1 /\ UNCHANGED stage
                         ELSE stage' = "check" /\ UNCHANGED exitHandlers
  /\ UNCHANGED <<sp, sentinels, s0, mcause, mepc, report, log>>

-----------------------------------------------------------------------------
(* The way out.                                                            *)

\* Faulty variant: only the stack pointer is checked.
CheckPointerOnly ==
  /\ stage = "check"
  /\ IF sp = "top" THEN UNCHANGED log ELSE Simprint("StackCorrupted", 1)
  /\ sp' = "top"
  /\ stage' = "result"
  /\ UNCHANGED <<sentinels, exitHandlers, s0, mcause, mepc, report>>

\* _check_stack, which also repairs the stack pointer, and the message.
CheckStack ==
  /\ stage = "check"
  /\ IF sp = "top" /\ sentinels = "intact" THEN UNCHANGED log
                                           ELSE Simprint("StackCorrupted", 1)
  /\ sp' = "top"
  /\ stage' = "result"
  /\ UNCHANGED <<sentinels, exitHandlers, s0, mcause, mepc, report>>

PrintResult ==
  /\ stage = "result"
  /\ Simprint("MainReturned", s0)
  /\ stage' = "store"
  /\ UNCHANGED <<sp, sentinels, exitHandlers, s0, mcause, mepc, report>>

\* Faulty variant: the finish instruction is missing from its loop.
FinishMissing ==
  /\ stage = "store"
  /\ report' = [value |-> s0, epc |-> mepc]
  /\ UNCHANGED <<stage, sp, sentinels, exitHandlers, s0, mcause, mepc, log>>

\* _finish, up to the finish instruction, which holds the core.
Finish ==
  /\ stage = "store"
  /\ report' = [value |-> s0, epc |-> mepc]
  /\ sp' = "off"
  /\ stage' = "finished"
  /\ UNCHANGED <<sentinels, exitHandlers, s0, mcause, mepc, log>>

-----------------------------------------------------------------------------
(* Exceptions.                                                             *)

\* An instruction faults: in the program, or in the handler itself when it
\* works on a stack that is not there.
Fault(cause) ==
  /\ stage \in UserStages \/ (stage \in {"handler", "csrs"} /\ sp = "off")
  /\ Len(log) < MaxLog
  /\ mcause' = cause
  /\ mepc' = stage
  /\ sp' \in {"top", "off"}
  /\ stage' = "handler"
  /\ UNCHANGED <<sentinels, exitHandlers, s0, report, log>>

\* Faulty variant: mcause is not kept across the call of print_csrs.
HandleExceptionLosingCause ==
  /\ stage = "handler"
  /\ Simprint("ExceptionOccurred", mcause)
  /\ stage' = "csrs"
  /\ UNCHANGED <<sp, sentinels, exitHandlers, s0, mcause, mepc, report>>

\* exception_handler up to the call of print_csrs.
HandleException ==
  /\ stage = "handler"
  /\ Simprint("ExceptionOccurred", mcause)
  /\ s0' = mcause
  /\ stage' = "csrs"
  /\ UNCHANGED <<sp, sentinels, exitHandlers, mcause, mepc, report>>

\* Faulty variant: the handler leaves through the end of _exit.
PrintCsrsThenExit ==
  /\ stage = "csrs"
  /\ sp' = "top"
  /\ stage' = "check"
  /\ UNCHANGED <<sentinels, exitHandlers, s0, mcause, mepc, report, log>>

\* print_csrs, and the jump to _finish: neither the destructors nor the check
\* of the stack are run.
PrintCsrs ==
  /\ stage = "csrs"
  /\ sp' = "top"
  /\ stage' = "store"
  /\ UNCHANGED <<sentinels, exitHandlers, s0, mcause, mepc, report, log>>

-----------------------------------------------------------------------------
Program ==
  \/ DamageStack
  \/ \E text \in ProgramTexts : ProgramPrints(text)
  \/ \E value \in ReturnValues : MainReturns(value)
  \/ \E cause \in Causes : Fault(cause)

Runtime ==
  \/ Start \/ RegisterFini \/ RunInit \/ CallExitProcs \/ CheckStack \/ PrintResult \/ Finish
  \/ HandleException \/ PrintCsrs

-----------------------------------------------------------------------------
(* Properties.                                                             *)

IsLastOutcome(i) ==
  /\ log[i].text \in OutcomeTexts
  /\ \A j \in DOMAIN log : i < j => log[j].text \notin OutcomeTexts

\* The value left for the host on the stack is the one the log gave last as
\* the outcome of this start.
ReportMatchesLog ==
  stage = "finished" => \E i \in DOMAIN log : IsLastOutcome(i) /\ report.value = log[i].number

\* After an exception nothing claims that main returned, and main returns once.
OneOutcome ==
  \A i, j \in DOMAIN log : i < j /\ log[j].text = "MainReturned" =>
    log[i].text \notin OutcomeTexts

\* A program that damaged its stack does not report a result without saying so
\* first.
DamageIsLogged ==
  \A i \in DOMAIN log : log[i].text = "MainReturned" /\ sentinels = "damaged" =>
    i > 1 /\ log[i - 1].text = "StackCorrupted"
=============================================================================
