---------------------------- MODULE TestSession ----------------------------
(***************************************************************************)
(* A session of the emulator.  In a test, test_runner.py starts it with    *)
(* the program, waits for one of its termination strings in the log, tells *)
(* the emulator to quit, and turns the whole output into an exit status;   *)
(* the program runs on until the emulator is gone.  Without the runner a   *)
(* person drives the emulator and can release the core again and again.    *)
(***************************************************************************)
EXTENDS Firmware

VARIABLES runner,     \* "expecting", "quitting", "judging" or "exited"; "none" without it
          output,     \* the log when the emulator ended
          status      \* who ended the script, and its exit status

sessionVars == <<vars, runner, output, status>>

\* Faulty variant: any message of the run time ends the wait.
AnyMessage == Texts

TerminationStrings == {"MainReturned", "ExceptionOccurred", "NonExistingPeripheral"}
FailureStrings     == {"FAILED", "ExceptionOccurred", "NonExistingPeripheral"}

Mentions(messages, strings) == \E i \in DOMAIN messages : messages[i].text \in strings

\* An exit status is one byte.
Status == [by : {"none", "traceback", "judge"}, code : 0..255]

Unended   == [by |-> "none", code |-> 0]
Traceback == [by |-> "traceback", code |-> 1]
Exit(n)   == [by |-> "judge", code |-> n % 256]

SessionTypeOK ==
  /\ TypeOK
  /\ runner \in {"none", "expecting", "quitting", "judging", "exited"}
  /\ output = <<>> \/ runner \in {"judging", "exited"}
  /\ status \in Status

SessionInit ==
  /\ Init
  /\ runner \in {"expecting", "none"}
  /\ output = <<>>
  /\ status = Unended

Waiting      == runner \in {"expecting", "quitting"}
EmulatorRuns == runner = "none" \/ Waiting

\* child.expect(termination_strings), then the quit command is sent.
ExpectTermination ==
  /\ runner = "expecting"
  /\ Mentions(log, TerminationStrings)
  /\ runner' = "quitting"
  /\ UNCHANGED <<vars, output, status>>

\* The emulator ends; child.expect(EOF) returns.
EmulatorQuits ==
  /\ runner = "quitting"
  /\ runner' = "judging"
  /\ output' = log
  /\ UNCHANGED <<vars, status>>

\* Faulty variant: the timeout is noted and the wait goes on.
TimeOutIgnored ==
  /\ Waiting
  /\ status' = Traceback
  /\ UNCHANGED <<vars, runner, output>>

\* Either expect times out, or the emulator dies during the first; the exception
\* ends the script with status 1.
TimeOut ==
  /\ Waiting
  /\ runner' = "exited"
  /\ status' = Traceback
  /\ UNCHANGED <<vars, output>>

\* The end of main(): the failure strings, then the first `main returned'.
ReturnCodes == {i \in DOMAIN output : output[i].text = "MainReturned"}
FirstReturn == CHOOSE i \in ReturnCodes : \A j \in ReturnCodes : i <= j

\* Faulty variant: the result is not looked at.
JudgeByStrings ==
  /\ runner = "judging"
  /\ status' = IF Mentions(output, FailureStrings) THEN Exit(1) ELSE Exit(0)
  /\ runner' = "exited"
  /\ UNCHANGED <<vars, output>>

Judge ==
  /\ runner = "judging"
  /\ status' = IF Mentions(output, FailureStrings) THEN Exit(1)
               ELSE IF ReturnCodes = {} THEN Traceback
               ELSE Exit(output[FirstReturn].number)
  /\ runner' = "exited"
  /\ UNCHANGED <<vars, output>>

Runner == ExpectTermination \/ EmulatorQuits \/ TimeOut \/ Judge

RuntimeStep == EmulatorRuns /\ Runtime /\ UNCHANGED <<runner, output, status>>
ProgramStep == EmulatorRuns /\ Program /\ UNCHANGED <<runner, output, status>>
Rerelease   == runner = "none" /\ Restart /\ UNCHANGED <<runner, output, status>>
Over        == runner = "exited" /\ UNCHANGED sessionVars

SessionNext == RuntimeStep \/ ProgramStep \/ Rerelease \/ Runner \/ Over

SessionSpec == SessionInit /\ [][SessionNext]_sessionVars

\* The timeouts bound both waits and the rest of the script just runs; the
\* emulated core goes on executing, and what main does is up to main.
FairSessionSpec ==
  SessionSpec /\ WF_sessionVars(Runner) /\ WF_sessionVars(RuntimeStep)

-----------------------------------------------------------------------------
(* Properties.                                                             *)

\* A test passes only if main returned in the run that was judged, with a
\* value the exit status cannot tell from zero, no exception was taken and the
\* program complained of nothing.
PassIsEarned ==
  status = Exit(0) =>
    /\ ~Mentions(log, {"ExceptionOccurred"} \cup ProgramTexts)
    /\ \E i \in DOMAIN log : log[i].text = "MainReturned" /\ log[i].number % 256 = 0

\* A run in which main returned and which was not timed out is judged by its
\* result, not by a traceback of the script.
JudgedByResult ==
  runner = "exited" /\ output # <<>> => status # Traceback

\* The runner ends whatever the program does.
RunnerEnds == <>(runner \in {"exited", "none"})

\* Once main has returned the core finishes, unless a destructor faults, the
\* host restarts it or the emulator ends first.
ReturnedFinishes ==
  stage = "destructors" ~> stage \in {"finished", "handler", "reset"} \/ ~EmulatorRuns
=============================================================================
