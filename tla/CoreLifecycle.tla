--------------------------- MODULE CoreLifecycle ---------------------------
(***************************************************************************)
(* What the control block promises to a host that drives the Springbok     *)
(* core, said without registers, mode bits or reset sequences.             *)
(*                                                                         *)
(* The core is held in reset, frozen or running.  A program makes progress *)
(* only while it runs.  It stops itself in two ways: it asks the host for  *)
(* something (and is frozen where it stands) or it completes (and is held  *)
(* in reset); either way the host gets a notice that stays until the host  *)
(* takes it back.  A program that has completed never runs again unless it *)
(* is started afresh.                                                      *)
(***************************************************************************)
CONSTANT Notices                 \* what the host can be told; "HostReq" and "Finish" are

VARIABLES phase,                 \* what the host makes the core do
          progress,              \* how far the loaded program is
          notices                \* what the host has been told and not taken back

vars == <<phase, progress, notices>>

Phases     == {"held", "frozen", "running"}
Progresses == {"none", "partial", "requesting", "completed"}

TypeOK ==
  /\ phase \in Phases
  /\ progress \in Progresses
  /\ notices \subseteq Notices

Init ==
  /\ phase = "held"
  /\ progress = "none"
  /\ notices = {}

\* The host lets a held core go: the program restarts from its first instruction.
Start ==
  /\ phase = "held"
  /\ phase' \in {"frozen", "running"}
  /\ progress' = "none"
  /\ UNCHANGED notices

Resume ==
  /\ phase = "frozen"
  /\ phase' = "running"
  /\ UNCHANGED <<progress, notices>>

Freeze ==
  /\ phase = "running"
  /\ phase' = "frozen"
  /\ UNCHANGED <<progress, notices>>

Hold ==
  /\ phase' = "held"
  /\ UNCHANGED <<progress, notices>>

Execute ==
  /\ phase = "running"
  /\ progress' = "partial"
  /\ UNCHANGED <<phase, notices>>

Request ==
  /\ phase = "running"
  /\ phase' = "frozen"
  /\ progress' = "requesting"
  /\ notices' = notices \cup {"HostReq"}

Complete ==
  /\ phase = "running"
  /\ phase' = "held"
  /\ progress' = "completed"
  /\ notices' = notices \cup {"Finish"}

\* The host takes notices back.
TakeBack ==
  /\ notices' \subseteq notices
  /\ UNCHANGED <<phase, progress>>

\* The host raises notices itself, to test its own interrupt path.
Raise ==
  /\ notices' \subseteq Notices
  /\ notices \subseteq notices'
  /\ UNCHANGED <<phase, progress>>

\* The whole machine is reset; what the host was told survives.
PowerCycle ==
  /\ phase' = "held"
  /\ progress' = "none"
  /\ UNCHANGED notices

Next ==
  \/ Start \/ Resume \/ Freeze \/ Hold
  \/ Execute \/ Request \/ Complete
  \/ TakeBack \/ Raise \/ PowerCycle

Spec == Init /\ [][Next]_vars
=============================================================================
