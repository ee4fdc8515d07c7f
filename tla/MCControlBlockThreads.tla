------------------------ MODULE MCControlBlockThreads ------------------------
(* The two interrupts that the code raises by itself, in IrqUpdate's order. *)
EXTENDS ControlBlockThreads

MCLineOrder == <<"HostReq", "Finish">>
=============================================================================
