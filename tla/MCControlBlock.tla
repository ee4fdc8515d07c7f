--------------------------- MODULE MCControlBlock ---------------------------
(* ControlBlock with the four interrupt sources of the hardware.           *)
EXTENDS ControlBlock

MCInterruptBits == {"HostReq", "Finish", "InstructionFault", "DataFault"}
=============================================================================
