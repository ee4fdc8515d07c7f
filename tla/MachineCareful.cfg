SPECIFICATION MachineSpec
CONSTANTS
  InterruptBits = {"HostReq", "Finish"}
  InstructionPageSize = 1
  DataPageSize = 2
  InstructionMemorySize = 1
  DataMemorySize = 4
  AddressBound = 3
  MaxDeferred = 2
  CarefulHost = TRUE
INVARIANTS
  StartsOnClearedMemory
  DoneMeansErased
PROPERTY NeverErasesUnderProgram
