SPECIFICATION FairSpec
CONSTANTS
  InstructionPageSize = 2
  DataPageSize = 4
  InstructionMemorySize = 4
  DataMemorySize = 8
  AddressBound = 6
  MaxDeferred = 2
INVARIANTS
  TypeOK
  DoneMeansErased
PROPERTIES
  ErasesRequestedPages
  ClearIsReported
