SPECIFICATION GlossSpec
CONSTANTS
  Characters = {65, 193, 128}
  LineLimit = 2
  BufferSize = 3
  SimprintLimit = 2
  MaxWritten = 4
  Requests <- MCRequests
  AddressSpace = 64
  Alignment = 4
  EndOfBss = 9
  EndOfDtcm = 27
  StackSize = 4
  MaxBlocks = 2
INVARIANTS
  TypeOK
  InBounds
  NothingLost
  BlocksApart
