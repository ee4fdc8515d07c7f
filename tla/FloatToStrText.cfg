SPECIFICATION Spec
CONSTANTS
  Values <- MCValues
  ShortLengths = {1, 5}
  MemorySize = 18
INVARIANTS
  MeasuredThenPrinted
  SevenSignificantDigits
  Accurate
