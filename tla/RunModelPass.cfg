SPECIFICATION Spec
CONSTANTS
  Elements = 3
  FloatOutputs <- MCFloatOutputs
  NaN = NaN
INVARIANTS
  TypeOK
  UsesOnlyHeld
  OnlyViewsLeak
  AnswerIsOfThisRun
PROPERTY FirstErrorReported
