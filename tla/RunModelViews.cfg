SPECIFICATION Spec
CONSTANTS
  Elements = 3
  FloatOutputs <- MCFloatOutputs
  NaN = NaN
INVARIANT ViewsReleased
