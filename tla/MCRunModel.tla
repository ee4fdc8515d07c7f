----------------------------- MODULE MCRunModel -----------------------------
(* RunModel with outputs below, at and above zero, two of them positive.   *)
EXTENDS RunModel

MCFloatOutputs == {-1, 0, 1, 2}
=============================================================================
