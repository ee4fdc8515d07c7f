---------------------------- MODULE MCFloatToStr ----------------------------
(* float_to_str on the values that could be printed wrongly: the ends and  *)
(* some inner points of every bucket, the ends of the fixed-point range,   *)
(* the extremes of binary32 and the values that are not numbers.           *)
EXTENDS FloatAccuracy

BucketEnds == {RawBucketStart[k] + d : k \in 2..84, d \in {-1, 0, 1}}
InnerPoints ==
  {RawBucketStart[k] + d * ((RawBucketStart[k + 1] - RawBucketStart[k]) \div 5) :
     k \in 1..83, d \in {1, 3}}
Edges == {0, 1, 2, 8388607, 8388608, One - 1, One, One + 1,
          TenToThe7 - 1, TenToThe7, \h40490FDB, Infinity - 1, Infinity,
          Infinity + 1, 2147483647}

MCValues ==
  {[raw |-> r, negative |-> r % 2 = 1] : r \in BucketEnds \cup InnerPoints}
    \cup [raw : Edges, negative : BOOLEAN]
=============================================================================
