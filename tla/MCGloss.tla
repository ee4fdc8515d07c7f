------------------------------ MODULE MCGloss -------------------------------
(* Gloss with requests that fit, fill or exceed a heap of eight bytes, and *)
(* negative ones.                                                          *)
EXTENDS Gloss

MCRequests == {-5, 3, 5, 40}
=============================================================================
