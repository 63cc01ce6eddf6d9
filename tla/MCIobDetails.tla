----------------------------- MODULE MCIobDetails -----------------------------
(***************************************************************************)
(* IobDetails for TLC: the I/O threads are alike.                          *)
(***************************************************************************)
EXTENDS IobDetails, TLC

ThreadSymmetry == Permutations(Threads)
=============================================================================
