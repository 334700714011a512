----------------------------- MODULE MCTimeout -----------------------------
(***************************************************************************)
(* Symmetry of the timers in runs of Timeout.                              *)
(***************************************************************************)
EXTENDS Timeout, TLC

Symm == Permutations(IntTimer) \cup Permutations(Timer \ IntTimer)
=============================================================================
