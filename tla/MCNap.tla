------------------------------- MODULE MCNap --------------------------------
(***************************************************************************)
(* NapState for TLC: two CPUs, and two processes that may run any command  *)
(* (the timer and the administrator, say).                                 *)
(***************************************************************************)
EXTENDS NapState, TLC

CONSTANTS c1, c2, timer, admin

TwoCpus  == {c1, c2}
TwoProcs == {timer, admin}

NapSymmetry == Permutations(TwoCpus) \cup Permutations(TwoProcs)
=============================================================================
