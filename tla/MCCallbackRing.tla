---------------------------- MODULE MCCallbackRing ----------------------------
(***************************************************************************)
(* Instances of CallbackRing for TLC.                                      *)
(***************************************************************************)
EXTENDS CallbackRing, TLC

Symmetry == Permutations(Threads)
=============================================================================
