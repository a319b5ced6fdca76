-------------------------- MODULE AccountRuntimeMC --------------------------
(***************************************************************************)
(* AccountRuntime for TLC: this process and one other, a few sessions.     *)
(***************************************************************************)
EXTENDS AccountRuntime, TLC

Symmetry == Permutations(SessionIds)
=============================================================================
