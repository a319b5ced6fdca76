------------------------- MODULE SessionOwnershipMC -------------------------
(***************************************************************************)
(* SessionOwnership for TLC: one account contended by two processes, or    *)
(* two accounts, with session ids interchangeable.                         *)
(***************************************************************************)
EXTENDS SessionOwnership, TLC

Symmetry == Permutations(SessionIds) \cup Permutations(Tokens)
=============================================================================
