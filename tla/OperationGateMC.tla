--------------------------- MODULE OperationGateMC ---------------------------
(***************************************************************************)
(* OperationGate for TLC: a holder, a waiter and one that gives up.  The   *)
(* generation wraps around after a few turns.                              *)
(***************************************************************************)
EXTENDS OperationGate
==============================================================================
