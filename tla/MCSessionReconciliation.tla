---------------------- MODULE MCSessionReconciliation ----------------------
(***************************************************************************)
(* The instance of SessionReconciliation that TLC explores: handlers and   *)
(* meter readings are only ever compared for equality.                     *)
(***************************************************************************)
EXTENDS SessionReconciliation, TLC

Symmetry == Permutations(Handlers) \union Permutations(Readings)
=============================================================================
