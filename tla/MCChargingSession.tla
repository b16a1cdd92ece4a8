-------------------------- MODULE MCChargingSession --------------------------
(***************************************************************************)
(* The instances of ChargingSession that TLC explores: handlers and meter  *)
(* readings are only ever compared for equality.                           *)
(***************************************************************************)
EXTENDS ChargingSession, TLC

Symmetry == Permutations(Handlers) \union Permutations(Readings)
=============================================================================
