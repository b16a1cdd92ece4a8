-------------------------- MODULE MCChargerDirectory --------------------------
(***************************************************************************)
(* The instance of ChargerDirectory that TLC explores.                     *)
(***************************************************************************)
EXTENDS ChargerDirectory
=============================================================================
