-------------------------- MODULE MCConnectionTracker --------------------------
(***************************************************************************)
(* The instances of ConnectionTracker that TLC explores.                   *)
(***************************************************************************)
EXTENDS ConnectionTracker
=============================================================================
