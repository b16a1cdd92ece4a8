----------------------------- MODULE MCRemoteStart -----------------------------
(***************************************************************************)
(* The instance of RemoteStart that TLC explores.                          *)
(***************************************************************************)
EXTENDS RemoteStart
=============================================================================
