----------------------------- MODULE MCLimitStop -----------------------------
(***************************************************************************)
(* The instances of LimitStop that TLC explores.                           *)
(***************************************************************************)
EXTENDS LimitStop
=============================================================================
