--------------------------- MODULE MCVirtualCharger ---------------------------
(***************************************************************************)
(* The software charger as TLC explores it: the console, one goroutine of  *)
(* a remote request, reset or meter tick beside it, and the recovery of    *)
(* the central system.                                                     *)
(***************************************************************************)
EXTENDS VirtualCharger

(* The register, or a reading the central system has of it, has moved.     *)
Metered ==
  sim.meter # MeterStart \/ \E t \in Tids : rows.last[t] # rows.startedAt[t]

(* Two statuses have crossed, and not because recovery came too late.      *)
Crossed == muddled /\ ~overtaken

(* A second session, a register that moves, faults or crossed statuses:    *)
(* one of the three at a time, for their product is beyond a few minutes.  *)
OneAtATime ==
  /\ rows.opened <= 1 \/ ~Metered
  /\ (rows.opened <= 1 /\ ~Metered) \/ (faults = 0 /\ ~Crossed)
=============================================================================
