--------------------------- MODULE LimitStopProofs ---------------------------
(***************************************************************************)
(* Proofs about LimitStop, for any number of MeterValues goroutines,       *)
(* stoppers, attempts and faults, and for any limits.                      *)
(***************************************************************************)
EXTENDS LimitStop, TLAPS

USE LimitAssumption

(* Crossed compares numbers only when neither column is NULL.              *)
USE DEF row, charger, service

-----------------------------------------------------------------------------
(* Every step of the charger, of the goroutines and of a restart keeps the *)
(* type of every variable.                                                 *)
LEMMA TypeInit == Init => TypeOK
<1>1. Init => FlagType
  BY DEF Init, FlagType
<1>2. Init => ValueType
  BY DEF Init, ValueType
<1>3. Init => HandlerType
  BY DEF Init, HandlerType
<1>4. Init => WorkerType
  BY DEF Init, WorkerType
<1>5. Init => StopperType
  BY DEF Init, StopperType
<1> QED
  BY <1>1, <1>2, <1>3, <1>4, <1>5 DEF TypeOK

(* The two outcomes of a check, and the step from an attempt to the next.  *)
LEMMA CheckTypes ==
  ASSUME TypeOK,
         \/ CheckAndRequestLimitStop /\ awaiting' = FALSE /\ UNCHANGED faults
         \/ CheckFails
         \/ awaiting' = TRUE /\ UNCHANGED <<requested, spc, attempt, faults>>
  PROVE  {requested', awaiting'} \subseteq BOOLEAN /\ faults' \in 0..MaxFaults
         /\ StopperType'
<1>1. {requested', awaiting'} \subseteq BOOLEAN
  BY DEF TypeOK, FlagType, CheckAndRequestLimitStop, CheckFails, Claimable, Crossed
<1>2. faults' \in 0..MaxFaults
  BY DEF TypeOK, ValueType, CheckFails, Fault
<1>3. StopperType'
  <2>1. CASE UNCHANGED <<spc, attempt>>
    BY <2>1 DEF TypeOK, StopperType
  <2>2. CASE \E s \in Stoppers : /\ spc' = [spc EXCEPT ![s] = "verify"]
                                 /\ attempt' = [attempt EXCEPT ![s] = 1]
    BY <2>2 DEF TypeOK, StopperType
  <2> QED
    BY <2>1, <2>2 DEF CheckAndRequestLimitStop, CheckFails
<1> QED
  BY <1>1, <1>2, <1>3

(* The retry loop keeps the type of the goroutine.                         *)
LEMMA RetryTypes ==
  ASSUME TypeOK, NEW s \in Stoppers, Retry(s)
  PROVE  StopperType'
  BY DEF TypeOK, StopperType, Retry

(* Every step keeps the types.                                             *)
LEMMA TypeStep == TypeOK /\ [Next]_vars => TypeOK'
<1> SUFFICES ASSUME TypeOK, [Next]_vars PROVE TypeOK'
  OBVIOUS
<1> USE DEF TypeOK, Fault
<1>1. CASE Consume \/ StopTransaction \/ Restart \/ SetLimitStopper
  <2> USE DEF Consume, StopTransaction, Restart, SetLimitStopper
  <2>1. FlagType'
    BY <1>1 DEF FlagType
  <2>2. ValueType'
    BY <1>1 DEF ValueType
  <2>3. HandlerType' /\ WorkerType' /\ StopperType'
    BY <1>1 DEF HandlerType, WorkerType, StopperType
  <2> QED
    BY <2>1, <2>2, <2>3
<1>2. ASSUME \/ \E m \in Limits : PostStart(m)
             \/ UpdateMaxKWh \/ UpdateMaxKWhFails \/ MarkSent
      PROVE  TypeOK'
  <2> USE DEF PostStart, UpdateMaxKWh, UpdateMaxKWhFails, MarkSent
  <2>1. FlagType'
    BY <1>2 DEF FlagType
  <2>2. ValueType'
    BY <1>2 DEF ValueType, WorkerType
  <2>3. HandlerType' /\ StopperType'
    BY <1>2 DEF HandlerType, StopperType
  <2>4. WorkerType'
    BY <1>2 DEF WorkerType
  <2> QED
    BY <2>1, <2>2, <2>3, <2>4
<1>3. CASE WorkerCheck
  <2>1. FlagType' /\ ValueType' /\ StopperType'
    BY <1>3, CheckTypes DEF WorkerCheck, FlagType, ValueType
  <2>2. HandlerType' /\ WorkerType'
    BY <1>3 DEF WorkerCheck, HandlerType, WorkerType
  <2> QED
    BY <2>1, <2>2
<1>4. ASSUME NEW h \in Handlers,
             MeterValues(h) \/ UpdateLiveMeter(h) \/ UpdateLiveMeterFails(h)
      PROVE  TypeOK'
  <2> USE DEF MeterValues, UpdateLiveMeter, UpdateLiveMeterFails
  <2>1. FlagType'
    BY <1>4 DEF FlagType
  <2>2. ValueType'
    BY <1>4 DEF ValueType, HandlerType
  <2>3. HandlerType'
    BY <1>4 DEF ValueType, HandlerType
  <2>4. WorkerType' /\ StopperType'
    BY <1>4 DEF WorkerType, StopperType
  <2> QED
    BY <2>1, <2>2, <2>3, <2>4
<1>5. ASSUME NEW h \in Handlers, HandlerCheck(h)
      PROVE  TypeOK'
  <2>1. FlagType' /\ ValueType' /\ StopperType'
    BY <1>5, CheckTypes DEF HandlerCheck, FlagType, ValueType
  <2>2. HandlerType' /\ WorkerType'
    BY <1>5 DEF HandlerCheck, HandlerType, WorkerType
  <2> QED
    BY <2>1, <2>2
<1>6. ASSUME NEW s \in Stoppers, StopperStep(s)
      PROVE  TypeOK'
  <2> USE DEF StopperStep, Verify, CallAccepted, CallNotAccepted, SeeClosed,
          WaitTimeout, Release
  <2>1. FlagType'
    BY <1>6 DEF FlagType
  <2>2. ValueType'
    BY <1>6 DEF ValueType
  <2>3. HandlerType' /\ WorkerType'
    BY <1>6 DEF HandlerType, WorkerType
  <2>4. StopperType'
    <3>1. CASE Retry(s)
      BY <3>1, RetryTypes
    <3>2. CASE ~Retry(s)
      BY <1>6, <3>2 DEF StopperType
    <3> QED
      BY <3>1, <3>2
  <2> QED
    BY <2>1, <2>2, <2>3, <2>4
<1>7. CASE UNCHANGED vars
  BY <1>7 DEF vars, FlagType, ValueType, HandlerType, WorkerType, StopperType
<1> QED
  BY <1>1, <1>2, <1>3, <1>4, <1>5, <1>6, <1>7 DEF Next, WorkerStep, HandlerStep

(* Every state is well typed: the attempts of a stopper never exceed       *)
(* limitStopMaxAttempts and the worker never stores a limit it has not     *)
(* been answered.                                                          *)
THEOREM TypeCorrect == Spec => []TypeOK
<1>1. QED BY TypeInit, TypeStep, PTL DEF Spec

-----------------------------------------------------------------------------
(* The inductive invariant: that the stopper holds the claim makes it the  *)
(* only one when a claim is taken, that it is the only one lets it keep    *)
(* the claim when one is released.                                         *)
LEMMA LimitInit == Init => LimitInv
  BY TypeInit DEF Init, LimitInv, OneStopper,
     NoMissedCrossing, OrphanedByFault, ReleaseIsLast, Active, Claimable,
     Crossed, Orphaned

(* What CheckAndRequestLimitStop does to claims and stoppers.              *)
LEMMA CheckClaims ==
  ASSUME LimitInv, CheckAndRequestLimitStop, UNCHANGED <<open, total, maxKWh>>
  PROVE  /\ OneStopper' /\ ReleaseIsLast'
         /\ ~Claimable'
         /\ Orphaned' => Orphaned
<1> USE DEF LimitInv, TypeOK, FlagType, ValueType, StopperType, Active
<1>1. CASE Claimable
  <2>1. requested' = TRUE
    BY <1>1 DEF CheckAndRequestLimitStop
  <2>2. PICK s \in Stoppers :
          /\ spc' = [spc EXCEPT ![s] = "verify"]
          /\ attempt' = [attempt EXCEPT ![s] = 1]
    BY <1>1 DEF CheckAndRequestLimitStop
  <2>3. \A r \in Stoppers : spc[r] = "none"
    BY <1>1 DEF OneStopper, Claimable, Crossed
  <2>4. spc'[s] = "verify" /\ \A r \in Stoppers \ {s} : spc'[r] = "none"
    BY <2>2, <2>3
  <2> QED
    BY <2>1, <2>4 DEF OneStopper, ReleaseIsLast, Claimable,
       Orphaned
<1>2. CASE ~Claimable
  <2>1. UNCHANGED <<requested, spc, attempt>>
    BY <1>2 DEF CheckAndRequestLimitStop
  <2> QED
    BY <1>2, <2>1 DEF OneStopper, ReleaseIsLast, Claimable,
       Crossed, Orphaned
<1> QED
  BY <1>1, <1>2

(* Every step keeps the invariant.                                         *)
LEMMA LimitStep == LimitInv /\ [Next]_vars => LimitInv'
<1> SUFFICES ASSUME LimitInv, [Next]_vars PROVE LimitInv'
  OBVIOUS
<1>0. TypeOK /\ TypeOK'
  BY TypeStep DEF LimitInv
<1> USE <1>0 DEF LimitInv, TypeOK, FlagType, ValueType, StopperType
<1> DEFINE Stops == OneStopper /\ ReleaseIsLast
           Facts == NoMissedCrossing /\ OrphanedByFault
(* A step that touches neither claim, nor row, nor stoppers.               *)
<1>a. ASSUME UNCHANGED <<open, requested, spc, attempt>> PROVE Stops'
  BY <1>a DEF OneStopper, ReleaseIsLast, Active
<1>b. ASSUME UNCHANGED <<open, requested, spc>>, faults' >= faults
      PROVE  OrphanedByFault'
  BY <1>b DEF OrphanedByFault, Orphaned, Active
<1>1. ASSUME Consume PROVE Stops' /\ Facts'
  BY <1>1, <1>a, <1>b DEF Consume, NoMissedCrossing, Claimable, Crossed,
     CheckPending
<1>2. ASSUME StopTransaction PROVE Stops' /\ Facts'
  BY <1>2 DEF StopTransaction, NoMissedCrossing, Claimable, Crossed, Orphaned,
     OrphanedByFault, OneStopper, ReleaseIsLast, Active
<1>3. ASSUME Restart PROVE Stops' /\ Facts'
  BY <1>3 DEF Restart, Fault, NoMissedCrossing, OrphanedByFault, OneStopper, ReleaseIsLast, Active
<1>4. ASSUME NEW m \in Limits, PostStart(m) PROVE Stops' /\ Facts'
  BY <1>4, <1>a, <1>b DEF PostStart, NoMissedCrossing, Claimable, Crossed,
     CheckPending
<1>5. ASSUME UpdateMaxKWh \/ UpdateMaxKWhFails \/ MarkSent PROVE Stops' /\ Facts'
  <2>1. UNCHANGED <<open, requested, spc, attempt>> /\ faults' >= faults
    BY <1>5 DEF UpdateMaxKWh, UpdateMaxKWhFails, MarkSent, Fault
  <2>2. NoMissedCrossing'
    BY <1>5 DEF UpdateMaxKWh, UpdateMaxKWhFails, MarkSent, NoMissedCrossing,
       Claimable, Crossed, CheckPending
  <2> QED BY <2>1, <2>2, <1>a, <1>b
<1>6. ASSUME NEW h \in Handlers,
             MeterValues(h) \/ UpdateLiveMeter(h) \/ UpdateLiveMeterFails(h)
      PROVE  Stops' /\ Facts'
  <2>1. UNCHANGED <<open, requested, spc, attempt>> /\ faults' >= faults
    BY <1>6 DEF MeterValues, UpdateLiveMeter, UpdateLiveMeterFails, Fault
  <2>2. NoMissedCrossing'
    <3>1. CASE MeterValues(h)
      BY <3>1 DEF MeterValues, HandlerType, NoMissedCrossing, Claimable,
         Crossed, CheckPending
    <3>2. CASE UpdateLiveMeter(h)
      <4>1. hpc'[h] = "check"
        BY <3>2 DEF UpdateLiveMeter, HandlerType
      <4> QED
        BY <4>1 DEF NoMissedCrossing, CheckPending
    <3>3. CASE UpdateLiveMeterFails(h)
      BY <3>3 DEF UpdateLiveMeterFails, NoMissedCrossing
    <3> QED
      BY <1>6, <3>1, <3>2, <3>3
  <2> QED BY <2>1, <2>2, <1>a, <1>b
(* The two callers of the check.                                           *)
<1>7. ASSUME UNCHANGED <<open, total, maxKWh>>,
             \/ CheckAndRequestLimitStop /\ awaiting' = FALSE /\ UNCHANGED faults
             \/ CheckFails
             \/ awaiting' = TRUE /\ UNCHANGED <<requested, spc, attempt, faults>>
      PROVE  Stops' /\ Facts'
  <2>1. CASE CheckAndRequestLimitStop /\ UNCHANGED faults
    BY <1>7, <2>1, CheckClaims DEF NoMissedCrossing, OrphanedByFault
  <2>2. CASE CheckFails
    BY <1>7, <2>2 DEF CheckFails, Fault, NoMissedCrossing, OrphanedByFault,
       OneStopper, ReleaseIsLast, Active
  <2>3. CASE awaiting' = TRUE /\ UNCHANGED <<requested, spc, attempt, faults>>
    BY <1>7, <2>3, <1>a, <1>b DEF NoMissedCrossing
  <2> QED BY <1>7, <2>1, <2>2, <2>3
<1>8. ASSUME WorkerCheck PROVE Stops' /\ Facts'
  BY <1>7, <1>8 DEF WorkerCheck
<1>9. ASSUME NEW h \in Handlers, HandlerCheck(h) PROVE Stops' /\ Facts'
  BY <1>7, <1>9 DEF HandlerCheck
<1>13. ASSUME SetLimitStopper PROVE Stops' /\ Facts'
  BY <1>13, <1>a, <1>b DEF SetLimitStopper, NoMissedCrossing, Claimable, Crossed,
     CheckPending
(* A stopper.                                                              *)
<1>10. ASSUME NEW s \in Stoppers, StopperStep(s) PROVE Stops' /\ Facts'
  <2>1. \A r \in Stoppers \ {s} : spc'[r] = spc[r] /\ attempt'[r] = attempt[r]
    BY <1>10 DEF StopperStep, Verify, CallAccepted, CallNotAccepted, Retry,
       SeeClosed, WaitTimeout, Release
  <2>2. Active(s) /\ UNCHANGED <<open, total, maxKWh, hpc, wpc>>
    BY <1>10 DEF StopperStep, Verify, CallAccepted, CallNotAccepted,
       SeeClosed, WaitTimeout, Release, Active
  <2>3. \A r \in Stoppers \ {s} : ~Active(r) /\ ~Active(r)'
    BY <2>1, <2>2 DEF OneStopper, Active
  <2>4. CASE Release(s)
    <3>1. /\ spc'[s] = "none" /\ awaiting'
          /\ \/ requested' = (requested /\ ~open) /\ UNCHANGED faults
             \/ faults' = faults + 1 /\ UNCHANGED requested
      BY <2>4 DEF Release, Fault
    <3> QED
      BY <2>1, <2>2, <2>3, <3>1 DEF OneStopper, Active,
         ReleaseIsLast, NoMissedCrossing, OrphanedByFault, Orphaned
  <2>5. CASE ~Release(s)
    <3>1. UNCHANGED <<requested, awaiting>> /\ faults' >= faults
      BY <1>10, <2>5 DEF StopperStep, Verify, CallAccepted, CallNotAccepted,
         SeeClosed, WaitTimeout, Fault
    <3>2. spc'[s] = "none" => ~open
      BY <1>10, <2>5 DEF StopperStep, Verify, CallAccepted, CallNotAccepted,
         Retry, SeeClosed, WaitTimeout
    <3>3. spc'[s] = "release" => attempt'[s] = MaxAttempts
      BY <1>10, <2>5 DEF StopperStep, Verify, CallAccepted, CallNotAccepted,
         Retry, SeeClosed, WaitTimeout
    <3>4. Stops'
      BY <2>1, <2>2, <2>3, <3>1, <3>3 DEF OneStopper,
         ReleaseIsLast, Active
    <3>5. NoMissedCrossing'
      BY <2>2, <3>1 DEF NoMissedCrossing, Claimable, Crossed, CheckPending
    <3>6. OrphanedByFault'
      BY <2>2, <3>1, <3>2 DEF OrphanedByFault, Orphaned, Active
    <3> QED BY <3>4, <3>5, <3>6
  <2> QED BY <2>4, <2>5
<1>11. CASE UNCHANGED vars
  BY <1>11, <1>a, <1>b DEF vars, NoMissedCrossing, Claimable, Crossed,
     CheckPending
<1>12. Stops' /\ Facts'
  BY <1>1, <1>2, <1>3, <1>4, <1>5, <1>6, <1>8, <1>9, <1>10, <1>11,
     <1>13 DEF Next, WorkerStep, HandlerStep
<1> QED BY <1>12

(* The inductive invariant of the limit stop holds in every state.         *)
LEMMA LimitInvariant == Spec => []LimitInv
<1>1. QED BY LimitInit, LimitStep, PTL DEF Spec

(* At most one goroutine asks the charger to stop, and it holds the claim  *)
(* as long as the transaction is open (CheckAndMarkLimitStop,              *)
(* ReleaseLimitStopRequest).                                               *)
THEOREM SingleStopper == Spec => []OneStopper
<1>1. LimitInv => OneStopper
  BY DEF LimitInv
<1>2. QED BY <1>1, LimitInvariant, PTL

(* No crossing of the limit is missed, whichever of OnMeterValues and the  *)
(* start callback completes it, and whatever the order of their steps.     *)
THEOREM CrossingNotMissed == Spec => []NoMissedCrossing
<1>1. LimitInv => NoMissedCrossing
  BY DEF LimitInv
<1>2. QED BY <1>1, LimitInvariant, PTL

(* Without a fault no claim outlives its stopper.                          *)
THEOREM NoOrphanWithoutFault == Spec => []OrphanedByFault
<1>1. LimitInv => OrphanedByFault
  BY DEF LimitInv
<1>2. QED BY <1>1, LimitInvariant, PTL
=============================================================================
