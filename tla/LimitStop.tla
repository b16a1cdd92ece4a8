------------------------------- MODULE LimitStop -------------------------------
(***************************************************************************)
(* Enforcement of max_kwh for one charging transaction.  The handlers of   *)
(* MeterValues store the consumption and then try to claim the limit stop; *)
(* the callback worker stores max_kwh from the answer to the start         *)
(* callback and then tries as well.  Whoever sets limit_stop_requested     *)
(* owns a goroutine that asks the charger to stop until the transaction is *)
(* closed or its attempts are used up.                                     *)
(*                                                                         *)
(* Code: internal/ocpp16hal/limit_stop.go, OnMeterValues and               *)
(* OnStopTransaction of hal.go, internal/store/limit_stop_*.go and         *)
(* UpdateLiveMeter, and the start callback of internal/hooks/manager.go.   *)
(***************************************************************************)
EXTENDS Naturals

CONSTANTS Handlers,     \* goroutines that handle MeterValues
          Stoppers,     \* goroutines of requestLimitStopUntilClosed
          Limits,       \* limits the CMS may answer to the start callback
          MaxMeter,     \* bound: consumption at which the charger's meter stays
          MaxAttempts,  \* limitStopMaxAttempts
          MaxFaults,    \* bound on store errors, lost replies and restarts
          NoValue       \* SQL NULL

ASSUME LimitAssumption ==
  /\ Limits \subseteq Nat
  /\ MaxMeter \in Nat
  /\ MaxAttempts \in Nat \ {0}
  /\ MaxFaults \in Nat
  /\ NoValue \notin Nat

VARIABLES
  (* the row of the transaction *)
  open,         \* stop_time IS NULL
  total,        \* total_consumption
  maxKWh,       \* max_kwh
  requested,    \* limit_stop_requested
  sent,         \* the start callback is marked sent in the outbox
  (* the charger *)
  meter,        \* consumption the meter shows
  stopping,     \* the charger has received a RemoteStop and will stop
  (* goroutines of the service *)
  hpc, reading, \* a MeterValues handler and the value it carries
  wpc, answer,  \* the callback worker and the limit the CMS answered
  spc, attempt, \* a stopper and its attempt
  wired,        \* SetLimitStopper has been called
  (* bookkeeping of the specification *)
  awaiting,     \* the next check is left to a later meter value
  faults        \* faults so far

row == <<open, total, maxKWh, requested, sent>>
charger == <<meter, stopping>>
service == <<hpc, reading, wpc, answer, spc, attempt>>
vars == <<row, charger, service, wired, awaiting, faults>>

(* The condition of the UPDATE in CheckAndMarkLimitStop, the claim aside.  *)
Crossed == /\ open
           /\ maxKWh # NoValue
           /\ total # NoValue
           /\ total >= maxKWh

Claimable == Crossed /\ ~requested

Active(s) == spc[s] # "none"

FlagType == {open, requested, sent, stopping, wired, awaiting} \subseteq BOOLEAN

ValueType == /\ total \in (0..MaxMeter) \union {NoValue}
             /\ maxKWh \in Limits \union {NoValue}
             /\ meter \in 0..MaxMeter
             /\ faults \in 0..MaxFaults

HandlerType == /\ hpc \in [Handlers -> {"idle", "update", "check"}]
               /\ reading \in [Handlers -> 0..MaxMeter]

WorkerType == /\ wpc \in {"idle", "update", "check", "mark"}
              /\ answer \in Limits \union {NoValue}
              /\ wpc = "update" => answer \in Limits

StopperType ==
  /\ spc \in [Stoppers -> {"none", "verify", "call", "wait", "release"}]
  /\ attempt \in [Stoppers -> 0..MaxAttempts]

(* Everything is well typed: a limit is stored only when it was answered,  *)
(* and no stopper makes more than limitStopMaxAttempts attempts.           *)
TypeOK == FlagType /\ ValueType /\ HandlerType /\ WorkerType /\ StopperType

Init ==
  /\ open = TRUE
  /\ total = NoValue
  /\ maxKWh = NoValue
  /\ requested = FALSE
  /\ sent = FALSE
  /\ meter = 0
  /\ stopping = FALSE
  /\ hpc = [h \in Handlers |-> "idle"]
  /\ reading = [h \in Handlers |-> 0]
  /\ wpc = "idle"
  /\ answer = NoValue
  /\ spc = [s \in Stoppers |-> "none"]
  /\ attempt = [s \in Stoppers |-> 0]
  /\ wired = FALSE
  /\ awaiting = FALSE
  /\ faults = 0

Fault == faults < MaxFaults /\ faults' = faults + 1

-----------------------------------------------------------------------------
(* The charger.                                                            *)

Consume ==
  /\ open
  /\ meter < MaxMeter
  /\ meter' = meter + 1
  /\ UNCHANGED <<wired, row, stopping, service, awaiting, faults>>

(* A MeterValues request arrives and gets a goroutine of its own, so that  *)
(* an older value may be stored after a newer one.                         *)
MeterValues(h) ==
  /\ open /\ wired
  /\ hpc[h] = "idle"
  /\ hpc' = [hpc EXCEPT ![h] = "update"]
  /\ reading' = [reading EXCEPT ![h] = meter]
  /\ UNCHANGED <<wired, row, charger, wpc, answer, spc, attempt, awaiting, faults>>

(* StopTransaction, of the user's will or after a RemoteStop: the row is   *)
(* closed with the final value; a repeated one changes nothing.  The OCPP  *)
(* server listens once the service is wired.                               *)
StopTransaction ==
  /\ open /\ wired
  /\ open' = FALSE
  /\ total' = meter
  /\ stopping' = FALSE
  /\ UNCHANGED <<wired, maxKWh, requested, sent, meter, service, awaiting, faults>>

-----------------------------------------------------------------------------
(* CheckAndRequestLimitStop: one conditional UPDATE decides, and the       *)
(* caller whose UPDATE hit the row starts the stopper.                     *)

(* Mutant: the flag is not part of the condition.                          *)
CheckIgnoringClaim ==
  IF Crossed
  THEN /\ requested' = TRUE
       /\ \E s \in Stoppers :
            /\ ~Active(s)
            /\ spc' = [spc EXCEPT ![s] = "verify"]
            /\ attempt' = [attempt EXCEPT ![s] = 1]
  ELSE UNCHANGED <<requested, spc, attempt>>

(* Mutant: the limit itself does not count as reached.                     *)
CheckStrictly ==
  IF Claimable /\ total > maxKWh
  THEN /\ requested' = TRUE
       /\ \E s \in Stoppers :
            /\ ~Active(s)
            /\ spc' = [spc EXCEPT ![s] = "verify"]
            /\ attempt' = [attempt EXCEPT ![s] = 1]
  ELSE UNCHANGED <<requested, spc, attempt>>

CheckAndRequestLimitStop ==
  IF Claimable
  THEN /\ requested' = TRUE
       /\ \E s \in Stoppers :
            /\ ~Active(s)
            /\ spc' = [spc EXCEPT ![s] = "verify"]
            /\ attempt' = [attempt EXCEPT ![s] = 1]
  ELSE UNCHANGED <<requested, spc, attempt>>

(* The UPDATE fails, or commits and its reply is lost: the caller logs a   *)
(* warning and returns.                                                    *)
CheckFails ==
  /\ Fault
  /\ requested' \in {requested, requested \/ Claimable}
  /\ awaiting' = TRUE
  /\ UNCHANGED <<spc, attempt>>

-----------------------------------------------------------------------------
(* OnMeterValues after its bookkeeping: UpdateLiveMeter, which looks at    *)
(* neither stop_time nor the value it overwrites, then the check.          *)

UpdateLiveMeter(h) ==
  /\ hpc[h] = "update"
  /\ total' = reading[h]
  /\ hpc' = [hpc EXCEPT ![h] = "check"]
  /\ UNCHANGED <<wired, open, maxKWh, requested, sent, charger, reading, wpc, answer,
                 spc, attempt, awaiting, faults>>

UpdateLiveMeterFails(h) ==
  /\ hpc[h] = "update"
  /\ Fault
  /\ total' \in {total, reading[h]}
  /\ awaiting' = TRUE
  /\ hpc' = [hpc EXCEPT ![h] = "idle"]
  /\ UNCHANGED <<wired, open, maxKWh, requested, sent, charger, reading, wpc, answer,
                 spc, attempt>>

HandlerCheck(h) ==
  /\ hpc[h] = "check"
  /\ hpc' = [hpc EXCEPT ![h] = "idle"]
  /\ \/ CheckAndRequestLimitStop /\ awaiting' = FALSE /\ UNCHANGED faults
     \/ CheckFails
  /\ UNCHANGED <<wired, open, total, maxKWh, sent, charger, reading, wpc, answer>>

-----------------------------------------------------------------------------
(* The callback worker delivers the start callback: postTask, then         *)
(* MarkCallbackSent.                                                       *)

(* The POST is answered with a limit.  A failed POST changes nothing here. *)
PostStart(m) ==
  /\ ~sent
  /\ wpc = "idle"
  /\ wpc' = "update"
  /\ answer' = m
  /\ UNCHANGED <<wired, row, charger, hpc, reading, spc, attempt, awaiting, faults>>

(* Mutant: the worker relies on the next meter value to check.             *)
UpdateMaxKWhUnchecked ==
  /\ wpc = "update"
  /\ maxKWh' = answer
  /\ wpc' = "mark"
  /\ UNCHANGED <<wired, open, total, requested, sent, charger, hpc, reading, answer,
                 spc, attempt, awaiting, faults>>

(* UpdateTransactionMaxKWh.                                                *)
UpdateMaxKWh ==
  /\ wpc = "update"
  /\ maxKWh' = answer
  /\ wpc' = "check"
  /\ UNCHANGED <<wired, open, total, requested, sent, charger, hpc, reading, answer,
                 spc, attempt, awaiting, faults>>

(* The UPDATE reports an error: the task is put back for a retry.          *)
UpdateMaxKWhFails ==
  /\ wpc = "update"
  /\ Fault
  /\ maxKWh' \in {maxKWh, answer}
  /\ awaiting' = TRUE
  /\ wpc' = "idle"
  /\ UNCHANGED <<wired, open, total, requested, sent, charger, hpc, reading, answer,
                 spc, attempt>>

(* The worker is started before it is given the limit stopper and reads    *)
(* the field without a lock: as long as it reads nil it checks nothing.    *)
(* (A torn read that panics is a Restart.)                                 *)
WorkerCheck ==
  /\ wpc = "check"
  /\ wpc' = "mark"
  /\ \/ wired /\ CheckAndRequestLimitStop /\ awaiting' = FALSE /\ UNCHANGED faults
     \/ wired /\ CheckFails
     \/ ~wired /\ awaiting' = TRUE /\ UNCHANGED <<requested, spc, attempt, faults>>
  /\ UNCHANGED <<wired, open, total, maxKWh, sent, charger, hpc, reading, answer>>

(* MarkCallbackSent; when it fails, the task is posted again later.        *)
MarkSent ==
  /\ wpc = "mark"
  /\ wpc' = "idle"
  /\ \/ sent' = TRUE /\ UNCHANGED faults
     \/ Fault /\ UNCHANGED sent
  /\ UNCHANGED <<wired, open, total, maxKWh, requested, charger, hpc, reading, answer,
                 spc, attempt, awaiting>>

-----------------------------------------------------------------------------
(* requestLimitStopUntilClosed.                                            *)

(* transactionClosed before the call: the stopper is done when the row is  *)
(* closed; an open row or an error lead to the RemoteStop.                 *)
Verify(s) ==
  /\ spc[s] = "verify"
  /\ \/ ~open /\ spc' = [spc EXCEPT ![s] = "none"] /\ UNCHANGED faults
     \/ open /\ spc' = [spc EXCEPT ![s] = "call"] /\ UNCHANGED faults
     \/ ~open /\ Fault /\ spc' = [spc EXCEPT ![s] = "call"]
  /\ UNCHANGED <<wired, row, charger, hpc, reading, wpc, answer, attempt, awaiting>>

(* RemoteStopTransaction is accepted; the charger will stop.               *)
CallAccepted(s) ==
  /\ spc[s] = "call"
  /\ stopping' = open
  /\ spc' = [spc EXCEPT ![s] = "wait"]
  /\ UNCHANGED <<wired, row, meter, hpc, reading, wpc, answer, attempt, awaiting,
                 faults>>

(* Mutant: the loop ends without a release.                                *)
RetryWithoutRelease(s) ==
  IF attempt[s] < MaxAttempts
  THEN /\ spc' = [spc EXCEPT ![s] = "verify"]
       /\ attempt' = [attempt EXCEPT ![s] = @ + 1]
  ELSE spc' = [spc EXCEPT ![s] = "none"] /\ UNCHANGED attempt

(* Mutant: one attempt too many.                                           *)
RetryOnceMore(s) ==
  IF attempt[s] <= MaxAttempts
  THEN /\ spc' = [spc EXCEPT ![s] = "verify"]
       /\ attempt' = [attempt EXCEPT ![s] = @ + 1]
  ELSE spc' = [spc EXCEPT ![s] = "release"] /\ UNCHANGED attempt

(* After an attempt without success: sleep and try again, or give up.      *)
Retry(s) ==
  IF attempt[s] < MaxAttempts
  THEN /\ spc' = [spc EXCEPT ![s] = "verify"]
       /\ attempt' = [attempt EXCEPT ![s] = @ + 1]
  ELSE spc' = [spc EXCEPT ![s] = "release"] /\ UNCHANGED attempt

(* The call is rejected, or it fails; the answer to a call that timed out  *)
(* may be lost while the charger does stop.                                *)
CallNotAccepted(s) ==
  /\ spc[s] = "call"
  /\ stopping' \in {stopping, open}
  /\ Retry(s)
  /\ UNCHANGED <<wired, row, meter, hpc, reading, wpc, answer, awaiting, faults>>

(* waitForTransactionClosed sees the row closed.                           *)
SeeClosed(s) ==
  /\ spc[s] = "wait"
  /\ ~open
  /\ spc' = [spc EXCEPT ![s] = "none"]
  /\ UNCHANGED <<wired, row, charger, hpc, reading, wpc, answer, attempt, awaiting,
                 faults>>

(* It does not see it within 30 seconds.                                   *)
WaitTimeout(s) ==
  /\ spc[s] = "wait"
  /\ Retry(s)
  /\ UNCHANGED <<wired, row, charger, hpc, reading, wpc, answer, awaiting, faults>>

(* ReleaseLimitStopRequest, on an open row only; when it fails, the claim  *)
(* stays, unless the UPDATE was committed.                                 *)
Release(s) ==
  /\ spc[s] = "release"
  /\ spc' = [spc EXCEPT ![s] = "none"]
  /\ \/ requested' = (requested /\ ~open) /\ UNCHANGED faults
     \/ Fault /\ UNCHANGED requested
  /\ awaiting' = TRUE
  /\ UNCHANGED <<wired, open, total, maxKWh, sent, charger, hpc, reading, wpc, answer,
                 attempt>>

-----------------------------------------------------------------------------
(* The service stops and starts again: its goroutines are gone, the row    *)
(* and the outbox are not.                                                 *)
Restart ==
  /\ Fault
  /\ hpc' = [h \in Handlers |-> "idle"]
  /\ reading' = [h \in Handlers |-> 0]
  /\ wpc' = "idle"
  /\ answer' = NoValue
  /\ spc' = [s \in Stoppers |-> "none"]
  /\ attempt' = [s \in Stoppers |-> 0]
  /\ wired' = FALSE
  /\ awaiting' = TRUE
  /\ UNCHANGED <<row, charger>>

(* main hands the limit stopper to the worker that is running already.     *)
SetLimitStopper ==
  /\ ~wired
  /\ wired' = TRUE
  /\ UNCHANGED <<row, charger, service, awaiting, faults>>

HandlerStep(h) ==
  MeterValues(h) \/ UpdateLiveMeter(h) \/ UpdateLiveMeterFails(h) \/ HandlerCheck(h)

WorkerStep ==
  \/ \E m \in Limits : PostStart(m)
  \/ UpdateMaxKWh \/ UpdateMaxKWhFails \/ WorkerCheck \/ MarkSent

StopperStep(s) ==
  Verify(s) \/ CallAccepted(s) \/ CallNotAccepted(s) \/ SeeClosed(s)
    \/ WaitTimeout(s) \/ Release(s)

Next == \/ Consume \/ StopTransaction \/ Restart \/ SetLimitStopper
        \/ WorkerStep
        \/ \E h \in Handlers : HandlerStep(h)
        \/ \E s \in Stoppers : StopperStep(s)

Spec == Init /\ [][Next]_vars

(* Goroutines go on; the charger sends meter values while it charges, does *)
(* not refuse a RemoteStop for ever, and stops after it has accepted one.  *)
Fairness ==
  /\ WF_vars(SetLimitStopper)
  /\ \A h \in Handlers : WF_vars(HandlerStep(h))
  /\ \A s \in Stoppers : WF_vars(StopperStep(s))
  /\ SF_vars(\E s \in Stoppers : CallAccepted(s))
  /\ WF_vars(stopping /\ StopTransaction)

FairSpec == Spec /\ Fairness

-----------------------------------------------------------------------------
(* At most one goroutine pursues the limit stop of a transaction, although *)
(* every MeterValues handler and the callback worker may claim it and a    *)
(* claim may be released and taken again; and as long as the transaction   *)
(* is open it holds the claim: nobody else releases it                     *)
(* (CheckAndMarkLimitStop, ReleaseLimitStopRequest).                       *)
OneStopper ==
  \A s \in Stoppers : Active(s) =>
    /\ \A r \in Stoppers : Active(r) => s = r
    /\ open => requested

(* No crossing is missed: when the stored consumption has reached the      *)
(* stored limit and the stop is not claimed, somebody is about to check,   *)
(* or it is left to the next meter value because a stopper gave up or a    *)
(* fault ended the caller, or the service has just been started.           *)
(* Consumption and limit are written by different goroutines, each of which*)
(* checks after its own write.                                             *)
CheckPending == (\E h \in Handlers : hpc[h] = "check") \/ wpc = "check"

NoMissedCrossing == Claimable => CheckPending \/ awaiting

(* The claim survives its stopper only because of a fault.                 *)
Orphaned == open /\ requested /\ \A s \in Stoppers : ~Active(s)

OrphanedByFault == Orphaned => faults > 0

(* The inductive invariant behind these.                                   *)
ReleaseIsLast == \A s \in Stoppers : spc[s] = "release" => attempt[s] = MaxAttempts

LimitInv == /\ TypeOK
            /\ OneStopper
            /\ NoMissedCrossing
            /\ OrphanedByFault
            /\ ReleaseIsLast

(* What the feature promises: a transaction whose meter has reached the    *)
(* stored limit is closed in the end, unless the CMS raises the limit.     *)
LimitReached == open /\ maxKWh # NoValue /\ meter >= maxKWh

LimitEnforced == LimitReached ~> ~LimitReached

(* It is, as long as no claim is orphaned.                                 *)
LimitEnforcedUnlessOrphaned == [](~Orphaned) => LimitEnforced
=============================================================================
