------------------------- MODULE SessionReconciliation -------------------------
(***************************************************************************)
(* ChargingSession together with the part of the callback worker that      *)
(* writes to the same outbox: every few seconds it lists the transactions  *)
(* whose callback is missing and enqueues each from the row as it was when *)
(* it was listed, while handlers and recovery are about to do the same.    *)
(* What becomes of an enqueued callback is in CallbackOutbox.              *)
(*                                                                         *)
(* Code: internal/hooks/manager.go (reconcileMissingCallbacks) and         *)
(* internal/store/callback_reconcile_postgres.go.                          *)
(***************************************************************************)
EXTENDS ChargingSession

VARIABLE listed   \* callbacks the worker has found missing, with their rows' readings

varsTogether == <<vars, listed>>

MissingCallback ==
  [kind : {"start", "completed"}, tx : Tids, meter : Readings \union {NoValue}]

InitTogether == Init /\ listed = {}

(* ListTransactionsMissingStartCallbacks and ...MissingCompletedCallbacks. *)
(* A row left out by their LIMIT fares like one whose enqueue fails.       *)
ListMissing ==
  /\ listed = {}
  /\ \/ listed' = {[kind |-> "start", tx |-> t, meter |-> NoValue] :
                     t \in Created \ queued}
     \/ listed' = {[kind |-> "completed", tx |-> t, meter |-> tx[t].stop] :
                     t \in {u \in Tids : Closed(u) /\ billed[u] = NoValue}}
  /\ UNCHANGED vars

(* EnqueueStartTransaction or EnqueueCompletedTransaction; an error is     *)
(* logged and the next transaction follows.                                *)
EnqueueMissing ==
  \E k \in listed :
    /\ listed' = listed \ {k}
    /\ \/ k.kind = "start" /\ EnqueueStart(k.tx) /\ UNCHANGED billed
       \/ k.kind = "completed" /\ EnqueueCompleted(k.tx, k.meter) /\ UNCHANGED queued
       \/ UNCHANGED <<queued, billed>>
    /\ UNCHANGED <<tx, registry, handlers, recovery, told, ghosts>>

(* A step of the rest; a restart takes the worker and its list with it.    *)
Otherwise ==
  \/ /\ \/ \E h \in Handlers : ChargerStep(h) \/ HandlerStep(h)
        \/ \E c \in Connectors, s \in {"Available", "Busy"} :
             StatusNotification(c, s)
        \/ Boot \/ RecoveryStep \/ Deadline
     /\ UNCHANGED listed
  \/ Restart /\ listed' = {}

NextTogether == ListMissing \/ EnqueueMissing \/ Otherwise

SpecTogether == InitTogether /\ [][NextTogether]_varsTogether

-----------------------------------------------------------------------------
(* What the worker has listed is true when it comes to enqueue it, however *)
(* long ago it was read: a row with a completed callback due is closed,    *)
(* and the reading listed is the row's but for the two windows that also   *)
(* BilledAsStored names (reconcileMissingCallbacks works through a copy).  *)
ListedRows ==
  /\ listed \subseteq MissingCallback
  /\ \A k \in listed :
       /\ k.tx \in Created
       /\ k.kind = "completed" => /\ Closed(k.tx) /\ k.meter # NoValue
                                  /\ k.tx \notin late \union raced
                                       => k.meter = tx[k.tx].stop
=============================================================================
