---------------------------- MODULE ChargingSession ----------------------------
(***************************************************************************)
(* The life of the charging transactions of one charger: the goroutines    *)
(* that handle StartTransaction, MeterValues and StopTransaction, and the  *)
(* boot recovery.  Each step of a goroutine is one access to the           *)
(* transaction table or the outbox (PostgreSQL), or to the registry in     *)
(* memory.  A restart of the service loses the goroutines and the registry *)
(* and keeps the tables.                                                   *)
(*                                                                         *)
(* Code: internal/ocpp16hal/hal.go and recovery.go,                        *)
(* internal/state/registry.go and internal/store/postgres.go.              *)
(***************************************************************************)
EXTENDS Naturals

CONSTANTS Connectors, Tags, Tids, Handlers,
          Readings,     \* meter readings
          StartReadings,    \* those a transaction may start at
          NoTx,         \* no transaction
          NoValue       \* SQL NULL, or no outbox row

ASSUME SessionAssumption ==
  /\ NoTx \notin Tids
  /\ StartReadings \subseteq Readings
  /\ NoValue \notin Readings \union Connectors \union Tags

VARIABLES
  (* tables *)
  tx,           \* transactions: a row for each id
  queued,       \* ids with a start callback in the outbox
  billed,       \* meter_stop in the completed callback of an id
  (* memory *)
  registry,     \* status and transaction of each connector
  pc, req,      \* a handler's place and request
  (* boot recovery *)
  rpc,          \* where the recovery goroutine is; "none": not running
  todo,         \* snapshot of open transactions still to recover
  rtx,          \* the transaction under recovery
  rmeter,       \* its meter value, as read from its row
  (* what the charger was told, and bookkeeping of the specification *)
  accepted,     \* ids given to the charger
  confirmed,    \* ids whose StopTransaction was confirmed
  bootOpen,     \* ids open when the running recovery took its snapshot
  overlapped,   \* two StartTransactions of one connector were handled at once
  late,         \* ids whose closed row a meter value has overwritten
  raced         \* ids closed by somebody else under a force-close

tables == <<tx, queued, billed>>
handlers == <<pc, req>>
recovery == <<rpc, todo, rtx, rmeter, bootOpen>>
told == <<accepted, confirmed>>
ghosts == <<overlapped, late, raced>>
vars == <<tables, registry, handlers, recovery, told, ghosts>>

NoRow == [state |-> "none", conn |-> NoValue, tag |-> NoValue,
          start |-> NoValue, stop |-> NoValue]

NoRequest == [conn |-> NoValue, tag |-> NoValue, meter |-> NoValue, tx |-> NoTx]

Request == [conn : Connectors, tag : Tags \union {NoValue}, meter : Readings,
            tx : Tids \union {NoTx}]

Places == {"idle", "list", "create", "applyStart", "queueStart",
           "resolve", "applyMeter", "updateMeter",
           "stop", "queueStop", "applyStop"}

RecoveryPlaces == {"none", "snapshot", "sleep", "pick", "judge", "close",
                   "applyStop", "queueStop", "hydrate", "hydrateMeter",
                   "remoteStop", "unlock"}

Open(t) == tx[t].state = "open"
Closed(t) == tx[t].state = "closed"
Starting(h) == pc[h] \in {"list", "create", "applyStart", "queueStart"}
Created == {t \in Tids : tx[t] # NoRow}

(* Places at which a handler or the recovery works for a transaction.      *)
Working == {"applyStart", "queueStart", "updateMeter", "stop", "queueStop",
            "applyStop"}
RecoveryWorking == RecoveryPlaces \ {"none", "snapshot", "sleep", "pick"}

OpenTids == {t \in Tids : Open(t)}

Row == [state : {"open", "closed"}, conn : Connectors, tag : Tags,
        start : StartReadings, stop : Readings \union {NoValue}]

TableType ==
  /\ tx \in [Tids -> Row \union {NoRow}]
  /\ \A t \in Tids : Closed(t) => tx[t].stop # NoValue
  /\ billed \in [Tids -> Readings \union {NoValue}]
  /\ queued \subseteq Tids

RegistryType ==
  registry \in [Connectors -> [status : {"Available", "Busy"}, tx : Tids \union {NoTx}]]

HandlerType ==
  /\ pc \in [Handlers -> Places]
  /\ req \in [Handlers -> Request \union {NoRequest}]
  /\ \A h \in Handlers : pc[h] # "idle" => req[h] \in Request
  /\ \A h \in Handlers : Starting(h) => /\ req[h].tag \in Tags
                                        /\ req[h].meter \in StartReadings

RecoveryType ==
  /\ rpc \in RecoveryPlaces
  /\ todo \subseteq Tids
  /\ rtx \in Tids \union {NoTx}
  /\ rmeter \in Readings \union {NoValue}

ToldType ==
  /\ {accepted, confirmed, bootOpen, late, raced} \subseteq SUBSET Tids
  /\ overlapped \in BOOLEAN

(* A goroutine past the step that finds its transaction, and whoever was   *)
(* told of one, knows a transaction that has a row.                        *)
KnownRows ==
  /\ \A h \in Handlers : pc[h] \in Working => req[h].tx \in Created
  /\ \A h \in Handlers : pc[h] \in {"queueStop", "applyStop"} => Closed(req[h].tx)
  /\ rpc \in RecoveryWorking => rtx \in Created /\ rmeter # NoValue
  /\ rpc \in {"applyStop", "queueStop"} => Closed(rtx)
  /\ \A h \in Handlers : pc[h] = "applyMeter" => req[h].tx \in Created \union {NoTx}
  /\ \A c \in Connectors : registry[c].tx \in Created \union {NoTx}
  /\ todo \union accepted \subseteq Created

TypeOK == TableType /\ RegistryType /\ HandlerType /\ RecoveryType /\ ToldType
            /\ KnownRows

Init ==
  /\ tx = [t \in Tids |-> NoRow]
  /\ queued = {}
  /\ billed = [t \in Tids |-> NoValue]
  /\ registry = [c \in Connectors |-> [status |-> "Busy", tx |-> NoTx]]
  /\ pc = [h \in Handlers |-> "idle"]
  /\ req = [h \in Handlers |-> NoRequest]
  /\ rpc = "none" /\ todo = {} /\ rtx = NoTx /\ rmeter = NoValue
  /\ accepted = {} /\ confirmed = {} /\ bootOpen = {}
  /\ overlapped = FALSE /\ late = {} /\ raced = {}

-----------------------------------------------------------------------------
(* Registry operations: each is one critical section.                      *)

ApplyStart(c, t) ==
  registry' = [registry EXCEPT ![c] = [status |-> "Busy", tx |-> t]]

(* The transaction is set whether or not it is open.                       *)
ApplyMeter(c, t) ==
  registry' = IF t = NoTx THEN registry
                          ELSE [registry EXCEPT ![c].tx = t]

(* The connector is cleared, whichever transaction it shows.               *)
ApplyStop(c) ==
  registry' = [registry EXCEPT ![c] = [status |-> "Available", tx |-> NoTx]]

(* Outbox rows: a second row with the same dedupe key is ignored.          *)
EnqueueStart(t) == queued' = queued \union {t}

(* Mutant: a second enqueue replaces the payload.                          *)
EnqueueAgain(t, m) == billed' = [billed EXCEPT ![t] = m]

EnqueueCompleted(t, m) ==
  billed' = [billed EXCEPT ![t] = IF @ = NoValue THEN m ELSE @]

-----------------------------------------------------------------------------
(* Handlers in general.                                                    *)

Receive(h, place, r) ==
  /\ pc[h] = "idle"
  /\ pc' = [pc EXCEPT ![h] = place]
  /\ req' = [req EXCEPT ![h] = r]

Goto(h, place) == pc' = [pc EXCEPT ![h] = place]

(* The handler answers, or returns an error, and is gone.                  *)
Return(h) == /\ pc' = [pc EXCEPT ![h] = "idle"]
             /\ req' = [req EXCEPT ![h] = NoRequest]

(* A store call reports an error and the handler gives up; the calls that  *)
(* write may have been committed all the same.                             *)
GiveUp(h) ==
  /\ pc[h] \in {"list", "create", "queueStart", "updateMeter", "stop", "queueStop"}
  /\ Return(h)
  /\ UNCHANGED <<tables, registry, recovery, told, ghosts>>

-----------------------------------------------------------------------------
(* OnStartTransaction.                                                     *)

StartTransaction(h, c, g, m) ==
  /\ Receive(h, "list", [conn |-> c, tag |-> g, meter |-> m, tx |-> NoTx])
  /\ overlapped' = (overlapped \/ \E k \in Handlers : Starting(k) /\ req[k].conn = c)
  /\ UNCHANGED <<tables, registry, recovery, told, late, raced>>

(* Mutant: a start on an occupied connector is never recognised.           *)
ListOpenNothing(h) ==
  /\ pc[h] = "list"
  /\ Goto(h, "create")
  /\ UNCHANGED <<tables, registry, req, recovery, told, ghosts>>

(* ListOpenTransactionsByCharger: an open transaction of the connector is  *)
(* either this very start, retried, or blocks it.                          *)
ListOpen(h) ==
  /\ pc[h] = "list"
  /\ LET here == {t \in OpenTids : tx[t].conn = req[h].conn}
     IN \/ here = {} /\ Goto(h, "create") /\ UNCHANGED req
        \/ \E t \in here :
             IF tx[t].tag = req[h].tag /\ tx[t].start = req[h].meter
             THEN /\ req' = [req EXCEPT ![h].tx = t]
                  /\ Goto(h, "applyStart")
             ELSE Return(h)
  /\ UNCHANGED <<tables, registry, recovery, told, ghosts>>

(* CreateTransaction under a fresh id.  On an error the start is Blocked.  *)
Create(h) ==
  /\ pc[h] = "create"
  /\ \E t \in Tids :
       /\ tx[t] = NoRow
       /\ tx' = [tx EXCEPT ![t] = [state |-> "open", conn |-> req[h].conn,
                   tag |-> req[h].tag, start |-> req[h].meter, stop |-> NoValue]]
       /\ \/ req' = [req EXCEPT ![h].tx = t] /\ Goto(h, "applyStart")
          \/ Return(h)
  /\ UNCHANGED <<queued, billed, registry, recovery, told, ghosts>>

StartApply(h) ==
  /\ pc[h] = "applyStart"
  /\ ApplyStart(req[h].conn, req[h].tx)
  /\ Goto(h, "queueStart")
  /\ UNCHANGED <<tables, req, recovery, told, ghosts>>

(* EnqueueStartTransaction, then the answer Accepted with the id; the      *)
(* answer may not reach the charger.                                       *)
StartQueue(h) ==
  /\ pc[h] = "queueStart"
  /\ EnqueueStart(req[h].tx)
  /\ accepted' \in {accepted, accepted \union {req[h].tx}}
  /\ Return(h)
  /\ UNCHANGED <<tx, billed, registry, recovery, confirmed, ghosts>>

-----------------------------------------------------------------------------
(* OnMeterValues, with the transaction id of the request or without one.   *)

MeterValues(h, t, c, m) ==
  /\ t # NoTx => t \in accepted /\ tx[t].conn = c
  /\ Receive(h, IF t = NoTx THEN "resolve" ELSE "applyMeter",
             [conn |-> c, tag |-> NoValue, meter |-> m, tx |-> t])
  /\ UNCHANGED <<tables, registry, recovery, told, ghosts>>

(* TransactionIDForConnector.                                              *)
Resolve(h) ==
  /\ pc[h] = "resolve"
  /\ req' = [req EXCEPT ![h].tx = registry[req[h].conn].tx]
  /\ Goto(h, "applyMeter")
  /\ UNCHANGED <<tables, registry, recovery, told, ghosts>>

(* Mutant: UpdateLiveMeter is called even when no transaction is known.    *)
MeterApplyAlways(h) ==
  /\ pc[h] = "applyMeter"
  /\ ApplyMeter(req[h].conn, req[h].tx)
  /\ Goto(h, "updateMeter")
  /\ UNCHANGED <<tables, req, recovery, told, ghosts>>

MeterApply(h) ==
  /\ pc[h] = "applyMeter"
  /\ ApplyMeter(req[h].conn, req[h].tx)
  /\ IF req[h].tx = NoTx THEN Return(h)
     ELSE Goto(h, "updateMeter") /\ UNCHANGED req
  /\ UNCHANGED <<tables, recovery, told, ghosts>>

(* UpdateLiveMeter: the UPDATE has no condition on stop_time.              *)
UpdateLiveMeter(h) ==
  /\ pc[h] = "updateMeter"
  /\ LET t == req[h].tx
     IN /\ tx' = [tx EXCEPT ![t].stop = req[h].meter]
        /\ late' = IF Closed(t) THEN late \union {t} ELSE late
  /\ Return(h)
  /\ UNCHANGED <<queued, billed, registry, recovery, told, overlapped, raced>>

-----------------------------------------------------------------------------
(* OnStopTransaction.                                                      *)

StopTransaction(h, t, m) ==
  /\ t \in accepted
  /\ Receive(h, "stop", [conn |-> tx[t].conn, tag |-> NoValue, meter |-> m,
                         tx |-> t])
  /\ UNCHANGED <<tables, registry, recovery, told, ghosts>>

(* Mutant: the payload carries the reading of the request.                 *)
StopRowKeepingRequest(h) ==
  /\ pc[h] = "stop"
  /\ LET t == req[h].tx
     IN tx' = IF Open(t)
              THEN [tx EXCEPT ![t].state = "closed", ![t].stop = req[h].meter]
              ELSE tx
  /\ Goto(h, "queueStop")
  /\ UNCHANGED <<queued, billed, registry, req, recovery, told, ghosts>>

(* The UPDATE closes an open row; a closed one is returned as it is.  The  *)
(* value of the row returned is what the callback will carry.              *)
StopRow(h) ==
  /\ pc[h] = "stop"
  /\ LET t == req[h].tx
     IN IF Open(t)
        THEN /\ tx' = [tx EXCEPT ![t].state = "closed", ![t].stop = req[h].meter]
             /\ UNCHANGED req
        ELSE /\ req' = [req EXCEPT ![h].meter = tx[t].stop]
             /\ UNCHANGED tx
  /\ Goto(h, "queueStop")
  /\ UNCHANGED <<queued, billed, registry, recovery, told, ghosts>>

(* Mutant: an enqueue error is logged and the stop confirmed.              *)
StopQueueOrNot(h) ==
  /\ pc[h] = "queueStop"
  /\ EnqueueCompleted(req[h].tx, req[h].meter) \/ UNCHANGED billed
  /\ Goto(h, "applyStop")
  /\ UNCHANGED <<tx, queued, registry, req, recovery, told, ghosts>>

(* EnqueueCompletedTransaction: an error reported after the row has been   *)
(* written ends the handler like any other.                                *)
StopQueue(h) ==
  /\ pc[h] = "queueStop"
  /\ EnqueueCompleted(req[h].tx, req[h].meter)
  /\ \/ Goto(h, "applyStop") /\ UNCHANGED req
     \/ Return(h)
  /\ UNCHANGED <<tx, queued, registry, recovery, told, ghosts>>

(* ApplyStopTransaction, then the confirmation.                            *)
StopApply(h) ==
  /\ pc[h] = "applyStop"
  /\ ApplyStop(req[h].conn)
  /\ confirmed' = confirmed \union {req[h].tx}
  /\ Return(h)
  /\ UNCHANGED <<tables, recovery, accepted, ghosts>>

-----------------------------------------------------------------------------
(* OnStatusNotification: the status is taken over, the transaction stays.  *)
StatusNotification(c, status) ==
  /\ registry' = [registry EXCEPT ![c].status = status]
  /\ UNCHANGED <<tables, handlers, recovery, told, ghosts>>

-----------------------------------------------------------------------------
(* Boot recovery.                                                          *)

(* BootNotification: scheduleBootRecovery, unless it is running already.   *)
Boot ==
  /\ rpc = "none"
  /\ rpc' = "snapshot"
  /\ UNCHANGED <<tables, registry, handlers, todo, rtx, rmeter, bootOpen, told,
                 ghosts>>

(* ListOpenTransactionsByCharger: without open transactions, or when the   *)
(* list fails, the running flag is dropped.                                *)
Snapshot ==
  /\ rpc = "snapshot"
  /\ \/ OpenTids # {} /\ rpc' = "sleep" /\ todo' = OpenTids /\ bootOpen' = OpenTids
     \/ rpc' = "none" /\ UNCHANGED <<todo, bootOpen>>
  /\ UNCHANGED <<tables, registry, handlers, rtx, rmeter, told, ghosts>>

(* Mutant: the transactions are listed after the delay.                    *)
WakeAndList ==
  /\ rpc = "sleep"
  /\ rpc' = "pick"
  /\ todo' = OpenTids
  /\ UNCHANGED <<tables, registry, handlers, rtx, rmeter, bootOpen, told, ghosts>>

(* The goroutine wakes up after bootRecoveryDelay.                         *)
Wake ==
  /\ rpc = "sleep"
  /\ rpc' = "pick"
  /\ UNCHANGED <<tables, registry, handlers, todo, rtx, rmeter, bootOpen, told,
                 ghosts>>

(* The goroutine ends and the running flag is dropped.                     *)
Finish == /\ rpc' = "none" /\ todo' = {} /\ rtx' = NoTx /\ rmeter' = NoValue
          /\ bootOpen' = {}

(* On to the next transaction of the snapshot.                             *)
Continue == /\ rpc' = "pick" /\ rtx' = NoTx /\ rmeter' = NoValue
            /\ UNCHANGED <<todo, bootOpen>>

(* Recovery goes on with the same transaction.                             *)
Proceed(place) == rpc' = place /\ UNCHANGED <<todo, rtx, rmeter, bootOpen>>

(* A transaction of the snapshot is refreshed; it is passed over when it   *)
(* is closed or cannot be read.                                            *)
Pick ==
  /\ rpc = "pick"
  /\ \/ \E t \in todo :
          /\ todo' = todo \ {t}
          /\ \/ /\ Open(t)
                /\ rtx' = t
                /\ rmeter' = IF tx[t].stop = NoValue THEN tx[t].start ELSE tx[t].stop
                /\ rpc' = "judge"
             \/ UNCHANGED <<rpc, rtx, rmeter>>
          /\ UNCHANGED bootOpen
     \/ todo = {} /\ Finish
  /\ UNCHANGED <<tables, registry, handlers, told, ghosts>>

(* isGhostAvailableTransaction.                                            *)
Judge ==
  /\ rpc = "judge"
  /\ LET conn == registry[tx[rtx].conn]
     IN Proceed(IF conn.status = "Available" /\ conn.tx \in {NoTx, rtx}
                THEN "close" ELSE "hydrate")
  /\ UNCHANGED <<tables, registry, handlers, told, ghosts>>

(* ForceCloseTransaction: the UPDATE is conditional on an open row, but    *)
(* the row returned shows recovery's own values in any case.  On an error, *)
(* reported before or after the commit, the transaction is passed over.    *)
ForceClose ==
  /\ rpc = "close"
  /\ \/ /\ IF Open(rtx)
           THEN /\ tx' = [tx EXCEPT ![rtx].state = "closed", ![rtx].stop = rmeter]
                /\ UNCHANGED raced
           ELSE raced' = raced \union {rtx} /\ UNCHANGED tx
        /\ Proceed("applyStop") \/ Continue
     \/ Continue /\ UNCHANGED <<tx, raced>>
  /\ UNCHANGED <<queued, billed, registry, handlers, told, overlapped, late>>

RecoveryApplyStop ==
  /\ rpc = "applyStop"
  /\ ApplyStop(tx[rtx].conn)
  /\ Proceed("queueStop")
  /\ UNCHANGED <<tables, handlers, told, ghosts>>

RecoveryQueueStop ==
  /\ rpc = "queueStop"
  /\ EnqueueCompleted(rtx, rmeter) \/ UNCHANGED billed
  /\ Continue
  /\ UNCHANGED <<tx, queued, registry, handlers, told, ghosts>>

(* hydrateOpenTransaction: two registry operations, the second one only    *)
(* when the row has a reading, which shows the same transaction again.     *)
Hydrate ==
  /\ rpc = "hydrate"
  /\ ApplyStart(tx[rtx].conn, rtx)
  /\ Proceed("hydrateMeter") \/ Proceed("remoteStop")
  /\ UNCHANGED <<tables, handlers, told, ghosts>>

HydrateMeter ==
  /\ rpc = "hydrateMeter"
  /\ ApplyMeter(tx[rtx].conn, rtx)
  /\ Proceed("remoteStop")
  /\ UNCHANGED <<tables, handlers, told, ghosts>>

(* RemoteStopTransaction is answered, accepted or not; a call that fails   *)
(* is retried, which changes nothing.                                      *)
RemoteStop ==
  /\ rpc = "remoteStop"
  /\ Proceed("unlock")
  /\ UNCHANGED <<tables, registry, handlers, told, ghosts>>

(* UnlockConnector is answered, or fails and the loop starts again.        *)
Unlock ==
  /\ rpc = "unlock"
  /\ Continue \/ Proceed("remoteStop")
  /\ UNCHANGED <<tables, registry, handlers, told, ghosts>>

(* Mutant: the retry loop does not look at the deadline.                   *)
NoDeadline == rpc = "remoteStop" /\ UNCHANGED vars

(* The loop finds that bootRecoveryMaxRuntime is over.                     *)
Deadline ==
  /\ rpc = "remoteStop"
  /\ Continue
  /\ UNCHANGED <<tables, registry, handlers, told, ghosts>>

-----------------------------------------------------------------------------
Restart ==
  /\ registry' = [c \in Connectors |-> [status |-> "Busy", tx |-> NoTx]]
  /\ pc' = [h \in Handlers |-> "idle"]
  /\ req' = [h \in Handlers |-> NoRequest]
  /\ Finish
  /\ UNCHANGED <<tables, told, ghosts>>

HandlerStep(h) ==
  \/ ListOpen(h) \/ Create(h) \/ StartApply(h) \/ StartQueue(h)
  \/ Resolve(h) \/ MeterApply(h) \/ UpdateLiveMeter(h)
  \/ StopRow(h) \/ StopQueue(h) \/ StopApply(h)
  \/ GiveUp(h)

ChargerStep(h) ==
  \/ \E c \in Connectors, g \in Tags, m \in StartReadings : StartTransaction(h, c, g, m)
  \/ \E t \in Tids \union {NoTx}, c \in Connectors, m \in Readings :
       MeterValues(h, t, c, m)
  \/ \E t \in Tids, m \in Readings : StopTransaction(h, t, m)

RecoveryStep ==
  \/ Snapshot \/ Wake \/ Pick \/ Judge
  \/ ForceClose \/ RecoveryApplyStop \/ RecoveryQueueStop
  \/ Hydrate \/ HydrateMeter \/ RemoteStop \/ Unlock

Next == \/ \E h \in Handlers : ChargerStep(h) \/ HandlerStep(h)
        \/ \E c \in Connectors, s \in {"Available", "Busy"} :
             StatusNotification(c, s)
        \/ Boot \/ RecoveryStep \/ Deadline
        \/ Restart

Spec == Init /\ [][Next]_vars

(* The recovery goroutine runs, each call of it has a timeout, and once    *)
(* the deadline has passed every round of the retry loop finds it so.      *)
FairSpec == Spec /\ WF_vars(RecoveryStep) /\ SF_vars(Deadline)

-----------------------------------------------------------------------------
AcceptedIsDurable ==
  \A t \in accepted : tx[t] # NoRow /\ t \in queued

ConfirmedIsDurable ==
  \A t \in confirmed : Closed(t) /\ billed[t] # NoValue

(* What the charger was told outlives a restart: an id it was given has a  *)
(* row and a start callback in the outbox (OnStartTransaction answers      *)
(* after CreateTransaction and EnqueueStartTransaction), and the row of a  *)
(* confirmed stop is closed and its callback in the outbox too             *)
(* (OnStopTransaction).                                                    *)
ToldIsDurable == AcceptedIsDurable /\ ConfirmedIsDurable

(* A connector has at most one open transaction, unless two starts of it   *)
(* were handled at the same time: OnStartTransaction checks and creates in *)
(* separate store calls.                                                   *)
OneOpenPerConnector ==
  ~overlapped => \A t, u \in OpenTids : tx[t].conn = tx[u].conn => t = u

(* The CMS is told what the table says: the final reading of the callback  *)
(* is that of the closed row, but for two windows: a meter value stored    *)
(* after the stop, and a force-close that finds the row closed meanwhile.  *)
BilledAsStored ==
  \A t \in Tids : billed[t] # NoValue /\ t \notin late \union raced
                    => Closed(t) /\ billed[t] = tx[t].stop

(* Without those windows: DEVELOPMENT_PLAN.md 14, "Durable PostgreSQL      *)
(* state and callback outbox state remain authoritative".                  *)
TableAndOutboxAgree ==
  \A t \in Tids : billed[t] # NoValue => billed[t] = tx[t].stop

(* All together: the handlers, the recovery and the restarts keep the      *)
(* ledger.  What was queued for the CMS is never changed or withdrawn, a   *)
(* closed transaction is never opened again and its identity never changes *)
(* (the dedupe key; the condition stop_time IS NULL), and nothing is told  *)
(* to the charger before it is in the tables.                              *)
Ledger == INSTANCE SessionLedger WITH
  Sessions <- Tids, NoSession <- NoRow, session <- tx, announced <- queued,
  granted <- accepted, bill <- billed, disputed <- late \union raced

KeepsLedger == Ledger!Spec

(* Only charger-originated StopTransaction closes a session, and the boot  *)
(* recovery closes those of before the boot: a session that starts while   *)
(* recovery sleeps or retries is none of its business (the snapshot of     *)
(* scheduleBootRecovery; DEVELOPMENT_PLAN.md 13).                          *)
RecoverySparesNewSessions ==
  [][\A t \in Tids : Open(t) /\ Closed(t)' =>
       \/ t \in bootOpen
       \/ \E h \in Handlers : pc[h] = "stop" /\ req[h].tx = t]_vars

(* Recovery ends, whatever the charger answers: a later boot of the        *)
(* charger is recovered again (bootRecoveryRunning, bootRecoveryMaxRuntime)*)
RecoveryEnds == rpc # "none" ~> rpc = "none"

-----------------------------------------------------------------------------
(* Why these hold: what a handler or the recovery knows of the row it has  *)
(* read is still true when it writes the callback or tells the charger.    *)
StopsKnown ==
  /\ \A h \in Handlers : pc[h] = "applyStop" => billed[req[h].tx] # NoValue
  /\ \A h \in Handlers : pc[h] = "queueStop" /\ req[h].tx \notin late \union raced
                           => req[h].meter = tx[req[h].tx].stop
  /\ rpc \in {"applyStop", "queueStop"} /\ rtx \notin late \union raced
       => rmeter = tx[rtx].stop

StartsAlone ==
  ~overlapped =>
    /\ \A h \in Handlers : pc[h] = "create" =>
         \A t \in OpenTids : tx[t].conn # req[h].conn
    /\ \A h, k \in Handlers : Starting(h) /\ Starting(k) /\ h # k =>
         req[h].conn # req[k].conn

RecoversBootOnly ==
  /\ todo \subseteq bootOpen
  /\ rpc \in RecoveryWorking => rtx \in bootOpen

SessionInv ==
  /\ TypeOK
  /\ AcceptedIsDurable /\ ConfirmedIsDurable /\ BilledAsStored /\ StopsKnown
  /\ OneOpenPerConnector /\ StartsAlone
  /\ RecoversBootOnly
=============================================================================
