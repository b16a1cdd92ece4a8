----------------------------- MODULE VirtualCharger -----------------------------
(***************************************************************************)
(* The software charger of cmd/cpconsole and what the central system knows *)
(* of it.  The console carries out one command after the other; each OCPP  *)
(* request of the central system may leave a goroutine behind.  opsMu is   *)
(* held for the whole of a start, a stop or a reading, their calls to the  *)
(* central system included; the rest takes the data lock for a moment.     *)
(*                                                                         *)
(* The central system handles a call whole and answers; a call and an      *)
(* answer may be lost.  Its boot recovery goes step by step beside the     *)
(* calls.  The handlers are in detail in ChargingSession.                  *)
(*                                                                         *)
(* Code: cmd/cpconsole/main.go; of the central system,                     *)
(* internal/ocpp16hal/hal.go and recovery.go, internal/state/registry.go.  *)
(***************************************************************************)
EXTENDS Naturals

CONSTANTS Procs,        \* goroutines that may run at a time
          Console,      \* the one that reads commands
          MaxTx,        \* bound on the transactions, numbered in order
          MeterStart,   \* the register of a charger just started (-meter-start-wh)
          MaxMeter,     \* bound on the energy register
          MaxFaults,    \* bound on lost calls and answers and on relaunches
          Rollover,     \* the largest reading of a register that counts in 32 bits
          NoProc

(* Occupied: Preparing, Charging, Finishing and the like; Blocked:          *)
(* Unavailable and Faulted.                                                *)
Statuses == {"Available", "Occupied", "Blocked"}

ASSUME ChargerAssumption ==
  /\ Console \in Procs /\ NoProc \notin Procs
  /\ MaxMeter \in Nat /\ MeterStart \in 0..MaxMeter
  /\ MaxTx \in Nat /\ MaxFaults \in Nat /\ Rollover \in Nat

Tids == 1..MaxTx
NoTx == 0

VARIABLES
  sim,        \* the data of the simulator
  opsMu,      \* who holds the operations lock
  task,       \* what each goroutine is doing
  rows,       \* the transaction table of the central system
  registry,   \* status and transaction it shows for the connector
  recovery,   \* its boot recovery: the step, the transaction, the reading read
  orphans,    \* transactions the charger never learnt of or has forgotten
  lost,       \* transactions closed without the charger being told
  muddled,    \* the status the central system has crossed another or was not sent
  overtaken,  \* recovery has shown in the registry what the table no longer said
  faults

ghosts == <<orphans, lost, muddled, overtaken, faults>>
central == <<rows, registry, recovery>>
vars == <<sim, opsMu, task, central, ghosts>>

(* The register in half Wh; an odd half stands for more than half a Wh.    *)
(* StartTransaction and StopTransaction send it truncated, MeterValues     *)
(* rounded.                                                                *)
Truncated(m) == m \div 2
Rounded(m) == (m + 1) \div 2
Readings == 0..Rounded(MaxMeter)

Places == {"idle", "boot", "remoteStart", "remoteStop", "schedule", "availability",
           "start", "startCall", "started", "stop", "stopCall", "stopped", "target",
           "meter", "meterCall", "notify", "noted"}
InOperation == {"startCall", "started", "stopCall", "stopped", "target", "meterCall"}

Open == (1..rows.opened) \ rows.stopped

(* A reading below the one before is taken for a turn of the register.     *)
DeltaWh(previous, current) ==
  IF current >= previous THEN current - previous
                         ELSE current + (Rollover - previous) + 1

(* total_consumption, which every write of a reading computes anew.        *)
Total(t) == DeltaWh(rows.startedAt[t], rows.last[t])

TaskType == [at : Places, back : {"idle", "remote", "startCall", "boot", "ready"},
             goal : Statuses, tx : 0..MaxTx, reading : Readings]

SimType ==
  sim \in [status : Statuses, transaction : 0..rows.opened, meter : 0..MaxMeter,
           remoteStart : BOOLEAN, remoteStop : 0..rows.opened,
           unavailableAfterStop : BOOLEAN]

RowType == [opened : 0..MaxTx, startedAt : [Tids -> Readings],
            last : [Tids -> Readings], stopped : SUBSET Tids]

RowsType ==
  /\ rows \in RowType
  /\ rows.stopped \subseteq 1..rows.opened

GhostType ==
  /\ orphans \subseteq 1..rows.opened /\ lost \subseteq rows.stopped
  /\ muddled \in BOOLEAN /\ overtaken \in BOOLEAN /\ faults \in 0..MaxFaults

RecoveryType ==
  /\ recovery \in
       [at : {"none", "judge", "close", "applyStop", "hydrate", "hydrateMeter"},
        tx : 0..rows.opened, reading : Readings]
  /\ recovery.at # "none" => recovery.tx # NoTx

TypeOK ==
  /\ SimType /\ RowsType /\ GhostType /\ RecoveryType
  /\ opsMu \in Procs \union {NoProc}
  /\ task \in [Procs -> TaskType]
  /\ registry \in [status : Statuses \union {"Unknown"}, tx : 0..rows.opened]

Idle == [at |-> "idle", back |-> "idle", goal |-> "Available", tx |-> NoTx, reading |-> 0]

NoRecovery == [at |-> "none", tx |-> NoTx, reading |-> 0]

(* newSimulator; main is about to boot.                                    *)
NewSim == [status |-> "Blocked", transaction |-> NoTx, meter |-> MeterStart,
           remoteStart |-> FALSE, remoteStop |-> NoTx, unavailableAfterStop |-> FALSE]
NewTask == [p \in Procs |->
              IF p = Console THEN [Idle EXCEPT !.at = "boot", !.back = "ready"] ELSE Idle]

Init ==
  /\ sim = NewSim /\ opsMu = NoProc /\ task = NewTask
  /\ rows = [opened |-> 0, startedAt |-> [t \in Tids |-> 0],
             last |-> [t \in Tids |-> 0], stopped |-> {}]
  /\ registry = [status |-> "Unknown", tx |-> NoTx] /\ recovery = NoRecovery
  /\ orphans = {} /\ lost = {} /\ muddled = FALSE /\ overtaken = FALSE /\ faults = 0

-----------------------------------------------------------------------------
(* Goroutines in general.                                                  *)

At(p, place) == task[p].at = place
Goto(p, place) == task' = [task EXCEPT ![p].at = place]
Lock(p) == opsMu = NoProc /\ opsMu' = p
Unlock(p) == opsMu' = IF opsMu = p THEN NoProc ELSE opsMu

(* The goroutine returns, with an error or without, and the deferred       *)
(* unlock runs.                                                            *)
End(p) == task' = [task EXCEPT ![p] = Idle] /\ Unlock(p)

Fault == faults < MaxFaults /\ faults' = faults + 1

(* setStatus, and where to go on when it is done.                          *)
Setting(s, back) == [Idle EXCEPT !.at = "notify", !.goal = s, !.back = back]
SetStatus(p, s, back) == task' = [task EXCEPT ![p] = Setting(s, back)]

-----------------------------------------------------------------------------
(* setStatus: the call first; it or its answer may be lost.  A first       *)
(* Available that is not sent ends the process, which is Relaunch.         *)
Notify(p) ==
  /\ At(p, "notify")
  /\ registry' = [registry EXCEPT !.status = task[p].goal]
  /\ \/ /\ Goto(p, "noted")
        /\ muddled' = \E q \in Procs \ {p} : At(q, "noted")
        /\ UNCHANGED <<opsMu, faults>>
     \/ task[p].back # "ready" /\ Fault /\ End(p) /\ muddled' = TRUE
  /\ UNCHANGED <<sim, rows, recovery, orphans, lost, overtaken>>

NotifyFails(p) ==
  /\ At(p, "notify") /\ task[p].back # "ready"
  /\ Fault /\ End(p) /\ muddled' = TRUE
  /\ UNCHANGED <<sim, central, orphans, lost, overtaken>>

(* Mutant: the status is sent and not stored.                              *)
NotedNot(p) ==
  /\ At(p, "noted")
  /\ IF task[p].back \in {"startCall", "boot"}
     THEN /\ task' = [task EXCEPT ![p].at = task[p].back, ![p].back = "idle"]
          /\ IF task[p].back = "boot" THEN Unlock(p) ELSE UNCHANGED opsMu
     ELSE End(p)
  /\ UNCHANGED <<sim, central, ghosts>>

(* Mutant: status and error code are swapped.                              *)
NotedSwapped(p) ==
  /\ At(p, "noted")
  /\ sim' = [sim EXCEPT !.status = "NoError"]
  /\ IF task[p].back \in {"startCall", "boot"}
     THEN /\ task' = [task EXCEPT ![p].at = task[p].back, ![p].back = "idle"]
          /\ IF task[p].back = "boot" THEN Unlock(p) ELSE UNCHANGED opsMu
     ELSE End(p)
  /\ UNCHANGED <<central, ghosts>>

(* The status is stored after the answer, under the data lock.             *)
Noted(p) ==
  /\ At(p, "noted")
  /\ sim' = [sim EXCEPT !.status = task[p].goal]
  /\ IF task[p].back \in {"startCall", "boot"}
     THEN /\ task' = [task EXCEPT ![p].at = task[p].back, ![p].back = "idle"]
          /\ IF task[p].back = "boot" THEN Unlock(p) ELSE UNCHANGED opsMu
     ELSE End(p)
  /\ UNCHANGED <<central, ghosts>>

-----------------------------------------------------------------------------
(* startTransaction.  A connector that is faulted or unavailable, or has a *)
(* transaction, starts nothing.                                            *)
Startable == sim.transaction = NoTx /\ sim.status # "Blocked"

(* Mutant: the checks are made without the operations lock.                *)
StartUnlocked(p) ==
  /\ At(p, "start")
  /\ \/ /\ Startable /\ opsMu' = p
        /\ task' = [task EXCEPT ![p].at = "startCall", ![p].back = "idle",
                                ![p].reading = Truncated(sim.meter)]
     \/ End(p)
  /\ UNCHANGED <<sim, central, ghosts>>

(* Mutant: the reading is rounded, as MeterValues rounds it.               *)
StartRounded(p) ==
  /\ At(p, "start") /\ opsMu = NoProc
  /\ \/ /\ Startable /\ Lock(p)
        /\ LET new == [task[p] EXCEPT !.reading = Rounded(sim.meter)]
           IN task' = [task EXCEPT ![p] =
                IF sim.status = "Available"
                THEN [Setting("Occupied", "startCall") EXCEPT !.reading = new.reading]
                ELSE [new EXCEPT !.at = "startCall", !.back = "idle"]]
     \/ (~Startable \/ task[p].back # "remote") /\ End(p)
  /\ UNCHANGED <<sim, central, ghosts>>

(* The lock, the checks, Authorize unless the start is remote, which may   *)
(* be refused, and Preparing if the connector is Available.                *)
Start(p) ==
  /\ At(p, "start") /\ opsMu = NoProc
  /\ \/ /\ Startable /\ Lock(p)
        /\ LET new == [task[p] EXCEPT !.reading = Truncated(sim.meter)]
           IN task' = [task EXCEPT ![p] =
                IF sim.status = "Available"
                THEN [Setting("Occupied", "startCall") EXCEPT !.reading = new.reading]
                ELSE [new EXCEPT !.at = "startCall", !.back = "idle"]]
     \/ (~Startable \/ task[p].back # "remote") /\ End(p)
  /\ UNCHANGED <<sim, central, ghosts>>

(* OnStartTransaction: a start at the reading of the open one is taken for *)
(* its retry, unless its tag is another.                                   *)
Created(p, t) ==
  /\ Open = {} /\ t = rows.opened + 1
  /\ rows' = [rows EXCEPT !.opened = t, !.startedAt[t] = task[p].reading,
                          !.last[t] = task[p].reading]

Retried(p, t) ==
  /\ t \in Open /\ rows.startedAt[t] = task[p].reading
  /\ UNCHANGED rows

(* The answer is the id, or it is lost, or the start callback could not be *)
(* queued.                                                                 *)
StartCall(p, t) ==
  /\ At(p, "startCall")
  /\ Created(p, t) \/ Retried(p, t)
  /\ registry' = [status |-> "Occupied", tx |-> t] /\ overtaken' = FALSE
  /\ \/ /\ task' = [task EXCEPT ![p].at = "started", ![p].tx = t]
        /\ UNCHANGED <<opsMu, orphans, muddled, faults>>
     \/ Fault /\ End(p) /\ orphans' = orphans \union {t} /\ muddled' = TRUE
  /\ UNCHANGED <<sim, recovery, lost>>

(* Blocked, another transaction being open or the row not created, or an   *)
(* error before the row.                                                   *)
StartRefused(p) ==
  /\ At(p, "startCall") /\ End(p)
  /\ UNCHANGED <<sim, central, ghosts>>

(* Mutant: the pending remote start is kept.                               *)
StartedKeepingRemote(p) ==
  /\ At(p, "started")
  /\ sim' = [sim EXCEPT !.transaction = task[p].tx]
  /\ task' = [task EXCEPT ![p] = Setting("Occupied", "idle")]
  /\ UNCHANGED <<opsMu, central, ghosts>>

Started(p) ==
  /\ At(p, "started")
  /\ sim' = [sim EXCEPT !.transaction = task[p].tx, !.remoteStart = FALSE]
  /\ task' = [task EXCEPT ![p] = Setting("Occupied", "idle")]
  /\ UNCHANGED <<opsMu, central, ghosts>>

-----------------------------------------------------------------------------
(* stopTransaction: the lock, and what is to be stopped.                   *)
Stop(p) ==
  /\ At(p, "stop") /\ opsMu = NoProc
  /\ IF sim.transaction = NoTx THEN End(p)
     ELSE /\ Lock(p)
          /\ task' = [task EXCEPT ![p].at = "stopCall", ![p].tx = sim.transaction,
                                  ![p].reading = Truncated(sim.meter)]
  /\ UNCHANGED <<sim, central, ghosts>>

(* OnStopTransaction: an open row is closed with the reading, a closed one *)
(* is left.  The callback is queued, which may fail, and the registry      *)
(* clears the connector; then the answer, which may be lost.               *)
StopCall(p) ==
  /\ At(p, "stopCall")
  /\ LET t == task[p].tx
         Clear == registry' = [status |-> "Available", tx |-> NoTx] /\ overtaken' = FALSE
     IN /\ rows' = IF t \in rows.stopped THEN rows
                   ELSE [rows EXCEPT !.stopped = @ \union {t}, !.last[t] = task[p].reading]
        /\ \/ /\ task' = [task EXCEPT ![p].at = "stopped", ![p].reading = 0]
              /\ Clear /\ UNCHANGED <<opsMu, lost, muddled, faults>>
           \/ /\ Fault /\ End(p)
              /\ Clear \/ UNCHANGED <<registry, overtaken>>
              /\ lost' = lost \union {t} /\ muddled' = TRUE
  /\ UNCHANGED <<sim, recovery, orphans>>

StopFails(p) ==
  /\ At(p, "stopCall") /\ End(p)
  /\ UNCHANGED <<sim, central, ghosts>>

Stopped(p) ==
  /\ At(p, "stopped")
  /\ sim' = [sim EXCEPT !.transaction = NoTx, !.remoteStop = NoTx]
  /\ task' = [task EXCEPT ![p].at = "target", ![p].tx = NoTx]
  /\ UNCHANGED <<opsMu, central, ghosts>>

(* The flag is read in a critical section of its own.                      *)
Target(p) ==
  /\ At(p, "target")
  /\ SetStatus(p, IF sim.unavailableAfterStop THEN "Blocked" ELSE "Occupied",
               task[p].back)
  /\ UNCHANGED <<sim, opsMu, central, ghosts>>

-----------------------------------------------------------------------------
(* sendMeter, by a command, on request or at a tick of automatic metering: *)
(* the register grows by the energy of the period, which may be none.      *)
Meter(p) ==
  /\ At(p, "meter") /\ opsMu = NoProc
  /\ IF sim.transaction = NoTx THEN End(p) /\ UNCHANGED sim
     ELSE \E m \in sim.meter..MaxMeter :
            /\ Lock(p)
            /\ sim' = [sim EXCEPT !.meter = m]
            /\ task' = [task EXCEPT ![p].at = "meterCall", ![p].tx = sim.transaction,
                                    ![p].reading = Rounded(m)]
  /\ UNCHANGED <<central, ghosts>>

(* OnMeterValues shows the transaction in the registry and stores the      *)
(* reading whether or not the row is open; an error of the store is only   *)
(* logged.                                                                 *)
MeterCall(p) ==
  /\ At(p, "meterCall") /\ End(p)
  /\ rows' \in {rows, [rows EXCEPT !.last[task[p].tx] = task[p].reading]}
  /\ registry' = [registry EXCEPT !.tx = task[p].tx] /\ overtaken' = FALSE
  /\ UNCHANGED <<sim, recovery, orphans, lost, muddled, faults>>

MeterFails(p) ==
  /\ At(p, "meterCall") /\ End(p)
  /\ UNCHANGED <<sim, central, ghosts>>

-----------------------------------------------------------------------------
(* The handlers of the central system's requests.  Their policies are set  *)
(* at the console: any request may be refused, and an accepted one be left *)
(* to the console.                                                         *)

(* OnRemoteStartTransaction: a later request takes the place of one that   *)
(* is pending.                                                             *)
OnRemoteStart(p) ==
  /\ At(p, "idle") /\ Startable
  /\ sim' = [sim EXCEPT !.remoteStart = TRUE]
  /\ Goto(p, "remoteStart") \/ UNCHANGED task
  /\ UNCHANGED <<opsMu, central, ghosts>>

(* executePendingRemoteStart, up to the lock; the request may be for       *)
(* another connector.                                                      *)
ExecuteRemoteStart(p) ==
  /\ At(p, "remoteStart")
  /\ \/ /\ sim.remoteStart
        /\ task' = [task EXCEPT ![p].at = "start", ![p].back = "remote"]
        /\ UNCHANGED opsMu
     \/ End(p)
  /\ UNCHANGED <<sim, central, ghosts>>

(* OnRemoteStopTransaction, of an id that the central system has given.    *)
OnRemoteStop(p) ==
  /\ At(p, "idle") /\ sim.transaction # NoTx
  /\ sim' = [sim EXCEPT !.remoteStop = sim.transaction]
  /\ Goto(p, "remoteStop") \/ UNCHANGED task
  /\ UNCHANGED <<opsMu, central, ghosts>>

(* executePendingRemoteStop, up to the lock.                               *)
ExecuteRemoteStop(p) ==
  /\ At(p, "remoteStop")
  /\ IF sim.remoteStop = NoTx THEN End(p) ELSE Goto(p, "stop") /\ UNCHANGED opsMu
  /\ UNCHANGED <<sim, central, ghosts>>

(* OnChangeAvailability looks for a transaction ...                        *)
OnChangeAvailability(p, target) ==
  /\ At(p, "idle")
  /\ task' = [task EXCEPT ![p].goal = target, ![p].at =
       IF target = "Blocked" /\ sim.transaction # NoTx THEN "schedule" ELSE "availability"]
  /\ UNCHANGED <<sim, opsMu, central, ghosts>>

(* ... and schedules the change for the next stop, or makes it in a        *)
(* goroutine.                                                              *)
Schedule(p) ==
  /\ At(p, "schedule") /\ End(p)
  /\ sim' = [sim EXCEPT !.unavailableAfterStop = TRUE]
  /\ UNCHANGED <<central, ghosts>>

ChangeAvailability(p) ==
  /\ At(p, "availability")
  /\ sim' = [sim EXCEPT !.unavailableAfterStop = (task[p].goal = "Blocked")]
  /\ SetStatus(p, task[p].goal, "idle")
  /\ UNCHANGED <<opsMu, central, ghosts>>

(* OnReset: the goroutine stops the transaction, boots and is Available.   *)
OnReset(p) ==
  /\ At(p, "idle")
  /\ IF sim.transaction = NoTx THEN Goto(p, "boot")
     ELSE task' = [task EXCEPT ![p].at = "stop", ![p].back = "boot"]
  /\ UNCHANGED <<sim, opsMu, central, ghosts>>

(* boot and the status that follows it; the call may fail.                 *)
Boot(p) ==
  /\ At(p, "boot")
  /\ SetStatus(p, "Available", IF task[p].back = "ready" THEN "ready" ELSE "idle")
  /\ UNCHANGED <<sim, opsMu, central, ghosts>>

BootFails(p) ==
  /\ At(p, "boot") /\ task[p].back # "ready" /\ End(p)
  /\ UNCHANGED <<sim, central, ghosts>>

(* OnTriggerMessage: the goroutine sets the status it has read, or takes a *)
(* reading; a boot has no effect but the recovery below.                   *)
TriggerMessage(p) ==
  /\ At(p, "idle")
  /\ SetStatus(p, sim.status, "idle") \/ Goto(p, "meter")
  /\ UNCHANGED <<sim, opsMu, central, ghosts>>

-----------------------------------------------------------------------------
(* execute: an operation, which the console waits for.                     *)
Command(place) ==
  /\ At(Console, "idle") /\ Goto(Console, place)
  /\ UNCHANGED <<sim, opsMu, central, ghosts>>

(* The command status sets any status at any time; fault, clear-fault,     *)
(* suspend, resume, plug, unplug and finish some.                          *)
StatusCommand(s) ==
  /\ At(Console, "idle") /\ SetStatus(Console, s, "idle")
  /\ UNCHANGED <<sim, opsMu, central, ghosts>>

(* The process ends, in any state, and is started again.                   *)
Relaunch ==
  /\ Fault
  /\ sim' = NewSim /\ opsMu' = NoProc /\ task' = NewTask
  /\ orphans' = orphans \union Open /\ muddled' = TRUE
  /\ UNCHANGED <<central, lost, overtaken>>

-----------------------------------------------------------------------------
(* The boot recovery of the central system: one goroutine at a time        *)
(* (bootRecoveryRunning), some time after a boot.  It holds no lock from   *)
(* one step to the next.                                                   *)

(* A transaction is read anew and is open.                                 *)
RecoveryPicks(t) ==
  /\ recovery = NoRecovery /\ t \in Open
  /\ recovery' = [at |-> "judge", tx |-> t, reading |-> rows.last[t]]
  /\ UNCHANGED <<sim, opsMu, task, rows, registry, ghosts>>

(* isGhostAvailableTransaction.                                            *)
Ghost(t) == registry.status = "Available" /\ registry.tx \in {NoTx, t}

Judge ==
  /\ recovery.at = "judge"
  /\ recovery' = [recovery EXCEPT !.at = IF Ghost(recovery.tx) THEN "close" ELSE "hydrate"]
  /\ UNCHANGED <<sim, opsMu, task, rows, registry, ghosts>>

(* Mutant: the UPDATE is not conditional on stop_time IS NULL.             *)
ForceCloseAgain ==
  /\ recovery.at = "close"
  /\ LET t == recovery.tx
     IN \/ /\ rows' = [rows EXCEPT !.stopped = @ \union {t}, !.last[t] = recovery.reading]
           /\ lost' = IF t \in Open THEN lost \union {t} ELSE lost
           /\ recovery' \in {[recovery EXCEPT !.at = "applyStop"], NoRecovery}
        \/ recovery' = NoRecovery /\ UNCHANGED <<rows, lost>>
  /\ UNCHANGED <<sim, opsMu, task, registry, orphans, muddled, overtaken, faults>>

(* ForceCloseTransaction: an open row is closed with the reading that was  *)
(* read, a closed one is left.  An error, before or after the commit, ends *)
(* the recovery of the transaction.                                        *)
ForceClose ==
  /\ recovery.at = "close"
  /\ LET t == recovery.tx
     IN \/ /\ IF t \in Open
              THEN /\ rows' = [rows EXCEPT !.stopped = @ \union {t},
                                           !.last[t] = recovery.reading]
                   /\ lost' = lost \union {t}
              ELSE UNCHANGED <<rows, lost>>
           /\ recovery' \in {[recovery EXCEPT !.at = "applyStop"], NoRecovery}
        \/ recovery' = NoRecovery /\ UNCHANGED <<rows, lost>>
  /\ UNCHANGED <<sim, opsMu, task, registry, orphans, muddled, overtaken, faults>>

(* The connector is cleared, whatever it shows by then.                    *)
RecoveryApplyStop ==
  /\ recovery.at = "applyStop" /\ recovery' = NoRecovery
  /\ registry' = [status |-> "Available", tx |-> NoTx]
  /\ overtaken' = (Open # {}) /\ muddled' = (muddled \/ registry.status # "Available")
  /\ UNCHANGED <<sim, opsMu, task, rows, orphans, lost, faults>>

(* hydrateOpenTransaction shows the transaction, and once more if its row  *)
(* had a reading.  The RemoteStopTransaction that follows is one of the    *)
(* charger's requests.                                                     *)
Hydrate ==
  /\ recovery.at = "hydrate"
  /\ LET t == recovery.tx
     IN /\ registry' = [status |-> "Occupied", tx |-> t] /\ overtaken' = (t \notin Open)
        /\ \/ recovery' = [recovery EXCEPT !.at = "hydrateMeter"]
           \/ recovery.reading = rows.startedAt[t] /\ recovery' = NoRecovery
  /\ muddled' = (muddled \/ registry.status # "Occupied")
  /\ UNCHANGED <<sim, opsMu, task, rows, orphans, lost, faults>>

HydrateMeter ==
  /\ recovery.at = "hydrateMeter" /\ recovery' = NoRecovery
  /\ registry' = [registry EXCEPT !.tx = recovery.tx]
  /\ overtaken' = (recovery.tx \notin Open)
  /\ UNCHANGED <<sim, opsMu, task, rows, orphans, lost, muddled, faults>>

-----------------------------------------------------------------------------
Queued(p) == Start(p) \/ Stop(p) \/ Meter(p)

Step(p) ==
  \/ Notify(p) \/ NotifyFails(p) \/ Noted(p)
  \/ (\E t \in Tids : StartCall(p, t)) \/ StartRefused(p) \/ Started(p)
  \/ StopCall(p) \/ StopFails(p) \/ Stopped(p) \/ Target(p)
  \/ MeterCall(p) \/ MeterFails(p)
  \/ ExecuteRemoteStart(p) \/ ExecuteRemoteStop(p)
  \/ Schedule(p) \/ ChangeAvailability(p) \/ Boot(p) \/ BootFails(p)

Request(p) ==
  \/ OnRemoteStart(p) \/ OnRemoteStop(p) \/ OnReset(p) \/ TriggerMessage(p)
  \/ \E s \in {"Available", "Blocked"} : OnChangeAvailability(p, s)

Recovery ==
  \/ \E t \in Tids : RecoveryPicks(t)
  \/ Judge \/ ForceClose \/ RecoveryApplyStop \/ Hydrate \/ HydrateMeter

Next ==
  \/ \E p \in Procs : Queued(p) \/ Step(p) \/ Request(p)
  \/ \E place \in {"start", "stop", "remoteStart", "remoteStop", "meter"} : Command(place)
  \/ \E s \in Statuses : StatusCommand(s)
  \/ Relaunch
  \/ Recovery

Spec == Init /\ [][Next]_vars

-----------------------------------------------------------------------------
(* An operation holds opsMu from its checks to its last call, and no       *)
(* goroutine returns with it: those queued behind would wait for ever (the *)
(* deferred unlocks of startTransaction, sendMeter, stopTransaction).      *)
LockIsGivenBack ==
  /\ \A p \in Procs : task[p].at \in InOperation => opsMu = p
  /\ \A p \in Procs : At(p, "idle") => opsMu # p

(* The charger and the central system agree on what is being charged: the  *)
(* transaction of the charger is open there unless the central system      *)
(* closed it and could not say so, and an open one is the charger's unless *)
(* its id was lost on the way or with the process (opsMu around a whole    *)
(* operation; startTransaction, stopTransaction).                          *)
SessionsAgree ==
  /\ sim.transaction \in rows.stopped \ lost =>
       \E p \in Procs : At(p, "stopped") /\ task[p].tx = sim.transaction
  /\ \A t \in Open \ orphans :
       t = sim.transaction \/ \E p \in Procs : At(p, "started") /\ task[p].tx = t

(* A pending remote command is for what the connector is doing now: no     *)
(* remote start is kept over a session, no remote stop for the next one    *)
(* (remoteStart = nil with the new transaction, remoteStop = nil with its  *)
(* end).                                                                   *)
PendingIsCurrent ==
  /\ sim.remoteStart => sim.transaction = NoTx
  /\ sim.remoteStop # NoTx => sim.remoteStop = sim.transaction

(* The register of a transaction runs backwards for the central system,    *)
(* which takes that for a rollover (DeltaWh), only when the stop sends     *)
(* truncated what a reading sent rounded, and then by one Wh, and when     *)
(* recovery closes the session with the reading it had read before others  *)
(* came; and no reading follows the stop.  Excepted are a session taken up *)
(* again by a process whose register starts anew, and one whose end the    *)
(* charger was not told (sendMeter and stopTransaction under opsMu; the    *)
(* condition of the UPDATEs of StopTransaction and ForceCloseTransaction). *)
ReadingsAscend ==
  [][\A t \in Tids : rows'.last[t] # rows.last[t] =>
       /\ \/ rows'.last[t] > rows.last[t] \/ t \in orphans
          \/ t \in rows'.stopped \ rows.stopped /\ rows'.last[t] = rows.last[t] - 1
          \/ t \in lost' \ lost /\ t = recovery.tx /\ rows'.last[t] = recovery.reading
       /\ t \in rows.stopped => t \in lost]_vars

(* When no call is under way the registry shows the connector as the       *)
(* charger sees it, unless a status was not sent or crossed another: the   *)
(* status is sent before it is stored, and a start and a stop, which the   *)
(* central system turns into a status of its own, are followed by one      *)
(* (setStatus, startTransaction, stopTransaction).  What recovery shows    *)
(* too late, of a session that has ended or of none while one has begun,   *)
(* the next start, reading or stop puts right.                             *)
RegistryFollows ==
  (\A p \in Procs : At(p, "idle")) =>
    /\ muddled \/ registry.status \in {sim.status, "Unknown"}
    /\ \/ overtaken \/ registry.tx = sim.transaction
       \/ registry.tx \in orphans \union lost \/ sim.transaction \in lost

(* A session is never billed for a turn of the register that did not       *)
(* happen: its consumption and the reading it started at make the last     *)
(* reading, however the readings were rounded, lost or repeated, unless    *)
(* another process of the charger took the session up with a register of   *)
(* its own (DeltaWh; StopTransaction and UpdateLiveMeter of the store).    *)
BilledForward ==
  \A t \in (1..rows.opened) \ orphans : rows.startedAt[t] + Total(t) = rows.last[t]

-----------------------------------------------------------------------------
(* Why these hold: opsMu is held, and the transaction of the charger left  *)
(* alone, from the checks of an operation to its last step.                *)
Starting(p) == \/ task[p].at \in {"startCall", "started"}
               \/ task[p].at \in {"notify", "noted"} /\ task[p].back = "startCall"

LockIsHeld ==
  \A p \in Procs : /\ task[p].at \in InOperation \/ Starting(p) => opsMu = p
                   /\ At(p, "idle") => opsMu # p

OperationsAreAlone ==
  \A p \in Procs :
    /\ Starting(p) \/ At(p, "target") => sim.transaction = NoTx
    /\ At(p, "started") => task[p].tx \in (1..rows.opened) \ (rows.stopped \ lost)
    /\ task[p].at \in {"stopCall", "stopped", "meterCall"} =>
         sim.transaction # NoTx /\ task[p].tx = sim.transaction
    /\ At(p, "stopped") => task[p].tx \in rows.stopped

AgreementInv ==
  TypeOK /\ LockIsHeld /\ OperationsAreAlone /\ PendingIsCurrent /\ SessionsAgree

(* The central system has one session open at a time.  While an operation  *)
(* is under way the register stands still (only a status set on the way to *)
(* StartTransaction returns there), and the running session has had no     *)
(* reading above it.                                                       *)
OneIsOpen == \A t, u \in Open : t = u

Running(t) == t = sim.transaction \/ \E p \in Procs : At(p, "started") /\ task[p].tx = t

RegisterStands ==
  \A p \in Procs :
    /\ (Starting(p) /\ ~At(p, "started")) \/ At(p, "stopCall") =>
         task[p].reading = Truncated(sim.meter)
    /\ At(p, "meterCall") => task[p].reading = Rounded(sim.meter)
    /\ task[p].back = "startCall" => task[p].at \in {"notify", "noted"}

MetersInOrder ==
  /\ \A t \in Tids : t > rows.opened => rows.last[t] = 0
  /\ \A t \in (1..rows.opened) \ orphans :
       /\ rows.startedAt[t] <= rows.last[t]
       /\ Running(t) => /\ rows.startedAt[t] <= Truncated(sim.meter)
                        /\ rows.last[t] <= Rounded(sim.meter)

(* So is the reading that recovery holds, though others may have come.     *)
RecoveredInOrder ==
  LET t == recovery.tx
  IN recovery.at # "none" /\ t \notin orphans =>
       /\ rows.startedAt[t] <= recovery.reading
       /\ Running(t) => recovery.reading <= Rounded(sim.meter)

(* The registry never shows a session that both sides have ended, and      *)
(* shows none only when the charger has none or is about to know, but for  *)
(* what recovery has shown too late.                                       *)
ShownIsKnown ==
  overtaken \/
    /\ registry.tx \in {NoTx} \union Open \union orphans \union lost
    /\ registry.tx = NoTx =>
         /\ sim.transaction \in {NoTx} \union lost \/ \E p \in Procs : At(p, "stopped")
         /\ \A p \in Procs : At(p, "started") => task[p].tx \in lost

(* A status is still to be sent, or the one sent last is about to be       *)
(* stored, or it is the charger's.                                         *)
StatusIsUnderWay ==
  muddled \/
    /\ \A p, q \in Procs : At(p, "noted") /\ At(q, "noted") => p = q
    /\ \/ \E p \in Procs : task[p].at \in {"started", "stopped", "target", "notify"}
       \/ \E p \in Procs : At(p, "noted") /\ registry.status = task[p].goal
       \/ /\ \A p \in Procs : ~At(p, "noted")
          /\ registry.status \in {sim.status, "Unknown"}

ChargerInv ==
  /\ AgreementInv
  /\ OneIsOpen /\ RegisterStands /\ MetersInOrder /\ RecoveredInOrder
  /\ ShownIsKnown /\ StatusIsUnderWay
=============================================================================
