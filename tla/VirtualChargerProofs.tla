------------------------- MODULE VirtualChargerProofs -------------------------
(***************************************************************************)
(* Proofs about VirtualCharger, for any number of goroutines, transactions *)
(* and faults: opsMu is held through an operation, so what an operation    *)
(* has read is still true at its last step, and with it the charger and    *)
(* the central system agree on the running session.                        *)
(***************************************************************************)
EXTENDS VirtualCharger, TLAPS

USE ChargerAssumption

(* Truncated or rounded, the register is a reading.                        *)
LEMMA ReadingsTyped ==
  /\ Readings \subseteq Nat /\ 0 \in Readings
  /\ \A m \in 0..MaxMeter : Truncated(m) \in Readings /\ Rounded(m) \in Readings
  BY DEF Readings, Truncated, Rounded

(* A step of the boot recovery leaves the charger alone, and the table too *)
(* but for a row that it closes with the reading it holds.                 *)
Closes ==
  /\ recovery.at = "close" /\ recovery.tx \in Open
  /\ rows' = [rows EXCEPT !.stopped = @ \union {recovery.tx},
                          !.last[recovery.tx] = recovery.reading]
  /\ lost' = lost \union {recovery.tx}
  /\ UNCHANGED <<registry, muddled, overtaken>>

LEMMA RecoveryFrame ==
  ASSUME Recovery
  PROVE  /\ UNCHANGED <<sim, opsMu, task, orphans, faults>>
         /\ UNCHANGED <<rows, lost>> \/ Closes
<1>1. ASSUME NEW t \in Tids, RecoveryPicks(t)
      PROVE  UNCHANGED <<sim, opsMu, task, orphans, faults, rows, lost>>
  BY <1>1 DEF RecoveryPicks, ghosts
<1>2. ASSUME Judge \/ RecoveryApplyStop \/ Hydrate \/ HydrateMeter
      PROVE  UNCHANGED <<sim, opsMu, task, orphans, faults, rows, lost>>
  BY <1>2 DEF Judge, RecoveryApplyStop, Hydrate, HydrateMeter, ghosts
<1>3. CASE ForceClose
  BY <1>3 DEF ForceClose, Closes
<1> QED
  BY <1>1, <1>2, <1>3 DEF Recovery

LEMMA ClosedRow ==
  ASSUME TypeOK, Closes
  PROVE  /\ recovery.tx \in 1..rows.opened /\ recovery.tx \in Tids
         /\ recovery.tx \notin rows.stopped
         /\ rows' \in RowType
         /\ rows'.opened = rows.opened /\ rows'.startedAt = rows.startedAt
         /\ rows'.stopped = rows.stopped \union {recovery.tx}
         /\ rows'.last = [rows.last EXCEPT ![recovery.tx] = recovery.reading]
<1>1. /\ rows \in RowType /\ recovery.reading \in Readings
      /\ recovery.tx \in (1..rows.opened) \ rows.stopped
  BY DEF TypeOK, RowsType, RecoveryType, Closes, Open
<1>2. recovery.tx \in Tids
  BY <1>1 DEF RowType, Tids
<1> QED
  BY <1>1, <1>2 DEF RowType, Closes

LEMMA RecoveryRows ==
  ASSUME TypeOK, Recovery
  PROVE  /\ rows'.opened = rows.opened /\ rows'.startedAt = rows.startedAt
         /\ \/ rows'.stopped = rows.stopped /\ lost' = lost
            \/ /\ rows'.stopped = rows.stopped \union {recovery.tx}
               /\ lost' = lost \union {recovery.tx}
         /\ recovery.tx \in 0..rows.opened
  BY RecoveryFrame, ClosedRow DEF Closes, TypeOK, RecoveryType

(* Only a call to the central system, and recovery, change its tables.     *)
LEMMA RowsStep ==
  TypeOK /\ OperationsAreAlone /\ [Next]_vars =>
    /\ RowsType'
    /\ rows.opened <= rows'.opened /\ rows.stopped \subseteq rows'.stopped
<1> SUFFICES ASSUME TypeOK, OperationsAreAlone, [Next]_vars
             PROVE  /\ RowsType'
                    /\ rows.opened <= rows'.opened /\ rows.stopped \subseteq rows'.stopped
  OBVIOUS
<1> DEFINE Grows == /\ RowsType'
                    /\ rows.opened <= rows'.opened /\ rows.stopped \subseteq rows'.stopped
<1> USE DEF RowsType
<1>t. RowsType /\ task \in [Procs -> TaskType]
  BY DEF TypeOK
<1>a. ASSUME rows' = rows
      PROVE  Grows
  BY <1>a, <1>t DEF RowType
<1>r. \A p \in Procs : task[p].reading \in Readings
  BY <1>t DEF TaskType
<1>1. ASSUME NEW p \in Procs, NEW t \in Tids, StartCall(p, t)
      PROVE  Grows
  <2>1. t \in 0..MaxTx
    BY DEF Tids
  <2>2. CASE Created(p, t)
    <3>1. rows' \in RowType
      BY <1>r, <1>t, <2>1, <2>2 DEF Created, RowType
    <3>2. rows'.opened = rows.opened + 1 /\ rows'.stopped = rows.stopped
      BY <1>t, <2>2 DEF Created, RowType
    <3> QED
      BY <1>t, <3>1, <3>2 DEF RowType
  <2>3. CASE Retried(p, t)
    BY <1>a, <2>3 DEF Retried
  <2> QED
    BY <1>1, <2>2, <2>3 DEF StartCall
<1>2. ASSUME NEW p \in Procs, StopCall(p)
      PROVE  Grows
  <2>1. task[p].tx \in 1..rows.opened
    BY <1>2 DEF StopCall, OperationsAreAlone, SimType, TypeOK, At, NoTx
  <2>2. task[p].tx \in Tids
    BY <1>t, <2>1 DEF Tids, RowType
  <2>3. rows' = rows \/ rows' = [rows EXCEPT !.stopped = @ \union {task[p].tx},
                                             !.last[task[p].tx] = task[p].reading]
    BY <1>2 DEF StopCall
  <2>4. ASSUME NEW t \in Tids, NEW m \in Readings,
               rows' = [rows EXCEPT !.stopped = @ \union {t}, !.last[t] = m]
        PROVE  /\ rows' \in RowType
               /\ rows'.opened = rows.opened /\ rows'.stopped = rows.stopped \union {t}
    BY <1>t, <2>4 DEF RowType
  <2>5. \/ rows' = rows
        \/ /\ rows' \in RowType /\ rows'.opened = rows.opened
           /\ rows'.stopped = rows.stopped \union {task[p].tx}
    BY <1>r, <2>2, <2>3, <2>4
  <2> QED
    BY <1>a, <1>t, <2>1, <2>5 DEF RowType
<1>3. ASSUME NEW p \in Procs, MeterCall(p)
      PROVE  Grows
  <2>1. rows' = rows \/ rows' = [rows EXCEPT !.last[task[p].tx] = task[p].reading]
    BY <1>3 DEF MeterCall
  <2> QED
    BY <1>a, <1>r, <1>t, <2>1 DEF RowType
<1>4. CASE Recovery
  <2>1. CASE Closes
    BY <1>t, <2>1, ClosedRow DEF RowType
  <2> QED
    BY <1>4, <1>a, <2>1, RecoveryFrame
<1>5. ASSUME NEW p \in Procs,
             \/ Queued(p) \/ Request(p)
             \/ Notify(p) \/ NotifyFails(p) \/ Noted(p) \/ StartRefused(p) \/ Started(p)
             \/ StopFails(p) \/ Stopped(p) \/ Target(p) \/ MeterFails(p)
             \/ ExecuteRemoteStart(p) \/ ExecuteRemoteStop(p)
             \/ Schedule(p) \/ ChangeAvailability(p) \/ Boot(p) \/ BootFails(p)
      PROVE  rows' = rows
  BY <1>5 DEF central, Queued, Start, Stop, Meter, Request, OnRemoteStart, OnRemoteStop, OnReset,
     TriggerMessage, OnChangeAvailability, Notify, NotifyFails, Noted, StartRefused, Started,
     StopFails, Stopped, Target, MeterFails, ExecuteRemoteStart, ExecuteRemoteStop,
     Schedule, ChangeAvailability, Boot, BootFails
<1>6. ASSUME \/ \E place \in {"start", "stop", "remoteStart", "remoteStop", "meter"} : Command(place)
             \/ \E s \in Statuses : StatusCommand(s)
             \/ Relaunch \/ UNCHANGED vars
      PROVE  rows' = rows
  BY <1>6 DEF central, Command, StatusCommand, Relaunch, vars
<1> QED
  BY <1>a, <1>1, <1>2, <1>3, <1>4, <1>5, <1>6 DEF Next, Step

(* What a goroutine does next is one of the program's places.              *)
LEMMA TaskStep ==
  TypeOK /\ [Next]_vars => task' \in [Procs -> TaskType]
<1> SUFFICES ASSUME TypeOK, [Next]_vars
             PROVE  task' \in [Procs -> TaskType]
  OBVIOUS
<1>t. task \in [Procs -> TaskType]
  BY DEF TypeOK
<1>x. 0 \in 0..MaxTx /\ sim.transaction \in 0..MaxTx /\ Tids \subseteq 0..MaxTx
  BY DEF TypeOK, SimType, RowsType, RowType, Tids
<1>s. sim.status \in Statuses /\ sim.meter \in 0..MaxMeter
  BY DEF TypeOK, SimType
<1>i. Idle \in TaskType
  BY <1>x, ReadingsTyped DEF Idle, TaskType, Statuses, Places, NoTx
<1>e. ASSUME NEW p \in Procs, End(p)
      PROVE  task' \in [Procs -> TaskType]
  BY <1>t, <1>i, <1>e DEF End
<1>g. ASSUME NEW p \in Procs, NEW place \in Places, Goto(p, place)
      PROVE  task' \in [Procs -> TaskType]
  BY <1>t, <1>g DEF Goto, TaskType
<1>n. \A s \in Statuses, back \in {"idle", "remote", "startCall", "boot", "ready"} :
        Setting(s, back) \in TaskType
  BY <1>i DEF Setting, TaskType, Places, Idle
<1>f. ASSUME NEW p \in Procs, NEW s \in Statuses,
             NEW back \in {"idle", "remote", "startCall", "boot", "ready"},
             SetStatus(p, s, back)
      PROVE  task' \in [Procs -> TaskType]
  BY <1>t, <1>n, <1>f DEF SetStatus
<1>p. {"idle", "boot", "remoteStart", "remoteStop", "schedule", "availability",
       "start", "startCall", "started", "stop", "stopCall", "stopped", "target",
       "meter", "meterCall", "notify", "noted"} \subseteq Places
  BY DEF Places
<1>o. {"Available", "Occupied", "Blocked"} \subseteq Statuses
  BY DEF Statuses
<1>r. \A p \in Procs : /\ task[p].goal \in Statuses /\ task[p].reading \in Readings
                       /\ task[p].back \in {"idle", "remote", "startCall", "boot", "ready"}
                       /\ task[p].tx \in 0..MaxTx
  BY <1>t DEF TaskType
<1>1. ASSUME NEW p \in Procs, Notify(p) \/ NotifyFails(p)
      PROVE  task' \in [Procs -> TaskType]
  BY <1>1, <1>e, <1>g, <1>p DEF Notify, NotifyFails
<1>2. ASSUME NEW p \in Procs, Noted(p)
      PROVE  task' \in [Procs -> TaskType]
  <2>1. CASE task[p].back \in {"startCall", "boot"}
    <3>1. task' = [task EXCEPT ![p].at = task[p].back, ![p].back = "idle"]
      BY <1>2, <2>1 DEF Noted
    <3> QED
      BY <1>t, <2>1, <3>1, <1>p DEF TaskType
  <2>2. CASE task[p].back \notin {"startCall", "boot"}
    BY <1>2, <1>e, <2>2 DEF Noted
  <2> QED
    BY <2>1, <2>2
<1>3. ASSUME NEW p \in Procs, Start(p)
      PROVE  task' \in [Procs -> TaskType]
  <2>1. Truncated(sim.meter) \in Readings
    BY <1>s, ReadingsTyped
  <2>2. [Setting("Occupied", "startCall") EXCEPT !.reading = Truncated(sim.meter)] \in TaskType
    BY <1>n, <1>o, <2>1 DEF TaskType
  <2>3. [task[p] EXCEPT !.reading = Truncated(sim.meter), !.at = "startCall", !.back = "idle"]
          \in TaskType
    BY <1>t, <1>p, <2>1 DEF TaskType
  <2> QED
    BY <1>3, <1>e, <1>t, <2>2, <2>3 DEF Start
<1>4. ASSUME NEW p \in Procs, NEW t \in Tids, StartCall(p, t)
      PROVE  task' \in [Procs -> TaskType]
  <2>1. task' = [task EXCEPT ![p].at = "started", ![p].tx = t] \/ End(p)
    BY <1>4 DEF StartCall
  <2> QED
    BY <1>e, <1>p, <1>t, <1>x, <2>1 DEF TaskType
<1>5. ASSUME NEW p \in Procs,
             \/ StartRefused(p) \/ StopFails(p) \/ MeterCall(p) \/ MeterFails(p)
             \/ Schedule(p) \/ BootFails(p)
      PROVE  task' \in [Procs -> TaskType]
  BY <1>5, <1>e DEF StartRefused, StopFails, MeterCall, MeterFails, Schedule, BootFails
<1>6. ASSUME NEW p \in Procs, Started(p) \/ Target(p) \/ ChangeAvailability(p) \/ Boot(p)
      PROVE  task' \in [Procs -> TaskType]
  BY <1>6, <1>f, <1>o, <1>r, <1>n, <1>t DEF Started, Target, ChangeAvailability, Boot
<1>7. ASSUME NEW p \in Procs, Stop(p) \/ StopCall(p) \/ Stopped(p)
      PROVE  task' \in [Procs -> TaskType]
  <2>1. Truncated(sim.meter) \in Readings
    BY <1>s, ReadingsTyped
  <2>2. \/ End(p)
        \/ task' = [task EXCEPT ![p].at = "stopCall", ![p].tx = sim.transaction,
                                ![p].reading = Truncated(sim.meter)]
        \/ task' = [task EXCEPT ![p].at = "stopped", ![p].reading = 0]
        \/ task' = [task EXCEPT ![p].at = "target", ![p].tx = 0]
    BY <1>7 DEF Stop, StopCall, Stopped, NoTx
  <2> QED
    BY <1>e, <1>p, <1>t, <1>x, <2>1, <2>2, ReadingsTyped DEF TaskType
<1>8. ASSUME NEW p \in Procs, Meter(p)
      PROVE  task' \in [Procs -> TaskType]
  <2>1. \A m \in sim.meter..MaxMeter : Rounded(m) \in Readings
    BY <1>s, ReadingsTyped
  <2>2. \/ End(p)
        \/ \E m \in sim.meter..MaxMeter :
             task' = [task EXCEPT ![p].at = "meterCall", ![p].tx = sim.transaction,
                                  ![p].reading = Rounded(m)]
    BY <1>8 DEF Meter
  <2> QED
    BY <1>e, <1>p, <1>t, <1>x, <2>1, <2>2 DEF TaskType
<1>9. ASSUME NEW p \in Procs, OnRemoteStart(p) \/ OnRemoteStop(p) \/ ExecuteRemoteStop(p)
      PROVE  task' \in [Procs -> TaskType]
  BY <1>9, <1>e, <1>g, <1>p, <1>t DEF OnRemoteStart, OnRemoteStop, ExecuteRemoteStop
<1>10. ASSUME NEW p \in Procs, ExecuteRemoteStart(p)
       PROVE  task' \in [Procs -> TaskType]
  <2>1. task' = [task EXCEPT ![p].at = "start", ![p].back = "remote"] \/ End(p)
    BY <1>10 DEF ExecuteRemoteStart
  <2> QED
    BY <1>e, <1>p, <1>t, <2>1 DEF TaskType
<1>11. ASSUME NEW p \in Procs, NEW s \in {"Available", "Blocked"}, OnChangeAvailability(p, s)
       PROVE  task' \in [Procs -> TaskType]
  <2>1. PICK place \in {"schedule", "availability"} :
          task' = [task EXCEPT ![p].goal = s, ![p].at = place]
    BY <1>11 DEF OnChangeAvailability
  <2>2. place \in Places /\ s \in Statuses
    BY <1>o, <1>p
  <2> QED
    BY <1>t, <2>1, <2>2 DEF TaskType
<1>12. ASSUME NEW p \in Procs, OnReset(p)
       PROVE  task' \in [Procs -> TaskType]
  <2>1. task' = [task EXCEPT ![p].at = "stop", ![p].back = "boot"] \/ Goto(p, "boot")
    BY <1>12 DEF OnReset
  <2> QED
    BY <1>g, <1>p, <1>t, <2>1 DEF TaskType
<1>13. ASSUME NEW p \in Procs, TriggerMessage(p)
       PROVE  task' \in [Procs -> TaskType]
  BY <1>13, <1>f, <1>g, <1>p, <1>s DEF TriggerMessage
<1>14. ASSUME NEW place \in {"start", "stop", "remoteStart", "remoteStop", "meter"},
              Command(place)
       PROVE  task' \in [Procs -> TaskType]
  BY <1>14, <1>g, <1>p DEF Command
<1>15. ASSUME NEW s \in Statuses, StatusCommand(s)
       PROVE  task' \in [Procs -> TaskType]
  BY <1>15, <1>f DEF StatusCommand
<1>16. CASE Relaunch
  <2>1. [Idle EXCEPT !.at = "boot", !.back = "ready"] \in TaskType
    BY <1>i, <1>p DEF TaskType
  <2> QED
    BY <1>16, <1>i, <2>1 DEF Relaunch, NewTask
<1>17. CASE Recovery \/ UNCHANGED vars
  BY <1>17, <1>t, RecoveryFrame DEF vars
<1> QED
  BY <1>1, <1>2, <1>3, <1>4, <1>5, <1>6, <1>7, <1>8, <1>9, <1>10, <1>11, <1>12, <1>13,
     <1>14, <1>15, <1>16, <1>17 DEF Next, Queued, Step, Request

(* What changes the charger's data.                                        *)
LEMMA SimChanges ==
  [Next]_vars =>
    \/ sim' = sim \/ Relaunch
    \/ \E p \in Procs : \/ Noted(p) \/ Started(p) \/ Stopped(p) \/ Meter(p)
                        \/ OnRemoteStart(p) \/ OnRemoteStop(p)
                        \/ Schedule(p) \/ ChangeAvailability(p)
<1>1. ASSUME NEW p \in Procs,
             \/ Start(p) \/ Stop(p) \/ OnReset(p) \/ TriggerMessage(p)
             \/ \E s \in {"Available", "Blocked"} : OnChangeAvailability(p, s)
             \/ Notify(p) \/ NotifyFails(p) \/ StartRefused(p)
             \/ \E t \in Tids : StartCall(p, t)
             \/ StopCall(p) \/ StopFails(p) \/ Target(p) \/ MeterCall(p) \/ MeterFails(p)
             \/ ExecuteRemoteStart(p) \/ ExecuteRemoteStop(p) \/ Boot(p) \/ BootFails(p)
      PROVE  sim' = sim
  BY <1>1 DEF Start, Stop, OnReset, TriggerMessage, OnChangeAvailability, Notify,
     NotifyFails, StartRefused, StartCall, StopCall, StopFails, Target, MeterCall,
     MeterFails, ExecuteRemoteStart, ExecuteRemoteStop, Boot, BootFails
<1>2. ASSUME \/ \E place \in {"start", "stop", "remoteStart", "remoteStop", "meter"} :
                   Command(place)
             \/ \E s \in Statuses : StatusCommand(s)
             \/ Recovery \/ UNCHANGED vars
      PROVE  sim' = sim
  BY <1>2, RecoveryFrame DEF Command, StatusCommand, vars
<1> QED
  BY <1>1, <1>2 DEF Next, Queued, Step, Request

(* What the charger remembers.                                             *)
LEMMA SimStep ==
  TypeOK /\ OperationsAreAlone /\ [Next]_vars => SimType'
<1> SUFFICES ASSUME TypeOK, OperationsAreAlone, [Next]_vars
             PROVE  SimType'
  OBVIOUS
<1>t. SimType /\ task \in [Procs -> TaskType]
  BY DEF TypeOK
<1>r. /\ rows.opened \in Nat /\ rows'.opened \in Nat
      /\ rows.opened <= rows'.opened
  BY RowsStep DEF TypeOK, RowsType, RowType
<1>a. ASSUME sim' = sim
      PROVE  SimType'
  BY <1>a, <1>r, <1>t DEF SimType
<1>1. ASSUME NEW p \in Procs, Noted(p)
      PROVE  SimType'
  <2>1. task[p].goal \in Statuses
    BY <1>t DEF TaskType
  <2> QED
    BY <1>1, <1>t, <2>1 DEF Noted, SimType, central
<1>2. ASSUME NEW p \in Procs, Started(p)
      PROVE  SimType'
  <2>1. task[p].tx \in 0..rows.opened
    BY <1>2, <1>r DEF Started, OperationsAreAlone
  <2>2. rows' = rows
    BY <1>2 DEF Started, central
  <2>3. sim' = [sim EXCEPT !.transaction = task[p].tx, !.remoteStart = FALSE]
    BY <1>2 DEF Started
  <2> QED
    BY <1>t, <2>1, <2>2, <2>3 DEF SimType
<1>3. ASSUME NEW p \in Procs, Stopped(p)
      PROVE  SimType'
  <2>1. rows' = rows /\ sim' = [sim EXCEPT !.transaction = 0, !.remoteStop = 0]
    BY <1>3 DEF Stopped, central, NoTx
  <2>2. 0 \in 0..rows.opened
    BY <1>r
  <2> QED
    BY <1>t, <2>1, <2>2 DEF SimType
<1>4. ASSUME NEW p \in Procs, Meter(p)
      PROVE  SimType'
  <2>1. rows' = rows
    BY <1>4 DEF Meter, central
  <2>2. sim' = sim \/ \E m \in sim.meter..MaxMeter : sim' = [sim EXCEPT !.meter = m]
    BY <1>4 DEF Meter
  <2>3. sim.meter..MaxMeter \subseteq 0..MaxMeter
    BY <1>t DEF SimType
  <2> QED
    BY <1>t, <2>1, <2>2, <2>3 DEF SimType
<1>5. ASSUME NEW p \in Procs, OnRemoteStart(p) \/ Schedule(p)
      PROVE  SimType'
  BY <1>5, <1>t DEF OnRemoteStart, Schedule, SimType, central
<1>6. ASSUME NEW p \in Procs, OnRemoteStop(p)
      PROVE  SimType'
  BY <1>6, <1>t DEF OnRemoteStop, SimType, central
<1>7. ASSUME NEW p \in Procs, ChangeAvailability(p)
      PROVE  SimType'
  BY <1>7, <1>t DEF ChangeAvailability, SimType, central
<1>8. CASE Relaunch
  BY <1>8, <1>r DEF Relaunch, NewSim, SimType, Statuses, NoTx
<1> QED
  BY <1>a, <1>1, <1>2, <1>3, <1>4, <1>5, <1>6, <1>7, <1>8, SimChanges

(* What the central system shows, and who holds the lock.                  *)
LEMMA RestStep ==
  TypeOK /\ OperationsAreAlone /\ [Next]_vars =>
    /\ opsMu' \in Procs \union {NoProc}
    /\ registry' \in [status : Statuses \union {"Unknown"}, tx : 0..rows'.opened]
<1> DEFINE Shows == registry' \in [status : Statuses \union {"Unknown"}, tx : 0..rows'.opened]
<1> SUFFICES ASSUME TypeOK, OperationsAreAlone, [Next]_vars
             PROVE  opsMu' \in Procs \union {NoProc} /\ Shows
  OBVIOUS
<1>t. /\ registry \in [status : Statuses \union {"Unknown"}, tx : 0..rows.opened]
      /\ task \in [Procs -> TaskType]
  BY DEF TypeOK
<1>r. /\ rows.opened \in Nat /\ rows'.opened \in Nat
      /\ rows.opened <= rows'.opened /\ rows.stopped \subseteq 1..rows.opened
  BY RowsStep DEF TypeOK, RowsType, RowType
<1>s. {"Available", "Occupied", "Blocked"} \subseteq Statuses
  BY DEF Statuses
<1>0. opsMu' \in Procs \union {NoProc}
  BY RecoveryFrame DEF TypeOK, Next, Queued, Step, Request, Start, Stop, Meter, OnReset, OnRemoteStart,
     OnRemoteStop, TriggerMessage, OnChangeAvailability, Notify, NotifyFails, Noted,
     StartRefused, StartCall, Started, StopCall, StopFails, Stopped, Target, MeterCall,
     MeterFails, ExecuteRemoteStart, ExecuteRemoteStop, Schedule, ChangeAvailability, Boot,
     BootFails, Command, StatusCommand, Relaunch, vars, Lock, Unlock, End
<1>a. ASSUME registry' = registry
      PROVE  Shows
  BY <1>a, <1>r, <1>t
<1>1. ASSUME NEW p \in Procs, Notify(p)
      PROVE  Shows
  <2>1. task[p].goal \in Statuses /\ registry' = [registry EXCEPT !.status = task[p].goal]
    BY <1>1, <1>t DEF Notify, TaskType
  <2> QED
    BY <1>r, <1>t, <2>1
<1>2. ASSUME NEW p \in Procs, NEW t \in Tids, StartCall(p, t)
      PROVE  Shows
  <2>1. t \in 1..rows'.opened
    <3>1. CASE Created(p, t)
      <4>1. rows'.opened = t
        BY <3>1 DEF Created, TypeOK, RowsType, RowType
      <4> QED
        BY <4>1 DEF Tids
    <3>2. CASE Retried(p, t)
      BY <1>r, <3>2 DEF Retried, Open
    <3> QED
      BY <1>2, <3>1, <3>2 DEF StartCall
  <2> QED
    BY <1>2, <1>r, <1>s, <2>1 DEF StartCall
<1>3. ASSUME NEW p \in Procs, StopCall(p)
      PROVE  Shows
  <2>1. registry' = [status |-> "Available", tx |-> 0] \/ registry' = registry
    BY <1>3 DEF StopCall, NoTx
  <2> QED
    BY <1>a, <1>r, <1>s, <2>1
<1>4. ASSUME NEW p \in Procs, MeterCall(p)
      PROVE  Shows
  <2>1. task[p].tx \in 0..rows.opened
    BY <1>4 DEF MeterCall, At, OperationsAreAlone, TypeOK, SimType
  <2>2. registry' = [registry EXCEPT !.tx = task[p].tx]
    BY <1>4 DEF MeterCall
  <2> QED
    BY <1>r, <1>t, <2>1, <2>2
<1>5. ASSUME Recovery
      PROVE  Shows
  <2>1. recovery.tx \in 0..rows'.opened
    BY <1>5, <1>r, RecoveryRows
  <2>2. \/ registry' = registry
        \/ registry' = [status |-> "Available", tx |-> 0]
        \/ registry' = [status |-> "Occupied", tx |-> recovery.tx]
        \/ registry' = [registry EXCEPT !.tx = recovery.tx]
    BY <1>5, Zenon DEF Recovery, RecoveryPicks, Judge, ForceClose, RecoveryApplyStop, Hydrate,
       HydrateMeter, NoTx
  <2> QED
    BY <1>a, <1>r, <1>s, <1>t, <2>1, <2>2
<1>6. ASSUME NEW p \in Procs,
             \/ Queued(p) \/ Request(p)
             \/ NotifyFails(p) \/ Noted(p) \/ StartRefused(p) \/ Started(p)
             \/ StopFails(p) \/ Stopped(p) \/ Target(p) \/ MeterFails(p)
             \/ ExecuteRemoteStart(p) \/ ExecuteRemoteStop(p)
             \/ Schedule(p) \/ ChangeAvailability(p) \/ Boot(p) \/ BootFails(p)
      PROVE  registry' = registry
  BY <1>6 DEF central, Queued, Start, Stop, Meter, Request, OnRemoteStart, OnRemoteStop,
     OnReset, TriggerMessage, OnChangeAvailability, NotifyFails, Noted, StartRefused,
     Started, StopFails, Stopped, Target, MeterFails, ExecuteRemoteStart,
     ExecuteRemoteStop, Schedule, ChangeAvailability, Boot, BootFails
<1>7. ASSUME \/ \E place \in {"start", "stop", "remoteStart", "remoteStop", "meter"} :
                    Command(place)
             \/ \E s \in Statuses : StatusCommand(s)
             \/ Relaunch \/ UNCHANGED vars
      PROVE  registry' = registry
  BY <1>7 DEF central, Command, StatusCommand, Relaunch, vars
<1> QED
  BY <1>0, <1>a, <1>1, <1>2, <1>3, <1>4, <1>5, <1>6, <1>7 DEF Next, Step

(* The history variables.                                                  *)
LEMMA GhostStep ==
  TypeOK /\ OperationsAreAlone /\ [Next]_vars => GhostType'
<1> DEFINE Within == orphans' \subseteq 1..rows'.opened /\ lost' \subseteq rows'.stopped
           Counted == /\ muddled' \in BOOLEAN /\ overtaken' \in BOOLEAN
                      /\ faults' \in 0..MaxFaults
<1> SUFFICES ASSUME TypeOK, OperationsAreAlone, [Next]_vars
             PROVE  Within /\ Counted
  BY DEF GhostType
<1>t. GhostType
  BY DEF TypeOK
<1>r. /\ rows.opened \in Nat /\ rows'.opened \in Nat /\ rows \in RowType
      /\ rows.opened <= rows'.opened /\ rows.stopped \subseteq rows'.stopped
  BY RowsStep DEF TypeOK, RowsType, RowType
<1>m. /\ 1..rows.opened \subseteq 1..rows'.opened
      /\ orphans \subseteq 1..rows'.opened /\ lost \subseteq rows'.stopped
  <2>1. 1..rows.opened \subseteq 1..rows'.opened
    BY <1>r
  <2> QED
    BY <1>r, <1>t, <2>1 DEF GhostType
<1>f. ASSUME faults' = faults \/ Fault
      PROVE  faults' \in 0..MaxFaults
  BY <1>f, <1>t DEF GhostType, Fault
<1>a. ASSUME orphans' = orphans, lost' = lost
      PROVE  Within
  BY <1>a, <1>m
<1>b. ASSUME UNCHANGED ghosts
      PROVE  Within /\ Counted
  BY <1>a, <1>b, <1>t DEF ghosts, GhostType
<1>1. ASSUME NEW p \in Procs, Notify(p) \/ NotifyFails(p)
      PROVE  Within /\ Counted
  <2>1. /\ orphans' = orphans /\ lost' = lost /\ overtaken' = overtaken
        /\ faults' = faults \/ Fault
    BY <1>1 DEF Notify, NotifyFails
  <2>2. muddled' \in BOOLEAN
    BY <1>1, Zenon DEF Notify, NotifyFails
  <2> QED
    BY <1>a, <1>f, <1>t, <2>1, <2>2 DEF GhostType
<1>2. ASSUME NEW p \in Procs, NEW t \in Tids, StartCall(p, t)
      PROVE  Within /\ Counted
  <2>1. /\ orphans' = orphans \/ orphans' = orphans \union {t}
        /\ lost' = lost /\ (faults' = faults \/ Fault)
        /\ muddled' = muddled \/ muddled' = TRUE
        /\ overtaken' = FALSE
    BY <1>2 DEF StartCall
  <2>2. t \in 1..rows'.opened
    <3>1. CASE Created(p, t)
      <4>1. rows'.opened = t
        BY <3>1 DEF Created, TypeOK, RowsType, RowType
      <4> QED
        BY <4>1 DEF Tids
    <3>2. CASE Retried(p, t)
      BY <1>r, <3>2 DEF Retried, Open
    <3> QED
      BY <1>2, <3>1, <3>2 DEF StartCall
  <2>3. Within
    BY <1>m, <2>1, <2>2
  <2>4. Counted
    BY <1>f, <1>t, <2>1 DEF GhostType
  <2> QED
    BY <2>3, <2>4
<1>3. ASSUME NEW p \in Procs, StopCall(p)
      PROVE  Within /\ Counted
  <2>1. /\ lost' = lost \/ lost' = lost \union {task[p].tx}
        /\ orphans' = orphans /\ (faults' = faults \/ Fault)
        /\ muddled' = muddled \/ muddled' = TRUE
        /\ overtaken' = overtaken \/ overtaken' = FALSE
    BY <1>3 DEF StopCall
  <2>2. task[p].tx \in rows'.stopped
    BY <1>3, <1>r DEF StopCall, RowType
  <2>3. Within
    BY <1>m, <2>1, <2>2
  <2>4. Counted
    BY <1>f, <1>t, <2>1 DEF GhostType
  <2> QED
    BY <2>3, <2>4
<1>4. CASE Relaunch
  <2>1. /\ orphans' = orphans \union Open /\ lost' = lost /\ Fault /\ muddled' = TRUE
        /\ overtaken' = overtaken
    BY <1>4 DEF Relaunch
  <2>2. Within
    BY <1>m, <2>1 DEF Open
  <2> QED
    BY <1>f, <1>t, <2>1, <2>2 DEF GhostType
<1>5. CASE Recovery
  <2>1. /\ orphans' = orphans /\ faults' = faults
        /\ \/ lost' = lost
           \/ recovery.tx \in rows'.stopped /\ lost' = lost \union {recovery.tx}
    BY <1>5, RecoveryFrame, ClosedRow DEF Closes
  <2>2. muddled' \in BOOLEAN /\ overtaken' \in BOOLEAN
    BY <1>5, <1>t, Zenon DEF Recovery, RecoveryPicks, Judge, ForceClose, RecoveryApplyStop,
       Hydrate, HydrateMeter, GhostType, ghosts
  <2>3. Within
    BY <1>m, <2>1
  <2> QED
    BY <1>f, <2>1, <2>2, <2>3
<1>6. ASSUME NEW p \in Procs,
             \/ Queued(p) \/ Request(p)
             \/ Noted(p) \/ StartRefused(p) \/ Started(p)
             \/ StopFails(p) \/ Stopped(p) \/ Target(p) \/ MeterFails(p)
             \/ ExecuteRemoteStart(p) \/ ExecuteRemoteStop(p)
             \/ Schedule(p) \/ ChangeAvailability(p) \/ Boot(p) \/ BootFails(p)
      PROVE  UNCHANGED ghosts
  BY <1>6 DEF Queued, Start, Stop, Meter, Request, OnRemoteStart, OnRemoteStop, OnReset,
     TriggerMessage, OnChangeAvailability, Noted, StartRefused, Started, StopFails,
     Stopped, Target, MeterFails, ExecuteRemoteStart, ExecuteRemoteStop,
     Schedule, ChangeAvailability, Boot, BootFails
<1>7. ASSUME \/ \E place \in {"start", "stop", "remoteStart", "remoteStop", "meter"} :
                    Command(place)
             \/ \E s \in Statuses : StatusCommand(s)
             \/ UNCHANGED vars
      PROVE  UNCHANGED ghosts
  BY <1>7 DEF Command, StatusCommand, vars
<1>8. ASSUME NEW p \in Procs, MeterCall(p)
      PROVE  Within /\ Counted
  <2>1. UNCHANGED <<orphans, lost, muddled, faults>> /\ overtaken' = FALSE
    BY <1>8 DEF MeterCall
  <2> QED
    BY <1>a, <1>t, <2>1 DEF GhostType
<1> QED
  BY <1>b, <1>1, <1>2, <1>3, <1>4, <1>5, <1>6, <1>7, <1>8 DEF Next, Step

(* Recovery goes on by itself.                                             *)
LEMMA RecoveryKept ==
  [Next]_vars => recovery' = recovery \/ Recovery
<1>1. ASSUME NEW p \in Procs, Queued(p) \/ Request(p)
      PROVE  recovery' = recovery
  BY <1>1 DEF Queued, Start, Stop, Meter, Request, OnRemoteStart, OnRemoteStop, OnReset,
     TriggerMessage, OnChangeAvailability, central
<1>2. ASSUME NEW p \in Procs, Step(p)
      PROVE  recovery' = recovery
  BY <1>2 DEF Step, Notify, NotifyFails, Noted, StartCall, StartRefused, Started, StopCall,
     StopFails, Stopped, Target, MeterCall, MeterFails, ExecuteRemoteStart,
     ExecuteRemoteStop, Schedule, ChangeAvailability, Boot, BootFails, central
<1>3. ASSUME \/ \E place \in {"start", "stop", "remoteStart", "remoteStop", "meter"} :
                    Command(place)
             \/ \E s \in Statuses : StatusCommand(s)
             \/ Relaunch \/ UNCHANGED vars
      PROVE  recovery' = recovery
  BY <1>3 DEF Command, StatusCommand, Relaunch, vars, central
<1> QED
  BY <1>1, <1>2, <1>3 DEF Next

LEMMA RecoveryStep ==
  TypeOK /\ OperationsAreAlone /\ [Next]_vars => RecoveryType'
<1> SUFFICES ASSUME TypeOK, OperationsAreAlone, [Next]_vars
             PROVE  RecoveryType'
  OBVIOUS
<1>t. RecoveryType /\ rows \in RowType
  BY DEF TypeOK, RowsType
<1>r. /\ rows.opened \in Nat /\ rows'.opened \in Nat /\ rows.opened <= rows'.opened
      /\ 0 \in Readings
  BY RowsStep, ReadingsTyped DEF TypeOK, RowsType, RowType
<1>0. recovery.tx \in 0..rows'.opened /\ 0 \in 0..rows'.opened
  BY <1>r, <1>t DEF RecoveryType
<1>1. CASE recovery' = recovery
  BY <1>t, <1>0, <1>1 DEF RecoveryType
<1>2. ASSUME NEW t \in Tids, RecoveryPicks(t)
      PROVE  RecoveryType'
  <2>1. /\ t \in 0..rows'.opened /\ t # NoTx /\ rows.last[t] \in Readings
        /\ recovery' = [at |-> "judge", tx |-> t, reading |-> rows.last[t]]
    BY <1>2, <1>r, <1>t DEF RecoveryPicks, Open, RowType, NoTx
  <2> QED
    BY <2>1 DEF RecoveryType
<1>3. ASSUME recovery.at # "none",
             \/ recovery' = NoRecovery
             \/ \E place \in {"close", "applyStop", "hydrate", "hydrateMeter"} :
                  recovery' = [recovery EXCEPT !.at = place]
      PROVE  RecoveryType'
  BY <1>3, <1>r, <1>t, <1>0 DEF RecoveryType, NoRecovery, NoTx
<1>4. ASSUME Judge \/ ForceClose \/ RecoveryApplyStop \/ Hydrate \/ HydrateMeter
      PROVE  RecoveryType'
  BY <1>3, <1>4 DEF Judge, ForceClose, RecoveryApplyStop, Hydrate, HydrateMeter
<1> QED
  BY <1>1, <1>2, <1>4, RecoveryKept DEF Recovery

LEMMA TypeStep ==
  TypeOK /\ OperationsAreAlone /\ [Next]_vars => TypeOK'
  BY RowsStep, TaskStep, SimStep, RestStep, GhostStep, RecoveryStep DEF TypeOK

-----------------------------------------------------------------------------
(* The status call in short: the goroutine goes on or ends.                *)
LEMMA NotifyFrame ==
  ASSUME NEW p \in Procs, Notify(p)
  PROVE  /\ UNCHANGED <<sim, rows, orphans, lost>> /\ task[p].at = "notify"
         /\ \/ task' = [task EXCEPT ![p].at = "noted"] /\ opsMu' = opsMu
            \/ End(p)
  BY DEF Notify, Goto, At

(* A start that passes its checks takes the lock.                          *)
LEMMA StartFrame ==
  ASSUME TypeOK, NEW p \in Procs, Start(p)
  PROVE  /\ UNCHANGED <<sim, rows, orphans, lost>>
         /\ \/ End(p)
            \/ /\ sim.transaction = NoTx /\ opsMu = NoProc /\ opsMu' = p
               /\ task'[p].at \in {"notify", "startCall"}
               /\ task'[p].at = "notify" => task'[p].back = "startCall"
               /\ \A q \in Procs \ {p} : task'[q] = task[q]
<1>t. task \in [Procs -> TaskType]
  BY DEF TypeOK
<1>1. UNCHANGED <<sim, rows, orphans, lost>>
  BY DEF Start, central, ghosts
<1>2. \/ End(p)
      \/ /\ sim.transaction = NoTx /\ opsMu = NoProc /\ opsMu' = p
         /\ \/ task' = [task EXCEPT ![p] = [Setting("Occupied", "startCall")
                                           EXCEPT !.reading = Truncated(sim.meter)]]
            \/ task' = [task EXCEPT ![p] = [task[p] EXCEPT !.reading = Truncated(sim.meter),
                                                  !.at = "startCall", !.back = "idle"]]
  BY DEF Start, Lock, Startable
<1>3. CASE task' = [task EXCEPT ![p] = [Setting("Occupied", "startCall")
                                        EXCEPT !.reading = Truncated(sim.meter)]]
  BY <1>t, <1>1, <1>2, <1>3 DEF Setting, Idle
<1>4. CASE task' = [task EXCEPT ![p] = [task[p] EXCEPT !.reading = Truncated(sim.meter),
                                                  !.at = "startCall", !.back = "idle"]]
  BY <1>t, <1>1, <1>2, <1>4 DEF TaskType
<1> QED
  BY <1>1, <1>2, <1>3, <1>4

(* A start that is answered has a row, and its id unless that is lost.     *)
LEMMA StartCallFrame ==
  ASSUME TypeOK, NEW p \in Procs, NEW t \in Tids, StartCall(p, t)
  PROVE  /\ UNCHANGED <<sim, lost>> /\ task[p].at = "startCall"
         /\ t \in 1..rows'.opened /\ t \notin rows.stopped
         /\ 1..rows.opened \subseteq 1..rows'.opened /\ rows'.stopped = rows.stopped
         /\ Open' = Open \/ (Open = {} /\ Open' = {t})
         /\ \/ /\ task' = [task EXCEPT ![p].at = "started", ![p].tx = t]
               /\ UNCHANGED <<opsMu, orphans>>
            \/ End(p) /\ orphans' = orphans \union {t}
<1>t. rows \in RowType /\ rows.stopped \subseteq 1..rows.opened
  BY DEF TypeOK, RowsType
<1>1. CASE Created(p, t)
  <2>1. t = rows.opened + 1 /\ rows'.opened = t /\ rows'.stopped = rows.stopped /\ Open = {}
    BY <1>t, <1>1 DEF Created, RowType
  <2>2. rows.opened \in Nat /\ t \notin rows.stopped
    BY <1>t, <2>1 DEF RowType
  <2>3. Open' = {t}
    BY <2>1, <2>2 DEF Open
  <2> QED
    BY <2>1, <2>2, <2>3 DEF StartCall, At
<1>2. CASE Retried(p, t)
  <2>1. rows' = rows /\ t \in 1..rows.opened /\ t \notin rows.stopped /\ Open' = Open
    BY <1>2 DEF Retried, Open
  <2>2. /\ t \in 1..rows'.opened /\ rows'.stopped = rows.stopped
        /\ 1..rows.opened \subseteq 1..rows'.opened
    BY <2>1
  <2>3. /\ UNCHANGED <<sim, lost>> /\ task[p].at = "startCall"
        /\ \/ /\ task' = [task EXCEPT ![p].at = "started", ![p].tx = t]
              /\ UNCHANGED <<opsMu, orphans>>
           \/ End(p) /\ orphans' = orphans \union {t}
    BY DEF StartCall, At
  <2> QED
    BY <2>1, <2>2, <2>3
<1> QED
  BY <1>1, <1>2 DEF StartCall

(* Who is in an operation holds the lock; who has ended does not.          *)
LEMMA LockStep ==
  TypeOK /\ LockIsHeld /\ [Next]_vars => LockIsHeld'
<1> SUFFICES ASSUME TypeOK, LockIsHeld, [Next]_vars, NEW q \in Procs
             PROVE  /\ task'[q].at \in InOperation \/ Starting(q)' => opsMu' = q
                    /\ At(q, "idle")' => opsMu' # q
  BY DEF LockIsHeld
<1> DEFINE Holds == /\ task'[q].at \in InOperation \/ Starting(q)' => opsMu' = q
                    /\ At(q, "idle")' => opsMu' # q
<1> USE DEF Idle, central, ghosts, At, Goto, Lock, Unlock, End, Setting, SetStatus,
            InOperation, Starting
<1>t. /\ task \in [Procs -> [at : Places,
                   back : {"idle", "remote", "startCall", "boot", "ready"},
                   goal : Statuses, tx : 0..MaxTx, reading : Readings]]
      /\ \A p \in Procs : /\ task[p].at \in InOperation \/ Starting(p) => opsMu = p
                          /\ At(p, "idle") => opsMu # p
  BY DEF TypeOK, TaskType, LockIsHeld
<1>e. ASSUME NEW p \in Procs, End(p)
      PROVE  Holds
  BY <1>e, <1>t
<1>1. ASSUME NEW p \in Procs, Notify(p)
      PROVE  Holds
  BY <1>1, <1>t, NotifyFrame
<1>2. ASSUME NEW p \in Procs, Start(p)
      PROVE  Holds
  BY <1>2, <1>t, StartFrame
<1>3. ASSUME NEW p \in Procs, NEW t \in Tids, StartCall(p, t)
      PROVE  Holds
  BY <1>3, <1>t DEF StartCall
<1>4. ASSUME NEW p \in Procs, Noted(p)
      PROVE  Holds
  BY <1>4, <1>t DEF Noted
<1>5. ASSUME NEW p \in Procs, Started(p)
      PROVE  Holds
  BY <1>5, <1>t DEF Started
<1>6. ASSUME NEW p \in Procs, Stop(p)
      PROVE  Holds
  BY <1>6, <1>t DEF Stop
<1>7. ASSUME NEW p \in Procs, StopCall(p)
      PROVE  Holds
  BY <1>7, <1>t DEF StopCall
<1>8. ASSUME NEW p \in Procs, Stopped(p)
      PROVE  Holds
  BY <1>8, <1>t DEF Stopped
<1>9. ASSUME NEW p \in Procs, Target(p)
      PROVE  Holds
  BY <1>9, <1>t DEF Target
<1>10. ASSUME NEW p \in Procs, Meter(p)
      PROVE  Holds
  BY <1>10, <1>t DEF Meter
<1>11. ASSUME NEW p \in Procs,
             \/ NotifyFails(p) \/ StartRefused(p) \/ StopFails(p) \/ MeterFails(p)
             \/ MeterCall(p) \/ Schedule(p) \/ BootFails(p)
      PROVE  Holds
  BY <1>11, <1>e, <1>t DEF NotifyFails, StartRefused, StopFails, MeterFails, MeterCall,
               Schedule, BootFails
<1>12. ASSUME NEW p \in Procs, OnRemoteStart(p) \/ OnRemoteStop(p)
      PROVE  Holds
  BY <1>12, <1>t DEF OnRemoteStart, OnRemoteStop
<1>13. ASSUME NEW p \in Procs, NEW s \in {"Available", "Blocked"}, OnChangeAvailability(p, s)
      PROVE  Holds
  BY <1>13, <1>t DEF OnChangeAvailability
<1>14. ASSUME NEW p \in Procs, OnReset(p)
      PROVE  Holds
  BY <1>14, <1>t DEF OnReset
<1>15. ASSUME NEW p \in Procs, TriggerMessage(p)
      PROVE  Holds
  <2>1. /\ task[p].at = "idle" /\ opsMu' = opsMu
        /\ \/ task' = [task EXCEPT ![p] = Setting(sim.status, "idle")]
           \/ task' = [task EXCEPT ![p].at = "meter"]
    BY <1>15 DEF TriggerMessage
  <2>2. CASE task' = [task EXCEPT ![p] = Setting(sim.status, "idle")]
    BY <1>t, <2>1, <2>2
  <2>3. CASE task' = [task EXCEPT ![p].at = "meter"]
    BY <1>t, <2>1, <2>3
  <2> QED
    BY <2>1, <2>2, <2>3
<1>16. ASSUME NEW p \in Procs, ExecuteRemoteStart(p)
      PROVE  Holds
  BY <1>16, <1>t DEF ExecuteRemoteStart
<1>17. ASSUME NEW p \in Procs, ExecuteRemoteStop(p)
      PROVE  Holds
  BY <1>17, <1>t DEF ExecuteRemoteStop
<1>18. ASSUME NEW p \in Procs, ChangeAvailability(p)
      PROVE  Holds
  BY <1>18, <1>t DEF ChangeAvailability
<1>19. ASSUME NEW p \in Procs, Boot(p)
      PROVE  Holds
  BY <1>19, <1>t DEF Boot
<1>20. ASSUME NEW place \in {"start", "stop", "remoteStart", "remoteStop", "meter"},
             Command(place)
      PROVE  Holds
  BY <1>20, <1>t DEF Command
<1>21. ASSUME NEW s \in Statuses, StatusCommand(s)
      PROVE  Holds
  BY <1>21, <1>t DEF StatusCommand
<1>22. ASSUME Relaunch
      PROVE  Holds
  BY <1>22, <1>t DEF Relaunch, NewSim, NewTask
<1>23. CASE Recovery \/ UNCHANGED vars
  BY <1>23, <1>t, RecoveryFrame DEF vars
<1> QED
  BY <1>1, <1>2, <1>3, <1>4, <1>5, <1>6, <1>7, <1>8, <1>9, <1>10, <1>11, <1>12, <1>13,
     <1>14, <1>15, <1>16, <1>17, <1>18, <1>19, <1>20, <1>21, <1>22, <1>23
     DEF Next, Queued, Step, Request

(* What an operation has read stays true until its last step.              *)
LEMMA AloneStep ==
  TypeOK /\ LockIsHeld /\ OperationsAreAlone /\ [Next]_vars => OperationsAreAlone'
<1> SUFFICES ASSUME TypeOK, LockIsHeld, OperationsAreAlone, [Next]_vars, NEW q \in Procs
             PROVE  /\ Starting(q)' \/ At(q, "target")' => sim'.transaction = NoTx
                    /\ At(q, "started")' => task'[q].tx \in (1..rows'.opened) \ (rows'.stopped \ lost')
                    /\ task'[q].at \in {"stopCall", "stopped", "meterCall"} =>
                         sim'.transaction # NoTx /\ task'[q].tx = sim'.transaction
                    /\ At(q, "stopped")' => task'[q].tx \in rows'.stopped
  BY DEF OperationsAreAlone
<1> DEFINE Alone == /\ Starting(q)' \/ At(q, "target")' => sim'.transaction = NoTx
                    /\ At(q, "started")' => task'[q].tx \in (1..rows'.opened) \ (rows'.stopped \ lost')
                    /\ task'[q].at \in {"stopCall", "stopped", "meterCall"} =>
                         sim'.transaction # NoTx /\ task'[q].tx = sim'.transaction
                    /\ At(q, "stopped")' => task'[q].tx \in rows'.stopped
<1> USE DEF Idle, central, ghosts, At, Goto, Lock, Unlock, End, Setting, SetStatus,
            InOperation, Starting
<1>t. /\ task \in [Procs -> [at : Places,
                   back : {"idle", "remote", "startCall", "boot", "ready"},
                   goal : Statuses, tx : 0..MaxTx, reading : Readings]]
      /\ \A p \in Procs : task[p].at \in InOperation \/ Starting(p) => opsMu = p
  BY DEF TypeOK, TaskType, LockIsHeld
<1>o. /\ \A p \in Procs :
           /\ Starting(p) \/ At(p, "target") => sim.transaction = NoTx
           /\ At(p, "started") => task[p].tx \in (1..rows.opened) \ (rows.stopped \ lost)
           /\ task[p].at \in {"stopCall", "stopped", "meterCall"} =>
                sim.transaction # NoTx /\ task[p].tx = sim.transaction
           /\ At(p, "stopped") => task[p].tx \in rows.stopped
      /\ SimType /\ rows \in RowType
  BY DEF OperationsAreAlone, TypeOK, RowsType
<1>e. ASSUME NEW p \in Procs, End(p), lost' = lost, sim'.transaction = sim.transaction,
             1..rows.opened \subseteq 1..rows'.opened, rows'.stopped = rows.stopped
      PROVE  Alone
  BY <1>e, <1>o, <1>t
<1>1. ASSUME NEW p \in Procs, Notify(p)
      PROVE  Alone
  BY <1>1, <1>o, <1>t, NotifyFrame
<1>2. ASSUME NEW p \in Procs, Start(p)
      PROVE  Alone
  BY <1>2, <1>o, <1>t, StartFrame
<1>3. ASSUME NEW p \in Procs, NEW t \in Tids, StartCall(p, t)
      PROVE  Alone
  <2>1. CASE End(p)
    BY <1>3, <1>e, <2>1, StartCallFrame
  <2>2. CASE task' = [task EXCEPT ![p].at = "started", ![p].tx = t] /\ opsMu' = opsMu
    <3>1. \A o \in Procs \ {p} :
            o # p /\ task'[o] = task[o] /\ task[o].at \notin InOperation /\ ~Starting(o)
      BY <1>3, <1>o, <1>t, <2>2, StartCallFrame
    <3>2. task'[p].at = "started" /\ task'[p].tx = t
      BY <1>t, <2>2
    <3>3. sim' = sim /\ sim.transaction = NoTx
      BY <1>3, <1>o, StartCallFrame
    <3>4. t \in (1..rows'.opened) \ (rows'.stopped \ lost')
      BY <1>3, StartCallFrame
    <3>5. CASE q = p
      BY <3>2, <3>3, <3>4, <3>5
    <3>6. CASE q # p
      BY <3>1, <3>6
    <3> QED
      BY <3>5, <3>6
  <2> QED
    BY <1>3, <2>1, <2>2, StartCallFrame
<1>4. ASSUME NEW p \in Procs, Noted(p)
      PROVE  Alone
  BY <1>4, <1>o, <1>t DEF Noted
<1>5. ASSUME NEW p \in Procs, Started(p)
      PROVE  Alone
  BY <1>5, <1>o, <1>t DEF Started
<1>6. ASSUME NEW p \in Procs, Stop(p)
      PROVE  Alone
  BY <1>6, <1>o, <1>t DEF Stop
<1>7. ASSUME NEW p \in Procs, StopCall(p)
      PROVE  Alone
  BY <1>7, <1>o, <1>t DEF StopCall
<1>8. ASSUME NEW p \in Procs, Stopped(p)
      PROVE  Alone
  BY <1>8, <1>o, <1>t DEF Stopped
<1>9. ASSUME NEW p \in Procs, Target(p)
      PROVE  Alone
  BY <1>9, <1>o, <1>t DEF Target
<1>10. ASSUME NEW p \in Procs, Meter(p)
      PROVE  Alone
  <2>1. CASE End(p) /\ sim' = sim
    BY <1>10, <1>e, <2>1 DEF Meter
  <2>2. ASSUME NEW m \in sim.meter..MaxMeter,
               opsMu = NoProc, sim' = [sim EXCEPT !.meter = m], sim.transaction # NoTx,
               task' = [task EXCEPT ![p].at = "meterCall", ![p].tx = sim.transaction,
                                    ![p].reading = Rounded(m)]
        PROVE  Alone
    <3>1. sim'.transaction = sim.transaction /\ UNCHANGED <<rows, lost>>
      BY <1>10, <1>o, <2>2 DEF SimType, Meter
    <3> QED
      BY <1>o, <1>t, <2>2, <3>1
  <2> QED
    BY <1>10, <2>1, <2>2 DEF Meter
<1>11. ASSUME NEW p \in Procs,
             \/ NotifyFails(p) \/ StartRefused(p) \/ StopFails(p) \/ MeterFails(p)
             \/ MeterCall(p) \/ Schedule(p) \/ BootFails(p)
      PROVE  Alone
  <2>1. /\ End(p) /\ lost' = lost /\ sim'.transaction = sim.transaction
        /\ rows'.opened = rows.opened /\ rows'.stopped = rows.stopped
    BY <1>11, <1>o DEF NotifyFails, StartRefused, StopFails, MeterFails, MeterCall, Schedule,
                     BootFails, SimType, RowType
  <2> QED
    BY <1>e, <2>1
<1>12. ASSUME NEW p \in Procs, OnRemoteStart(p) \/ OnRemoteStop(p)
      PROVE  Alone
  <2>1. sim'.transaction = sim.transaction /\ UNCHANGED <<rows, lost>>
    BY <1>12, <1>o DEF SimType, OnRemoteStart, OnRemoteStop
  <2>2. \/ task' = task
        \/ task' = [task EXCEPT ![p].at = "remoteStart"]
        \/ task' = [task EXCEPT ![p].at = "remoteStop"]
    BY <1>12 DEF OnRemoteStart, OnRemoteStop
  <2> QED
    BY <1>o, <1>t, <2>1, <2>2
<1>13. ASSUME NEW p \in Procs, NEW s \in {"Available", "Blocked"}, OnChangeAvailability(p, s)
      PROVE  Alone
  BY <1>13, <1>o, <1>t DEF OnChangeAvailability
<1>14. ASSUME NEW p \in Procs, OnReset(p)
      PROVE  Alone
  BY <1>14, <1>o, <1>t DEF OnReset
<1>15. ASSUME NEW p \in Procs, TriggerMessage(p)
      PROVE  Alone
  <2>1. /\ task[p].at = "idle" /\ UNCHANGED <<sim, rows, lost>>
        /\ \/ task' = [task EXCEPT ![p] = Setting(sim.status, "idle")]
           \/ task' = [task EXCEPT ![p].at = "meter"]
    BY <1>15 DEF TriggerMessage
  <2>2. CASE task' = [task EXCEPT ![p] = Setting(sim.status, "idle")]
    BY <1>o, <1>t, <2>1, <2>2
  <2>3. CASE task' = [task EXCEPT ![p].at = "meter"]
    BY <1>o, <1>t, <2>1, <2>3
  <2> QED
    BY <2>1, <2>2, <2>3
<1>16. ASSUME NEW p \in Procs, ExecuteRemoteStart(p)
      PROVE  Alone
  BY <1>16, <1>o, <1>t DEF ExecuteRemoteStart
<1>17. ASSUME NEW p \in Procs, ExecuteRemoteStop(p)
      PROVE  Alone
  BY <1>17, <1>o, <1>t DEF ExecuteRemoteStop
<1>18. ASSUME NEW p \in Procs, ChangeAvailability(p)
      PROVE  Alone
  BY <1>18, <1>o, <1>t DEF ChangeAvailability
<1>19. ASSUME NEW p \in Procs, Boot(p)
      PROVE  Alone
  BY <1>19, <1>o, <1>t DEF Boot
<1>20. ASSUME NEW place \in {"start", "stop", "remoteStart", "remoteStop", "meter"},
             Command(place)
      PROVE  Alone
  BY <1>20, <1>o, <1>t DEF Command
<1>21. ASSUME NEW s \in Statuses, StatusCommand(s)
      PROVE  Alone
  BY <1>21, <1>o, <1>t DEF StatusCommand
<1>22. ASSUME Relaunch
      PROVE  Alone
  BY <1>22, <1>o, <1>t DEF Relaunch, NewSim, NewTask
<1>23. CASE Recovery \/ UNCHANGED vars
  <2>1. UNCHANGED <<sim, task>> /\ rows'.opened = rows.opened
    BY <1>23, RecoveryFrame, RecoveryRows DEF vars
  <2>2. \/ rows'.stopped = rows.stopped /\ lost' = lost
        \/ \E t \in Nat : /\ rows'.stopped = rows.stopped \union {t}
                           /\ lost' = lost \union {t}
    BY <1>23, RecoveryRows DEF vars
  <2> QED
    BY <1>o, <1>t, <2>1, <2>2
<1> QED
  BY <1>1, <1>2, <1>3, <1>4, <1>5, <1>6, <1>7, <1>8, <1>9, <1>10, <1>11, <1>12, <1>13,
     <1>14, <1>15, <1>16, <1>17, <1>18, <1>19, <1>20, <1>21, <1>22, <1>23
     DEF Next, Queued, Step, Request

(* A pending command is dropped with what it was for.                      *)
LEMMA PendingStep ==
  TypeOK /\ OperationsAreAlone /\ PendingIsCurrent /\ [Next]_vars => PendingIsCurrent'
<1> SUFFICES ASSUME TypeOK, OperationsAreAlone, PendingIsCurrent, [Next]_vars
             PROVE  PendingIsCurrent'
  OBVIOUS
<1>t. SimType
  BY DEF TypeOK
<1> USE DEF PendingIsCurrent, SimType, NoTx
<1>1. ASSUME NEW p \in Procs, Noted(p) \/ Meter(p) \/ Schedule(p) \/ ChangeAvailability(p)
      PROVE  PendingIsCurrent'
  BY <1>1, <1>t DEF Noted, Meter, Schedule, ChangeAvailability
<1>2. ASSUME NEW p \in Procs, Started(p)
      PROVE  PendingIsCurrent'
  <2>1. sim.transaction = 0
    BY <1>2 DEF Started, At, OperationsAreAlone, Starting
  <2> QED
    BY <1>2, <1>t, <2>1 DEF Started
<1>3. ASSUME NEW p \in Procs, Stopped(p) \/ OnRemoteStart(p) \/ OnRemoteStop(p)
      PROVE  PendingIsCurrent'
  BY <1>3, <1>t DEF Stopped, OnRemoteStart, OnRemoteStop, Startable
<1>4. CASE Relaunch
  BY <1>4 DEF Relaunch, NewSim
<1>5. CASE sim' = sim
  BY <1>5
<1> QED
  BY <1>1, <1>2, <1>3, <1>4, <1>5, SimChanges

(* Charger and central system go on agreeing.                              *)
LEMMA SessionsStep ==
  TypeOK /\ LockIsHeld /\ OperationsAreAlone /\ SessionsAgree /\ [Next]_vars => SessionsAgree'
<1> SUFFICES ASSUME TypeOK, LockIsHeld, OperationsAreAlone, SessionsAgree, [Next]_vars
             PROVE  SessionsAgree'
  OBVIOUS
<1> USE DEF Idle, central, ghosts, At, Goto, Lock, Unlock, End, Setting, SetStatus,
            InOperation, Starting
<1>t. /\ task \in [Procs -> [at : Places,
                   back : {"idle", "remote", "startCall", "boot", "ready"},
                   goal : Statuses, tx : 0..MaxTx, reading : Readings]]
      /\ \A p \in Procs : task[p].at \in InOperation \/ Starting(p) => opsMu = p
  BY DEF TypeOK, TaskType, LockIsHeld
<1>s. SimType /\ rows \in RowType
  BY DEF TypeOK, RowsType
<1>o. /\ \A p \in Procs :
           /\ Starting(p) \/ At(p, "target") => sim.transaction = NoTx
           /\ At(p, "started") => task[p].tx \in (1..rows.opened) \ (rows.stopped \ lost)
           /\ task[p].at \in {"stopCall", "stopped", "meterCall"} =>
                sim.transaction # NoTx /\ task[p].tx = sim.transaction
           /\ At(p, "stopped") => task[p].tx \in rows.stopped
  BY DEF OperationsAreAlone
<1>k. ASSUME sim'.transaction = sim.transaction, rows'.opened = rows.opened,
             rows'.stopped = rows.stopped, lost' = lost, orphans' = orphans,
             \A q \in Procs : task[q].at \in {"started", "stopped"} => task'[q] = task[q]
      PROVE  SessionsAgree'
  <2>1. Open' = Open
    BY <1>k DEF Open
  <2> QED
    BY <1>k, <2>1 DEF SessionsAgree, At
<1>1. ASSUME NEW p \in Procs, Notify(p)
      PROVE  SessionsAgree'
  BY <1>1, <1>k, <1>t, NotifyFrame
<1>2. ASSUME NEW p \in Procs, Start(p)
      PROVE  SessionsAgree'
  <2>1. /\ sim'.transaction = sim.transaction /\ rows'.opened = rows.opened
        /\ rows'.stopped = rows.stopped /\ lost' = lost /\ orphans' = orphans
    BY <1>2, StartFrame
  <2>2. task[p].at = "start" /\ \A q \in Procs \ {p} : task'[q] = task[q]
    BY <1>2, <1>t, StartFrame DEF Start
  <2> QED
    BY <1>k, <2>1, <2>2
<1>3. ASSUME NEW p \in Procs, NEW t \in Tids, StartCall(p, t)
      PROVE  SessionsAgree'
  <2>1. \A q \in Procs \ {p} : task'[q] = task[q] /\ task[q].at \notin {"started", "stopped"}
    BY <1>3, <1>o, <1>t, StartCallFrame
  <2>2. sim' = sim /\ sim.transaction = NoTx /\ NoTx \notin rows'.stopped
    <3>1. sim' = sim /\ sim.transaction = NoTx /\ rows'.stopped = rows.stopped
      BY <1>3, <1>o, StartCallFrame
    <3>2. 0 \notin rows.stopped
      BY DEF TypeOK, RowsType
    <3> QED
      BY <3>1, <3>2 DEF NoTx
  <2>3. ASSUME NEW u \in Open' \ orphans'
        PROVE  u = t /\ task'[p].at = "started" /\ task'[p].tx = t
    <3>1. u \in Open => u \in orphans
      <4>1. Open \subseteq Nat \ {0}
        BY DEF Open
      <4> QED
        BY <1>3, <2>1, <2>2, <4>1, StartCallFrame DEF SessionsAgree, NoTx
    <3>2. orphans \subseteq orphans'
      BY <1>3, StartCallFrame
    <3>3. u = t
      <4>1. Open' = Open \/ Open' = {t}
        BY <1>3, StartCallFrame
      <4>2. u \in Open' /\ u \notin orphans'
        OBVIOUS
      <4> QED
        BY <3>1, <3>2, <4>1, <4>2
    <3>4. orphans' # orphans \union {t}
      BY <2>3, <3>3
    <3>5. task' = [task EXCEPT ![p].at = "started", ![p].tx = t]
      BY <1>3, <3>4, StartCallFrame
    <3> QED
      BY <1>t, <3>3, <3>5
  <2> QED
    BY <2>2, <2>3 DEF SessionsAgree
<1>4. ASSUME NEW p \in Procs, Noted(p)
      PROVE  SessionsAgree'
  <2>1. /\ sim'.transaction = sim.transaction /\ rows'.opened = rows.opened
        /\ rows'.stopped = rows.stopped /\ lost' = lost /\ orphans' = orphans
    BY <1>4, <1>s DEF Noted
  <2>2. \A q \in Procs : task[q].at \in {"started", "stopped"} => task'[q] = task[q]
    BY <1>4, <1>t DEF Noted
  <2> QED
    BY <1>k, <2>1, <2>2
<1>5. ASSUME NEW p \in Procs, Started(p)
      PROVE  SessionsAgree'
  <2>1. /\ sim'.transaction = task[p].tx /\ UNCHANGED <<rows, orphans, lost>>
        /\ task[p].at = "started" /\ sim.transaction = NoTx
    BY <1>5, <1>o, <1>s DEF Started, SimType
  <2>2. \A q \in Procs \ {p} : task[q].at # "started"
    BY <1>o, <1>t, <2>1
  <2>3. task[p].tx \notin rows.stopped \ lost
    BY <1>o, <2>1
  <2>4. Open' = Open /\ NoTx \notin Open
    BY <2>1 DEF Open, NoTx
  <2>5. \A t \in Open \ orphans : t = task[p].tx
    BY <2>1, <2>2, <2>4 DEF SessionsAgree
  <2> QED
    BY <2>1, <2>3, <2>4, <2>5 DEF SessionsAgree
<1>6. ASSUME NEW p \in Procs, Stop(p)
      PROVE  SessionsAgree'
  <2>1. /\ sim'.transaction = sim.transaction /\ rows'.opened = rows.opened
        /\ rows'.stopped = rows.stopped /\ lost' = lost /\ orphans' = orphans
    BY <1>6, <1>s DEF Stop
  <2>2. \A q \in Procs : task[q].at \in {"started", "stopped"} => task'[q] = task[q]
    BY <1>6, <1>t DEF Stop
  <2> QED
    BY <1>k, <2>1, <2>2
<1>7. ASSUME NEW p \in Procs, StopCall(p)
      PROVE  SessionsAgree'
  <2>1. /\ UNCHANGED <<sim, orphans>> /\ task[p].at = "stopCall"
        /\ task[p].tx = sim.transaction
        /\ rows'.opened = rows.opened
        /\ rows'.stopped = rows.stopped \union {task[p].tx}
    BY <1>7, <1>o, <1>s DEF StopCall, RowType
  <2>2. Open' \subseteq Open
    BY <2>1 DEF Open
  <2>3. \A q \in Procs \ {p} : task'[q] = task[q]
    BY <1>7, <1>t DEF StopCall
  <2>4. \/ task'[p].at = "stopped" /\ task'[p].tx = task[p].tx
        \/ task[p].tx \in lost'
    BY <1>7, <1>t DEF StopCall
  <2>5. sim'.transaction \in rows'.stopped \ lost' =>
          \E q \in Procs : At(q, "stopped")' /\ task'[q].tx = sim'.transaction
    BY <2>1, <2>4
  <2>6. \A t \in Open' \ orphans' :
          t = sim'.transaction \/ \E q \in Procs : At(q, "started")' /\ task'[q].tx = t
    BY <2>1, <2>2, <2>3 DEF SessionsAgree
  <2> QED
    BY <2>5, <2>6 DEF SessionsAgree
<1>8. ASSUME NEW p \in Procs, Stopped(p)
      PROVE  SessionsAgree'
  BY <1>8, <1>o, <1>s, <1>t DEF Stopped
<1>9. ASSUME NEW p \in Procs, Target(p)
      PROVE  SessionsAgree'
  <2>1. /\ sim'.transaction = sim.transaction /\ rows'.opened = rows.opened
        /\ rows'.stopped = rows.stopped /\ lost' = lost /\ orphans' = orphans
    BY <1>9, <1>s DEF Target
  <2>2. \A q \in Procs : task[q].at \in {"started", "stopped"} => task'[q] = task[q]
    BY <1>9, <1>t DEF Target
  <2> QED
    BY <1>k, <2>1, <2>2
<1>10. ASSUME NEW p \in Procs, Meter(p)
      PROVE  SessionsAgree'
  <2>1. /\ sim'.transaction = sim.transaction /\ rows'.opened = rows.opened
        /\ rows'.stopped = rows.stopped /\ lost' = lost /\ orphans' = orphans
    BY <1>10, <1>s DEF Meter, SimType
  <2>2. \A q \in Procs : task[q].at \in {"started", "stopped"} => task'[q] = task[q]
    BY <1>10, <1>t DEF Meter
  <2> QED
    BY <1>k, <2>1, <2>2
<1>11. ASSUME NEW p \in Procs,
             \/ NotifyFails(p) \/ StartRefused(p) \/ StopFails(p) \/ MeterFails(p)
             \/ MeterCall(p) \/ Schedule(p) \/ BootFails(p)
      PROVE  SessionsAgree'
  <2>1. /\ sim'.transaction = sim.transaction /\ rows'.opened = rows.opened
        /\ rows'.stopped = rows.stopped /\ lost' = lost /\ orphans' = orphans
    BY <1>11, <1>s DEF NotifyFails, StartRefused, StopFails, MeterFails, MeterCall,
               Schedule, BootFails, SimType, RowType
  <2>2. \A q \in Procs : task[q].at \in {"started", "stopped"} => task'[q] = task[q]
    BY <1>11, <1>t DEF NotifyFails, StartRefused, StopFails, MeterFails, MeterCall,
               Schedule, BootFails
  <2> QED
    BY <1>k, <2>1, <2>2
<1>12. ASSUME NEW p \in Procs, OnRemoteStart(p) \/ OnRemoteStop(p)
      PROVE  SessionsAgree'
  <2>1. /\ sim'.transaction = sim.transaction /\ rows'.opened = rows.opened
        /\ rows'.stopped = rows.stopped /\ lost' = lost /\ orphans' = orphans
    BY <1>12, <1>s DEF OnRemoteStart, OnRemoteStop, SimType
  <2>2. \A q \in Procs : task[q].at \in {"started", "stopped"} => task'[q] = task[q]
    BY <1>12, <1>t DEF OnRemoteStart, OnRemoteStop
  <2> QED
    BY <1>k, <2>1, <2>2
<1>13. ASSUME NEW p \in Procs, NEW s \in {"Available", "Blocked"}, OnChangeAvailability(p, s)
      PROVE  SessionsAgree'
  <2>1. /\ sim'.transaction = sim.transaction /\ rows'.opened = rows.opened
        /\ rows'.stopped = rows.stopped /\ lost' = lost /\ orphans' = orphans
    BY <1>13, <1>s DEF OnChangeAvailability
  <2>2. \A q \in Procs : task[q].at \in {"started", "stopped"} => task'[q] = task[q]
    BY <1>13, <1>t DEF OnChangeAvailability
  <2> QED
    BY <1>k, <2>1, <2>2
<1>14. ASSUME NEW p \in Procs, OnReset(p)
      PROVE  SessionsAgree'
  <2>1. /\ sim'.transaction = sim.transaction /\ rows'.opened = rows.opened
        /\ rows'.stopped = rows.stopped /\ lost' = lost /\ orphans' = orphans
    BY <1>14, <1>s DEF OnReset
  <2>2. \A q \in Procs : task[q].at \in {"started", "stopped"} => task'[q] = task[q]
    BY <1>14, <1>t DEF OnReset
  <2> QED
    BY <1>k, <2>1, <2>2
<1>15. ASSUME NEW p \in Procs, TriggerMessage(p)
      PROVE  SessionsAgree'
  <2>1. /\ sim'.transaction = sim.transaction /\ rows'.opened = rows.opened
        /\ rows'.stopped = rows.stopped /\ lost' = lost /\ orphans' = orphans
    BY <1>15, <1>s DEF TriggerMessage
  <2>2. \A q \in Procs : task[q].at \in {"started", "stopped"} => task'[q] = task[q]
    BY <1>15, <1>t DEF TriggerMessage
  <2> QED
    BY <1>k, <2>1, <2>2
<1>16. ASSUME NEW p \in Procs, ExecuteRemoteStart(p)
      PROVE  SessionsAgree'
  <2>1. /\ sim'.transaction = sim.transaction /\ rows'.opened = rows.opened
        /\ rows'.stopped = rows.stopped /\ lost' = lost /\ orphans' = orphans
    BY <1>16, <1>s DEF ExecuteRemoteStart
  <2>2. \A q \in Procs : task[q].at \in {"started", "stopped"} => task'[q] = task[q]
    BY <1>16, <1>t DEF ExecuteRemoteStart
  <2> QED
    BY <1>k, <2>1, <2>2
<1>17. ASSUME NEW p \in Procs, ExecuteRemoteStop(p)
      PROVE  SessionsAgree'
  <2>1. /\ sim'.transaction = sim.transaction /\ rows'.opened = rows.opened
        /\ rows'.stopped = rows.stopped /\ lost' = lost /\ orphans' = orphans
    BY <1>17, <1>s DEF ExecuteRemoteStop
  <2>2. \A q \in Procs : task[q].at \in {"started", "stopped"} => task'[q] = task[q]
    BY <1>17, <1>t DEF ExecuteRemoteStop
  <2> QED
    BY <1>k, <2>1, <2>2
<1>18. ASSUME NEW p \in Procs, ChangeAvailability(p)
      PROVE  SessionsAgree'
  <2>1. /\ sim'.transaction = sim.transaction /\ rows'.opened = rows.opened
        /\ rows'.stopped = rows.stopped /\ lost' = lost /\ orphans' = orphans
    BY <1>18, <1>s DEF ChangeAvailability
  <2>2. \A q \in Procs : task[q].at \in {"started", "stopped"} => task'[q] = task[q]
    BY <1>18, <1>t DEF ChangeAvailability
  <2> QED
    BY <1>k, <2>1, <2>2
<1>19. ASSUME NEW p \in Procs, Boot(p)
      PROVE  SessionsAgree'
  <2>1. /\ sim'.transaction = sim.transaction /\ rows'.opened = rows.opened
        /\ rows'.stopped = rows.stopped /\ lost' = lost /\ orphans' = orphans
    BY <1>19, <1>s DEF Boot
  <2>2. \A q \in Procs : task[q].at \in {"started", "stopped"} => task'[q] = task[q]
    BY <1>19, <1>t DEF Boot
  <2> QED
    BY <1>k, <2>1, <2>2
<1>20. ASSUME NEW place \in {"start", "stop", "remoteStart", "remoteStop", "meter"},
             Command(place)
      PROVE  SessionsAgree'
  <2>1. /\ sim'.transaction = sim.transaction /\ rows'.opened = rows.opened
        /\ rows'.stopped = rows.stopped /\ lost' = lost /\ orphans' = orphans
    BY <1>20, <1>s DEF Command
  <2>2. \A q \in Procs : task[q].at \in {"started", "stopped"} => task'[q] = task[q]
    BY <1>20, <1>t DEF Command
  <2> QED
    BY <1>k, <2>1, <2>2
<1>21. ASSUME NEW s \in Statuses, StatusCommand(s)
      PROVE  SessionsAgree'
  <2>1. /\ sim'.transaction = sim.transaction /\ rows'.opened = rows.opened
        /\ rows'.stopped = rows.stopped /\ lost' = lost /\ orphans' = orphans
    BY <1>21, <1>s DEF StatusCommand
  <2>2. \A q \in Procs : task[q].at \in {"started", "stopped"} => task'[q] = task[q]
    BY <1>21, <1>t DEF StatusCommand
  <2> QED
    BY <1>k, <2>1, <2>2
<1>22. ASSUME Relaunch
      PROVE  SessionsAgree'
  <2>1. sim'.transaction = 0 /\ rows' = rows /\ orphans' = orphans \union Open
    BY <1>22 DEF Relaunch, NewSim, NoTx
  <2>2. Open' = Open /\ 0 \notin rows'.stopped
    BY <2>1 DEF Open, TypeOK, RowsType
  <2> QED
    BY <2>1, <2>2 DEF SessionsAgree
<1>23. CASE Recovery \/ UNCHANGED vars
  <2>1. UNCHANGED <<sim, task, orphans>> /\ rows'.opened = rows.opened
    BY <1>23, RecoveryFrame, RecoveryRows DEF vars
  <2>2. \/ rows'.stopped = rows.stopped /\ lost' = lost
        \/ \E t \in Nat : /\ rows'.stopped = rows.stopped \union {t}
                           /\ lost' = lost \union {t}
    BY <1>23, RecoveryRows DEF vars
  <2>3. Open' \subseteq Open /\ rows'.stopped \ lost' \subseteq rows.stopped \ lost
    BY <2>1, <2>2 DEF Open
  <2> QED
    BY <2>1, <2>3 DEF SessionsAgree
<1> QED
  BY <1>1, <1>2, <1>3, <1>4, <1>5, <1>6, <1>7, <1>8, <1>9, <1>10, <1>11, <1>12, <1>13,
     <1>14, <1>15, <1>16, <1>17, <1>18, <1>19, <1>20, <1>21, <1>22, <1>23
     DEF Next, Queued, Step, Request

-----------------------------------------------------------------------------
(* Most steps are off the way of the sessions: they leave the tables, the  *)
(* register and the charger's transaction alone, and a goroutine that they *)
(* move neither was nor gets inside an operation that waits for an answer  *)
(* it will store.                                                          *)
Aside(q) ==
  \/ task'[q] = task[q]
  \/ /\ task[q].at \notin {"started", "stopped", "target", "noted"}
     /\ task'[q].at \notin InOperation \union {"noted"}
     /\ task'[q].back = "startCall" =>
          task[q].back = "startCall" /\ task[q].at \notin {"notify", "noted"}
     /\ At(q, "notify") => muddled'

Bystanding ==
  /\ UNCHANGED <<rows, registry, orphans, lost, overtaken>>
  /\ sim'.status = sim.status /\ sim'.transaction = sim.transaction
  /\ sim'.meter = sim.meter
  /\ muddled => muddled'
  /\ \A q \in Procs : Aside(q)

Operating(p) ==
  \/ Start(p) \/ (\E t \in Tids : StartCall(p, t)) \/ Started(p)
  \/ Stop(p) \/ StopCall(p) \/ Stopped(p) \/ Target(p)
  \/ Meter(p) \/ MeterCall(p) \/ Notify(p) \/ Noted(p)

LEMMA Bystanders ==
  TypeOK /\ [Next]_vars =>
    \/ \E p \in Procs : Operating(p)
    \/ Relaunch \/ Recovery
    \/ Bystanding
<1> SUFFICES ASSUME TypeOK, [Next]_vars
             PROVE  \/ \E p \in Procs : Operating(p)
                    \/ Relaunch \/ Recovery
                    \/ Bystanding
  OBVIOUS
<1>t. /\ task \in [Procs -> [at : Places,
                   back : {"idle", "remote", "startCall", "boot", "ready"},
                   goal : Statuses, tx : 0..MaxTx, reading : Readings]]
      /\ DOMAIN sim = {"status", "transaction", "meter", "remoteStart", "remoteStop",
                       "unavailableAfterStop"}
      /\ sim = [f \in DOMAIN sim |-> sim[f]]
  BY DEF TypeOK, TaskType, SimType
<1> DEFINE Still == /\ UNCHANGED <<rows, registry, orphans, lost, overtaken>>
                    /\ sim'.status = sim.status /\ sim'.transaction = sim.transaction
                    /\ sim'.meter = sim.meter
           Others(p) == \A q \in Procs \ {p} : task'[q] = task[q]
<1>e. ASSUME NEW p \in Procs, End(p),
             task[p].at \notin {"started", "stopped", "target", "noted", "notify"}
      PROVE  \A q \in Procs : Aside(q)
  BY <1>t, <1>e DEF End, Idle, Aside, InOperation, At
<1>g. ASSUME NEW p \in Procs, NEW place \in Places, Goto(p, place),
             task[p].at \notin {"started", "stopped", "target", "noted", "notify"},
             place \notin InOperation \union {"noted"}
      PROVE  \A q \in Procs : Aside(q)
  BY <1>t, <1>g DEF Goto, Aside, At
<1>f. ASSUME NEW p \in Procs, NEW s \in Statuses, NEW back \in {"idle", "ready"},
             SetStatus(p, s, back),
             task[p].at \notin {"started", "stopped", "target", "noted", "notify"}
      PROVE  \A q \in Procs : Aside(q)
  BY <1>t, <1>f DEF SetStatus, Setting, Idle, Aside, InOperation, At
<1>p. {"idle", "boot", "remoteStart", "remoteStop", "start", "stop", "meter"} \subseteq Places
  BY DEF Places
<1>s. {"Available", "Occupied", "Blocked"} \subseteq Statuses /\ sim.status \in Statuses
      /\ \A p \in Procs : task[p].goal \in Statuses
  BY <1>t DEF Statuses, TypeOK, SimType
<1>1. ASSUME NEW p \in Procs, NotifyFails(p)
      PROVE  Bystanding
  BY <1>1, <1>t DEF NotifyFails, End, Idle, Bystanding, Aside, InOperation, At, central
<1>2. ASSUME NEW p \in Procs,
             \/ StartRefused(p) \/ StopFails(p) \/ MeterFails(p) \/ BootFails(p)
      PROVE  Bystanding
  BY <1>2, <1>e DEF StartRefused, StopFails, MeterFails, BootFails, Bystanding, At,
     central, ghosts
<1>3. ASSUME NEW p \in Procs, Schedule(p)
      PROVE  Bystanding
  BY <1>3, <1>e, <1>t DEF Schedule, Bystanding, At, central, ghosts
<1>4. ASSUME NEW p \in Procs, OnRemoteStart(p) \/ OnRemoteStop(p)
      PROVE  Bystanding
  <2>1. Still /\ muddled' = muddled
    BY <1>4, <1>t DEF OnRemoteStart, OnRemoteStop, central, ghosts
  <2>2. \A q \in Procs : Aside(q)
    BY <1>4, <1>g, <1>p DEF OnRemoteStart, OnRemoteStop, Aside, At, InOperation
  <2> QED
    BY <2>1, <2>2 DEF Bystanding
<1>5. ASSUME NEW p \in Procs, NEW s \in {"Available", "Blocked"}, OnChangeAvailability(p, s)
      PROVE  Bystanding
  <2>1. PICK place \in {"schedule", "availability"} :
          task' = [task EXCEPT ![p].goal = s, ![p].at = place]
    BY <1>5 DEF OnChangeAvailability
  <2>2. \A q \in Procs : Aside(q)
    BY <1>5, <1>t, <2>1 DEF OnChangeAvailability, Aside, At, InOperation
  <2> QED
    BY <1>5, <2>2 DEF OnChangeAvailability, Bystanding, central, ghosts
<1>6. ASSUME NEW p \in Procs, OnReset(p)
      PROVE  Bystanding
  <2>1. task' = [task EXCEPT ![p].at = "stop", ![p].back = "boot"] \/ Goto(p, "boot")
    BY <1>6 DEF OnReset
  <2>2. \A q \in Procs : Aside(q)
    BY <1>6, <1>g, <1>p, <1>t, <2>1 DEF OnReset, Aside, At, InOperation
  <2> QED
    BY <1>6, <2>2 DEF OnReset, Bystanding, central, ghosts
<1>7. ASSUME NEW p \in Procs, TriggerMessage(p)
      PROVE  Bystanding
  <2>1. \A q \in Procs : Aside(q)
    BY <1>7, <1>f, <1>g, <1>p, <1>s DEF TriggerMessage, At, InOperation
  <2> QED
    BY <1>7, <2>1 DEF TriggerMessage, Bystanding, central, ghosts
<1>8. ASSUME NEW p \in Procs, ExecuteRemoteStart(p)
      PROVE  Bystanding
  <2>1. task' = [task EXCEPT ![p].at = "start", ![p].back = "remote"] \/ End(p)
    BY <1>8 DEF ExecuteRemoteStart
  <2>2. \A q \in Procs : Aside(q)
    BY <1>8, <1>e, <1>t, <2>1 DEF ExecuteRemoteStart, Aside, At, InOperation
  <2> QED
    BY <1>8, <2>2 DEF ExecuteRemoteStart, Bystanding, central, ghosts
<1>9. ASSUME NEW p \in Procs, ExecuteRemoteStop(p)
      PROVE  Bystanding
  <2>1. \A q \in Procs : Aside(q)
    BY <1>9, <1>e, <1>g, <1>p DEF ExecuteRemoteStop, At, InOperation
  <2> QED
    BY <1>9, <2>1 DEF ExecuteRemoteStop, Bystanding, central, ghosts
<1>10. ASSUME NEW p \in Procs, ChangeAvailability(p)
       PROVE  Bystanding
  <2>1. \A q \in Procs : Aside(q)
    BY <1>10, <1>f, <1>s DEF ChangeAvailability, At
  <2>2. Still /\ muddled' = muddled
    BY <1>10, <1>t DEF ChangeAvailability, central, ghosts
  <2> QED
    BY <2>1, <2>2 DEF Bystanding
<1>11. ASSUME NEW p \in Procs, Boot(p)
       PROVE  Bystanding
  <2>1. \A q \in Procs : Aside(q)
    BY <1>11, <1>f, <1>s DEF Boot, At
  <2> QED
    BY <1>11, <2>1 DEF Boot, Bystanding, central, ghosts
<1>12. ASSUME NEW place \in {"start", "stop", "remoteStart", "remoteStop", "meter"},
              Command(place)
       PROVE  Bystanding
  <2>1. \A q \in Procs : Aside(q)
    BY <1>12, <1>g, <1>p DEF Command, At, InOperation
  <2> QED
    BY <1>12, <2>1 DEF Command, Bystanding, central, ghosts
<1>13. ASSUME NEW s \in Statuses, StatusCommand(s)
       PROVE  Bystanding
  <2>1. \A q \in Procs : Aside(q)
    BY <1>13, <1>f DEF StatusCommand, At
  <2> QED
    BY <1>13, <2>1 DEF StatusCommand, Bystanding, central, ghosts
<1>14. CASE UNCHANGED vars
  BY <1>14 DEF vars, central, ghosts, Bystanding, Aside
<1> QED
  BY <1>1, <1>2, <1>3, <1>4, <1>5, <1>6, <1>7, <1>8, <1>9, <1>10, <1>11, <1>12, <1>13,
     <1>14 DEF Next, Queued, Step, Request, Operating

(* A session is opened only when none is open.                             *)
LEMMA OneOpenStep ==
  AgreementInv /\ OneIsOpen /\ [Next]_vars => OneIsOpen'
<1> SUFFICES ASSUME AgreementInv, OneIsOpen, [Next]_vars
             PROVE  OneIsOpen'
  OBVIOUS
<1>t. TypeOK /\ rows \in RowType
  BY DEF AgreementInv, TypeOK, RowsType
<1>a. ASSUME Open' \subseteq Open
      PROVE  OneIsOpen'
  BY <1>a DEF OneIsOpen
<1>b. ASSUME rows' = rows
      PROVE  OneIsOpen'
  BY <1>a, <1>b DEF Open
<1>1. ASSUME NEW p \in Procs, NEW t \in Tids, StartCall(p, t)
      PROVE  OneIsOpen'
  <2>1. Open' = Open \/ Open' = {t}
    BY <1>1, <1>t, StartCallFrame
  <2> QED
    BY <1>a, <2>1 DEF OneIsOpen
<1>2. ASSUME NEW p \in Procs, StopCall(p) \/ MeterCall(p)
      PROVE  OneIsOpen'
  <2>1. rows'.opened = rows.opened /\ rows.stopped \subseteq rows'.stopped
    BY <1>2, <1>t DEF StopCall, MeterCall, RowType
  <2> QED
    BY <1>a, <2>1 DEF Open
<1>3. ASSUME NEW p \in Procs,
             \/ Start(p) \/ Started(p) \/ Stop(p) \/ Stopped(p) \/ Target(p)
             \/ Meter(p) \/ Notify(p) \/ Noted(p)
      PROVE  OneIsOpen'
  BY <1>3, <1>b DEF Start, Started, Stop, Stopped, Target, Meter, Notify, Noted, central
<1>4. ASSUME Relaunch \/ Bystanding
      PROVE  OneIsOpen'
  BY <1>4, <1>b DEF Relaunch, Bystanding, central
<1>5. CASE Recovery
  <2>1. rows'.opened = rows.opened /\ rows.stopped \subseteq rows'.stopped
    BY <1>5, <1>t, RecoveryRows
  <2> QED
    BY <1>a, <2>1 DEF Open
<1> QED
  BY <1>1, <1>2, <1>3, <1>4, <1>5, <1>t, Bystanders DEF Operating

(* The holder of the lock alone moves the register, before its call.       *)
LEMMA RegisterStep ==
  AgreementInv /\ RegisterStands /\ [Next]_vars => RegisterStands'
<1> DEFINE Stands(q) ==
      /\ (Starting(q) /\ ~At(q, "started")) \/ At(q, "stopCall") =>
           task[q].reading = Truncated(sim.meter)
      /\ At(q, "meterCall") => task[q].reading = Rounded(sim.meter)
      /\ task[q].back = "startCall" => task[q].at \in {"notify", "noted"}
<1> SUFFICES ASSUME AgreementInv, RegisterStands, [Next]_vars, NEW q \in Procs
             PROVE  Stands(q)'
  BY DEF RegisterStands
<1> USE DEF Starting, At, InOperation
<1>t. /\ TypeOK /\ task \in [Procs -> [at : Places,
                   back : {"idle", "remote", "startCall", "boot", "ready"},
                   goal : Statuses, tx : 0..MaxTx, reading : Readings]]
      /\ SimType
      /\ \A p \in Procs : task[p].at \in InOperation \/ Starting(p) => opsMu = p
  BY DEF AgreementInv, TypeOK, TaskType, LockIsHeld
<1>s. \A p \in Procs : Stands(p)
  BY DEF RegisterStands
<1>m. ASSUME sim'.meter = sim.meter, task'[q] = task[q]
      PROVE  Stands(q)'
  BY <1>m, <1>s
<1>e. ASSUME sim'.meter = sim.meter, NEW p \in Procs, End(p)
      PROVE  Stands(q)'
  BY <1>e, <1>m, <1>s, <1>t DEF End, Idle
<1>1. ASSUME NEW p \in Procs, Start(p)
      PROVE  Stands(q)'
  <2>1. sim' = sim /\ task[p].at = "start"
    BY <1>1 DEF Start
  <2>2. \/ End(p)
        \/ task' = [task EXCEPT ![p] = [Setting("Occupied", "startCall")
                                        EXCEPT !.reading = Truncated(sim.meter)]]
        \/ task' = [task EXCEPT ![p] = [task[p] EXCEPT !.reading = Truncated(sim.meter),
                                        !.at = "startCall", !.back = "idle"]]
    BY <1>1 DEF Start
  <2>3. CASE End(p)
    BY <1>e, <2>1, <2>3
  <2>4. CASE task' = [task EXCEPT ![p] = [Setting("Occupied", "startCall")
                                          EXCEPT !.reading = Truncated(sim.meter)]]
    BY <1>m, <1>t, <2>1, <2>4 DEF Setting, Idle
  <2>5. CASE task' = [task EXCEPT ![p] = [task[p] EXCEPT !.reading = Truncated(sim.meter),
                                          !.at = "startCall", !.back = "idle"]]
    BY <1>m, <1>t, <2>1, <2>5
  <2> QED
    BY <2>2, <2>3, <2>4, <2>5
<1>2. ASSUME NEW p \in Procs, NEW t \in Tids, StartCall(p, t)
      PROVE  Stands(q)'
  <2>1. sim' = sim /\ task[p].at = "startCall"
    BY <1>2 DEF StartCall
  <2>2. task' = [task EXCEPT ![p].at = "started", ![p].tx = t] \/ End(p)
    BY <1>2 DEF StartCall
  <2> QED
    BY <1>e, <1>m, <1>s, <1>t, <2>1, <2>2
<1>3. ASSUME NEW p \in Procs, Started(p)
      PROVE  Stands(q)'
  <2>1. sim'.meter = sim.meter /\ task' = [task EXCEPT ![p] = Setting("Occupied", "idle")]
    BY <1>3, <1>t DEF Started, SimType
  <2> QED
    BY <1>m, <1>t, <2>1 DEF Setting, Idle
<1>4. ASSUME NEW p \in Procs, Stop(p)
      PROVE  Stands(q)'
  <2>1. sim' = sim /\ task[p].at = "stop"
    BY <1>4 DEF Stop
  <2>2. \/ End(p)
        \/ task' = [task EXCEPT ![p].at = "stopCall", ![p].tx = sim.transaction,
                                ![p].reading = Truncated(sim.meter)]
    BY <1>4 DEF Stop
  <2> QED
    BY <1>e, <1>m, <1>s, <1>t, <2>1, <2>2
<1>5. ASSUME NEW p \in Procs, StopCall(p)
      PROVE  Stands(q)'
  <2>1. sim' = sim /\ task[p].at = "stopCall"
    BY <1>5 DEF StopCall
  <2>2. task' = [task EXCEPT ![p].at = "stopped", ![p].reading = 0] \/ End(p)
    BY <1>5 DEF StopCall
  <2> QED
    BY <1>e, <1>m, <1>s, <1>t, <2>1, <2>2
<1>6. ASSUME NEW p \in Procs, Stopped(p)
      PROVE  Stands(q)'
  <2>1. /\ sim'.meter = sim.meter /\ task[p].at = "stopped"
        /\ task' = [task EXCEPT ![p].at = "target", ![p].tx = NoTx]
    BY <1>6, <1>t DEF Stopped, SimType
  <2> QED
    BY <1>m, <1>s, <1>t, <2>1
<1>7. ASSUME NEW p \in Procs, Target(p)
      PROVE  Stands(q)'
  <2>1. task[p].at = "target" /\ sim' = sim /\ task[p].back # "startCall"
    BY <1>7, <1>s DEF Target
  <2>2. \E s \in Statuses : task' = [task EXCEPT ![p] = Setting(s, task[p].back)]
    BY <1>7 DEF Target, SetStatus, Statuses
  <2> QED
    BY <1>m, <1>t, <2>1, <2>2 DEF Setting, Idle
<1>8. ASSUME NEW p \in Procs, Meter(p)
      PROVE  Stands(q)'
  <2>1. task[p].at = "meter" /\ opsMu = NoProc
    BY <1>8 DEF Meter
  <2>2. CASE sim' = sim /\ End(p)
    BY <1>e, <2>2
  <2>3. ASSUME NEW m \in sim.meter..MaxMeter, sim' = [sim EXCEPT !.meter = m],
               task' = [task EXCEPT ![p].at = "meterCall", ![p].tx = sim.transaction,
                                    ![p].reading = Rounded(m)]
        PROVE  Stands(q)'
    <3>1. sim'.meter = m
      BY <1>t, <2>3 DEF SimType
    <3>2. CASE q = p
      BY <1>s, <1>t, <2>1, <2>3, <3>1, <3>2
    <3>3. CASE q # p
      <4>1. task'[q] = task[q] /\ opsMu # q
        BY <1>t, <2>1, <2>3, <3>3
      <4> QED
        BY <1>s, <1>t, <4>1
    <3> QED
      BY <3>2, <3>3
  <2> QED
    BY <1>8, <2>2, <2>3 DEF Meter
<1>9. ASSUME NEW p \in Procs, MeterCall(p)
      PROVE  Stands(q)'
  BY <1>9, <1>e DEF MeterCall
<1>10. ASSUME NEW p \in Procs, Notify(p)
       PROVE  Stands(q)'
  <2>1. sim' = sim /\ task[p].at = "notify"
    BY <1>10, NotifyFrame
  <2>2. task' = [task EXCEPT ![p].at = "noted"] \/ End(p)
    BY <1>10, NotifyFrame
  <2> QED
    BY <1>e, <1>m, <1>s, <1>t, <2>1, <2>2
<1>11. ASSUME NEW p \in Procs, Noted(p)
       PROVE  Stands(q)'
  <2>1. sim'.meter = sim.meter /\ task[p].at = "noted"
    BY <1>11, <1>t DEF Noted, SimType
  <2>2. \/ End(p)
        \/ /\ task[p].back \in {"startCall", "boot"}
           /\ task' = [task EXCEPT ![p].at = task[p].back, ![p].back = "idle"]
    BY <1>11 DEF Noted
  <2> QED
    BY <1>e, <1>m, <1>s, <1>t, <2>1, <2>2
<1>12. CASE Relaunch
  BY <1>12 DEF Relaunch, NewTask, Idle
<1>13. CASE Recovery
  BY <1>13, <1>m, RecoveryFrame
<1>14. CASE Bystanding
  <2>1. sim'.meter = sim.meter /\ Aside(q)
    BY <1>14 DEF Bystanding
  <2>2. CASE task'[q] = task[q]
    BY <1>m, <2>1, <2>2
  <2>3. CASE task'[q] # task[q]
    <3>1. task'[q].at \notin InOperation \union {"noted"} /\ task'[q].back # "startCall"
      BY <1>s, <2>1, <2>3 DEF Aside
    <3> QED
      BY <3>1
  <2> QED
    BY <2>2, <2>3
<1> QED
  BY <1>1, <1>2, <1>3, <1>4, <1>5, <1>6, <1>7, <1>8, <1>9, <1>10, <1>11, <1>12, <1>13,
     <1>14, <1>t, Bystanders DEF Operating

(* The register sent truncated and rounded.                                *)
LEMMA RegisterOrder ==
  ASSUME NEW m \in Nat
  PROVE  /\ Truncated(m) \in Nat /\ Rounded(m) \in Nat
         /\ Truncated(m) <= Rounded(m) /\ Rounded(m) <= Truncated(m) + 1
         /\ \A n \in Nat : m <= n => Truncated(m) <= Truncated(n) /\ Rounded(m) <= Rounded(n)
  BY DEF Truncated, Rounded

(* Who waits for an answer alone runs a session that is not the charger's. *)
LEMMA AloneInCall ==
  ASSUME AgreementInv, NEW p \in Procs, task[p].at \in InOperation
  PROVE  \A q \in Procs \ {p} : task[q].at \notin InOperation
  BY DEF AgreementInv, LockIsHeld

(* A running session that no process has lost ran before, and the register *)
(* has not gone back since.                                                *)
LEMMA RunsOn ==
  ASSUME AgreementInv, [Next]_vars
  PROVE  /\ orphans \subseteq orphans'
         /\ \A t \in (1..rows.opened) \ orphans' :
              Running(t)' => Running(t) /\ sim.meter <= sim'.meter
<1> DEFINE Goes == /\ orphans \subseteq orphans'
                   /\ \A t \in (1..rows.opened) \ orphans' :
                        Running(t)' => Running(t) /\ sim.meter <= sim'.meter
<1>t. /\ TypeOK /\ task \in [Procs -> [at : Places,
                   back : {"idle", "remote", "startCall", "boot", "ready"},
                   goal : Statuses, tx : 0..MaxTx, reading : Readings]]
      /\ SimType /\ rows \in RowType /\ OperationsAreAlone /\ SessionsAgree
  BY DEF AgreementInv, TypeOK, TaskType, RowsType
<1>n. sim.meter \in Nat /\ rows.opened \in Nat
  BY <1>t DEF SimType, RowType
<1>s. ASSUME orphans' = orphans, sim'.meter = sim.meter,
             \A t \in 1..rows.opened : t = sim'.transaction => Running(t),
             \A q \in Procs : task'[q].at = "started" => task'[q] = task[q]
      PROVE  Goes
  BY <1>n, <1>s DEF Running, At
<1>1. ASSUME NEW p \in Procs, Start(p)
      PROVE  Goes
  <2>1. UNCHANGED <<sim, orphans>>
    BY <1>1 DEF Start, ghosts
  <2>2. task'[p].at # "started" /\ \A q \in Procs \ {p} : task'[q] = task[q]
    BY <1>1, <1>t, StartFrame DEF End, Idle
  <2> QED
    BY <1>s, <2>1, <2>2 DEF Running
<1>2. ASSUME NEW p \in Procs, NEW t \in Tids, StartCall(p, t)
      PROVE  Goes
  <2>1. /\ sim' = sim /\ task[p].at = "startCall" /\ sim.transaction = NoTx
        /\ orphans \subseteq orphans' /\ \A q \in Procs \ {p} : task[q].at # "started"
    BY <1>2, <1>t, StartCallFrame, AloneInCall
       DEF OperationsAreAlone, Starting, At, InOperation
  <2>2. task' = [task EXCEPT ![p].at = "started", ![p].tx = t] \/ task' = [task EXCEPT ![p] = Idle]
    BY <1>2 DEF StartCall, End
  <2>3. \A u \in Nat \ {0} : Running(u)' => u = t
    BY <1>t, <2>1, <2>2 DEF Running, At, NoTx, Idle
  <2>4. t \in 1..rows.opened => t \in orphans
    <3>1. t \in 1..rows.opened => t \in Open
      BY <1>2, <1>n DEF StartCall, Created, Retried
    <3>2. t # NoTx
      BY DEF Tids, NoTx
    <3> QED
      BY <1>t, <2>1, <3>1, <3>2 DEF SessionsAgree, At
  <2> QED
    BY <2>1, <2>3, <2>4
<1>3. ASSUME NEW p \in Procs, Started(p)
      PROVE  Goes
  <2>1. /\ orphans' = orphans /\ sim'.meter = sim.meter
        /\ sim'.transaction = task[p].tx /\ At(p, "started")
    BY <1>3, <1>t DEF Started, SimType, ghosts
  <2>2. \A q \in Procs : task'[q].at = "started" => task'[q] = task[q]
    BY <1>3, <1>t DEF Started, Setting, Idle
  <2> QED
    BY <1>s, <2>1, <2>2 DEF Running
<1>4. ASSUME NEW p \in Procs, Stop(p) \/ StopCall(p)
      PROVE  Goes
  <2>1. UNCHANGED <<sim, orphans>>
    BY <1>4 DEF Stop, StopCall, ghosts
  <2>2. \A q \in Procs : task'[q].at = "started" => task'[q] = task[q]
    BY <1>4, <1>t DEF Stop, StopCall, End, Idle
  <2> QED
    BY <1>s, <2>1, <2>2 DEF Running
<1>5. ASSUME NEW p \in Procs, Stopped(p)
      PROVE  Goes
  <2>1. orphans' = orphans /\ sim'.meter = sim.meter /\ sim'.transaction = 0
    BY <1>5, <1>t DEF Stopped, SimType, ghosts, NoTx
  <2>2. \A q \in Procs : task'[q].at = "started" => task'[q] = task[q]
    BY <1>5, <1>t DEF Stopped
  <2> QED
    BY <1>n, <1>s, <2>1, <2>2
<1>6. ASSUME NEW p \in Procs, Target(p) \/ Notify(p)
      PROVE  Goes
  <2>1. UNCHANGED <<sim, orphans>>
    BY <1>6 DEF Target, Notify, ghosts
  <2>2. \A q \in Procs : task'[q].at = "started" => task'[q] = task[q]
    <3>1. CASE Target(p)
      BY <1>t, <3>1 DEF Target, SetStatus, Setting, Idle
    <3>2. CASE Notify(p)
      BY <1>t, <3>2, NotifyFrame DEF End, Idle
    <3> QED
      BY <1>6, <3>1, <3>2
  <2> QED
    BY <1>s, <2>1, <2>2 DEF Running
<1>7. ASSUME NEW p \in Procs, Meter(p)
      PROVE  Goes
  <2>1. /\ orphans' = orphans /\ sim'.transaction = sim.transaction
        /\ sim.meter <= sim'.meter
    BY <1>7, <1>n, <1>t DEF Meter, SimType, ghosts
  <2>2. \A q \in Procs : task'[q].at = "started" => task'[q] = task[q]
    BY <1>7, <1>t DEF Meter, End, Idle
  <2> QED
    BY <2>1, <2>2 DEF Running, At
<1>8. ASSUME NEW p \in Procs, MeterCall(p) \/ Noted(p)
      PROVE  Goes
  <2>1. /\ orphans' = orphans /\ sim'.meter = sim.meter
        /\ sim'.transaction = sim.transaction
    BY <1>8, <1>t DEF MeterCall, Noted, SimType, ghosts
  <2>2. \A q \in Procs : task'[q].at = "started" => task'[q] = task[q]
    BY <1>8, <1>t DEF MeterCall, Noted, End, Idle
  <2> QED
    BY <1>s, <2>1, <2>2 DEF Running
<1>9. CASE Relaunch
  <2>1. /\ orphans \subseteq orphans' /\ sim'.transaction = 0
        /\ \A q \in Procs : task'[q].at # "started"
    BY <1>9 DEF Relaunch, NewSim, NewTask, Idle, NoTx
  <2> QED
    BY <1>n, <2>1 DEF Running, At
<1>10. CASE Recovery
  BY <1>10, <1>s, RecoveryFrame DEF Running
<1>11. CASE Bystanding
  <2>1. \A q \in Procs : task'[q].at = "started" => task'[q] = task[q]
    BY <1>11 DEF Bystanding, Aside, InOperation
  <2> QED
    BY <1>11, <1>s, <2>1 DEF Bystanding, Running
<1> QED
  BY <1>1, <1>2, <1>3, <1>4, <1>5, <1>6, <1>7, <1>8, <1>9, <1>10, <1>11, <1>t, Bystanders
     DEF Operating

(* The reading that a session started at is kept.                          *)
LEMMA StartIsKept ==
  TypeOK /\ [Next]_vars => \A t \in 1..rows.opened : rows'.startedAt[t] = rows.startedAt[t]
<1> DEFINE Kept == \A t \in 1..rows.opened : rows'.startedAt[t] = rows.startedAt[t]
<1> SUFFICES ASSUME TypeOK, [Next]_vars
             PROVE  Kept
  OBVIOUS
<1>t. rows \in RowType /\ rows.opened \in Nat /\ 1..rows.opened \subseteq Tids
  BY DEF TypeOK, RowsType, RowType, Tids
<1>1. ASSUME NEW p \in Procs, NEW t \in Tids, StartCall(p, t)
      PROVE  Kept
  <2>1. CASE Created(p, t)
    <3>1. t = rows.opened + 1
          /\ rows'.startedAt = [rows.startedAt EXCEPT ![t] = task[p].reading]
      BY <1>t, <2>1 DEF Created, RowType
    <3> QED
      BY <1>t, <3>1 DEF RowType
  <2> QED
    BY <1>1, <2>1 DEF StartCall, Retried
<1>2. ASSUME NEW p \in Procs, StopCall(p) \/ MeterCall(p)
      PROVE  Kept
  BY <1>2, <1>t DEF StopCall, MeterCall, RowType
<1>3. CASE Recovery
  BY <1>3, RecoveryRows
<1>4. ASSUME NEW p \in Procs,
             \/ Start(p) \/ Started(p) \/ Stop(p) \/ Stopped(p) \/ Target(p)
             \/ Meter(p) \/ Notify(p) \/ Noted(p)
      PROVE  rows' = rows
  BY <1>4 DEF Start, Started, Stop, Stopped, Target, Meter, Notify, Noted, central
<1>5. ASSUME Relaunch \/ Bystanding
      PROVE  rows' = rows
  BY <1>5 DEF Relaunch, Bystanding, central
<1> QED
  BY <1>1, <1>2, <1>3, <1>4, <1>5, Bystanders DEF Operating

(* A row takes a reading only from an operation under way.                 *)
LEMMA MetersStep ==
  AgreementInv /\ RegisterStands /\ MetersInOrder /\ RecoveredInOrder /\ [Next]_vars
    => MetersInOrder'
<1> SUFFICES ASSUME AgreementInv, RegisterStands, MetersInOrder, RecoveredInOrder,
                    [Next]_vars
             PROVE  MetersInOrder'
  OBVIOUS
<1>t. /\ TypeOK /\ task \in [Procs -> [at : Places,
                   back : {"idle", "remote", "startCall", "boot", "ready"},
                   goal : Statuses, tx : 0..MaxTx, reading : Readings]]
      /\ SimType /\ rows \in RowType /\ rows.stopped \subseteq 1..rows.opened
      /\ OperationsAreAlone
  BY DEF AgreementInv, TypeOK, TaskType, RowsType
<1>n. /\ rows.opened \in Nat /\ sim.meter \in Nat /\ Readings \subseteq Nat
      /\ 1..rows.opened \subseteq Tids
      /\ \A t \in Tids : rows.last[t] \in Nat /\ rows.startedAt[t] \in Nat
      /\ \A p \in Procs : task[p].reading \in Nat
  <2>1. /\ rows.opened \in 0..MaxTx /\ sim.meter \in 0..MaxMeter
        /\ rows.last \in [Tids -> Readings] /\ rows.startedAt \in [Tids -> Readings]
        /\ \A p \in Procs : task[p].reading \in Readings
    BY <1>t DEF RowType, SimType
  <2>2. 1..rows.opened \subseteq Tids
    BY <2>1 DEF Tids
  <2>3. \A t \in Tids : rows.last[t] \in Readings /\ rows.startedAt[t] \in Readings
    BY <2>1
  <2>4. Readings \subseteq Nat
    BY ReadingsTyped
  <2>5. rows.opened \in Nat /\ sim.meter \in Nat
    BY <2>1
  <2>6. \A t \in Tids : rows.last[t] \in Nat /\ rows.startedAt[t] \in Nat
    BY <2>3, <2>4
  <2>7. \A p \in Procs : task[p].reading \in Nat
    BY <2>1, <2>4
  <2> QED
    BY <2>2, <2>4, <2>5, <2>6, <2>7
<1>u. /\ orphans \subseteq orphans' /\ sim'.meter \in Nat
      /\ \A t \in (1..rows.opened) \ orphans' :
           Running(t)' => Running(t) /\ sim.meter <= sim'.meter
  BY <1>t, RunsOn, SimStep DEF SimType
<1>s. ASSUME rows' = rows
      PROVE  MetersInOrder'
  <2>1. ASSUME NEW t \in (1..rows.opened) \ orphans', Running(t)'
        PROVE  /\ rows.startedAt[t] <= Truncated(sim'.meter)
               /\ rows.last[t] <= Rounded(sim'.meter)
    <3>1. /\ t \in Tids /\ sim.meter <= sim'.meter
          /\ rows.startedAt[t] <= Truncated(sim.meter) /\ rows.last[t] <= Rounded(sim.meter)
      BY <1>n, <1>u, <2>1 DEF MetersInOrder
    <3>2. /\ Truncated(sim.meter) \in Nat /\ Rounded(sim.meter) \in Nat
          /\ Truncated(sim'.meter) \in Nat /\ Rounded(sim'.meter) \in Nat
          /\ Truncated(sim.meter) <= Truncated(sim'.meter)
          /\ Rounded(sim.meter) <= Rounded(sim'.meter)
      BY <1>n, <1>u, <3>1, RegisterOrder
    <3>3. rows.startedAt[t] \in Nat /\ rows.last[t] \in Nat
      BY <1>n, <3>1
    <3> QED
      BY <3>1, <3>2, <3>3
  <2>2. \A t \in (1..rows.opened) \ orphans' : rows.startedAt[t] <= rows.last[t]
    BY <1>u DEF MetersInOrder
  <2> QED
    BY <1>s, <2>1, <2>2 DEF MetersInOrder
<1>2. ASSUME NEW p \in Procs, NEW t \in Tids, StartCall(p, t)
      PROVE  MetersInOrder'
  <2>1. /\ sim' = sim /\ task[p].at = "startCall" /\ sim.transaction = NoTx
        /\ task[p].reading = Truncated(sim.meter) /\ orphans \subseteq orphans'
        /\ \A q \in Procs \ {p} : task[q].at # "started"
    BY <1>2, <1>t, StartCallFrame, AloneInCall
       DEF RegisterStands, OperationsAreAlone, Starting, At, InOperation
  <2>2. \A u \in Nat \ {0} : Running(u)' => u = t
    <3>0. task' = [task EXCEPT ![p].at = "started", ![p].tx = t] \/ task' = [task EXCEPT ![p] = Idle]
      BY <1>2 DEF StartCall, End
    <3>1. sim'.transaction = 0 /\ \A q \in Procs \ {p} : task'[q].at # "started"
      BY <1>t, <2>1, <3>0 DEF NoTx
    <3>2. task'[p].at = "started" => task'[p].tx = t
      BY <1>t, <3>0 DEF Idle
    <3> QED
      BY <3>1, <3>2 DEF Running, At
  <2>3. CASE Created(p, t)
    <3>1. /\ t = rows.opened + 1 /\ rows'.opened = t
          /\ rows'.startedAt = [rows.startedAt EXCEPT ![t] = task[p].reading]
          /\ rows'.last = [rows.last EXCEPT ![t] = task[p].reading]
      BY <1>t, <2>3 DEF Created, RowType
    <3>2. \A u \in Tids : u > t => rows'.last[u] = 0
      <4>1. \A u \in Tids : u > t => rows'.last[u] = rows.last[u] /\ u > rows.opened
        BY <1>n, <1>t, <3>1 DEF RowType, Tids
      <4> QED
        BY <4>1 DEF MetersInOrder
    <3>3. /\ rows'.startedAt[t] = Truncated(sim'.meter)
          /\ rows'.last[t] = Truncated(sim'.meter)
      BY <1>t, <2>1, <3>1 DEF RowType
    <3>4. ASSUME NEW u \in (1..rows'.opened) \ orphans', u # t
          PROVE  rows'.startedAt[u] <= rows'.last[u] /\ ~Running(u)'
      <4>1. u \in (1..rows.opened) \ orphans
        BY <1>n, <2>1, <3>1, <3>4
      <4>2. rows'.startedAt[u] = rows.startedAt[u] /\ rows'.last[u] = rows.last[u]
        BY <1>n, <1>t, <3>1, <3>4, <4>1 DEF RowType
      <4> QED
        BY <2>2, <3>4, <4>1, <4>2 DEF MetersInOrder
    <3>5. sim'.meter = sim.meter /\ Truncated(sim.meter) \in Nat
          /\ Truncated(sim.meter) <= Rounded(sim.meter) /\ Rounded(sim.meter) \in Nat
      BY <1>n, <2>1, RegisterOrder
    <3>6. ASSUME NEW u \in (1..rows'.opened) \ orphans'
          PROVE  /\ rows'.startedAt[u] <= rows'.last[u]
                 /\ Running(u)' => /\ rows'.startedAt[u] <= Truncated(sim'.meter)
                                   /\ rows'.last[u] <= Rounded(sim'.meter)
      <4>1. CASE u = t
        BY <3>3, <3>5, <4>1
      <4>2. CASE u # t
        BY <3>4, <4>2
      <4> QED
        BY <4>1, <4>2
    <3> QED
      BY <3>1, <3>2, <3>6 DEF MetersInOrder
  <2>4. CASE Retried(p, t)
    <3>1. rows' = rows /\ t \in Open
      BY <2>4 DEF Retried
    <3>2. t \in orphans
      <4>1. t # NoTx
        BY DEF Tids, NoTx
      <4>2. SessionsAgree
        BY DEF AgreementInv
      <4> QED
        BY <2>1, <3>1, <4>1, <4>2 DEF SessionsAgree, At
    <3>3. \A u \in 1..rows.opened : Running(u)' => u \in orphans
      BY <2>2, <3>2
    <3> QED
      BY <1>n, <2>1, <3>1, <3>3 DEF MetersInOrder
  <2> QED
    BY <1>2, <2>3, <2>4 DEF StartCall
<1>3. ASSUME NEW p \in Procs, StopCall(p)
      PROVE  MetersInOrder'
  <2> DEFINE t == task[p].tx
  <2>1. /\ sim' = sim /\ orphans' = orphans /\ task[p].at = "stopCall"
        /\ task[p].reading = Truncated(sim.meter)
        /\ t = sim.transaction /\ t # NoTx
    BY <1>3, <1>t DEF StopCall, RegisterStands, OperationsAreAlone, At
  <2>2. t \in 1..rows.opened
    BY <1>n, <1>t, <2>1 DEF SimType, NoTx
  <2>5. CASE t \in rows.stopped
    <3>1. rows' = rows
      BY <1>3, <2>5 DEF StopCall
    <3> QED
      BY <1>s, <3>1
  <2>6. CASE t \notin rows.stopped
    <3>1. /\ rows'.opened = rows.opened /\ rows'.startedAt = rows.startedAt
          /\ rows'.last = [rows.last EXCEPT ![t] = task[p].reading]
      BY <1>3, <1>t, <2>6 DEF StopCall, RowType
    <3>2. \A u \in Tids : u # t => rows'.last[u] = rows.last[u]
      BY <1>t, <3>1 DEF RowType
    <3>3. rows'.last[t] = Truncated(sim'.meter)
      BY <1>n, <1>t, <2>1, <2>2, <3>1 DEF RowType
    <3>4. t \notin orphans => rows.startedAt[t] <= Truncated(sim'.meter)
      BY <2>1, <2>2 DEF MetersInOrder, Running
    <3>5. \A u \in Tids : u > rows'.opened => rows'.last[u] = 0
      BY <1>n, <2>2, <3>1, <3>2 DEF MetersInOrder
    <3>6. ASSUME NEW u \in (1..rows'.opened) \ orphans'
          PROVE  /\ rows'.startedAt[u] <= rows'.last[u]
                 /\ Running(u)' => /\ rows'.startedAt[u] <= Truncated(sim'.meter)
                                   /\ rows'.last[u] <= Rounded(sim'.meter)
      <4>1. CASE u = t
        BY <1>n, <2>1, <3>1, <3>3, <3>4, <4>1, RegisterOrder
      <4>2. CASE u # t
        BY <1>n, <1>u, <2>1, <3>1, <3>2, <4>2 DEF MetersInOrder
      <4> QED
        BY <4>1, <4>2
    <3> QED
      BY <3>5, <3>6 DEF MetersInOrder
  <2> QED
    BY <2>5, <2>6
<1>4. ASSUME NEW p \in Procs, MeterCall(p)
      PROVE  MetersInOrder'
  <2> DEFINE t == task[p].tx
  <2>1. /\ sim' = sim /\ orphans' = orphans
        /\ task[p].reading = Rounded(sim.meter)
        /\ t = sim.transaction /\ t # NoTx
    BY <1>4, <1>t DEF MeterCall, RegisterStands, OperationsAreAlone, At
  <2>2. t \in 1..rows.opened
    BY <1>n, <1>t, <2>1 DEF SimType, NoTx
  <2>5. CASE rows' = rows
    BY <1>s, <2>5
  <2>6. CASE rows' = [rows EXCEPT !.last[t] = task[p].reading]
    <3>1. /\ rows'.opened = rows.opened /\ rows'.startedAt = rows.startedAt
          /\ rows'.last = [rows.last EXCEPT ![t] = task[p].reading]
      BY <1>t, <2>6 DEF RowType
    <3>2. \A u \in Tids : u # t => rows'.last[u] = rows.last[u]
      BY <1>t, <3>1 DEF RowType
    <3>3. rows'.last[t] = Rounded(sim'.meter)
      BY <1>n, <1>t, <2>1, <2>2, <3>1 DEF RowType
    <3>4. t \notin orphans =>
            /\ rows.startedAt[t] <= Truncated(sim'.meter)
            /\ rows.startedAt[t] <= Rounded(sim'.meter)
      <4>1. t \notin orphans => rows.startedAt[t] <= Truncated(sim.meter)
        BY <2>1, <2>2 DEF MetersInOrder, Running
      <4>2. /\ Truncated(sim.meter) \in Nat /\ Rounded(sim.meter) \in Nat
            /\ Truncated(sim.meter) <= Rounded(sim.meter)
        BY <1>n, RegisterOrder
      <4>3. rows.startedAt[t] \in Nat /\ sim' = sim
        BY <1>n, <2>1, <2>2
      <4> QED
        BY <4>1, <4>2, <4>3
    <3>5. \A u \in Tids : u > rows'.opened => rows'.last[u] = 0
      BY <1>n, <2>2, <3>1, <3>2 DEF MetersInOrder
    <3>6. ASSUME NEW u \in (1..rows'.opened) \ orphans'
          PROVE  /\ rows'.startedAt[u] <= rows'.last[u]
                 /\ Running(u)' => /\ rows'.startedAt[u] <= Truncated(sim'.meter)
                                   /\ rows'.last[u] <= Rounded(sim'.meter)
      <4>1. CASE u = t
        BY <1>n, <2>1, <3>1, <3>3, <3>4, <4>1, RegisterOrder
      <4>2. CASE u # t
        BY <1>n, <1>u, <2>1, <3>1, <3>2, <4>2 DEF MetersInOrder
      <4> QED
        BY <4>1, <4>2
    <3> QED
      BY <3>5, <3>6 DEF MetersInOrder
  <2> QED
    BY <1>4, <2>5, <2>6 DEF MeterCall
<1>5. CASE Recovery
  <2>1. UNCHANGED <<sim, task, orphans>>
    BY <1>5, RecoveryFrame
  <2>2. CASE Closes
    <3> DEFINE t == recovery.tx
    <3>1. /\ t \in 1..rows.opened /\ t \in Tids
          /\ rows'.opened = rows.opened /\ rows'.startedAt = rows.startedAt
          /\ rows'.last = [rows.last EXCEPT ![t] = recovery.reading]
      BY <1>t, <2>2, ClosedRow
    <3>2. /\ \A u \in Tids : u # t => rows'.last[u] = rows.last[u]
          /\ rows'.last[t] = recovery.reading
      BY <1>t, <3>1 DEF RowType
    <3>3. \A u \in 1..rows.opened : Running(u)' <=> Running(u)
      BY <2>1 DEF Running, At
    <3>4. t \notin orphans =>
            /\ rows.startedAt[t] <= rows'.last[t]
            /\ Running(t) => rows'.last[t] <= Rounded(sim.meter)
      BY <2>2, <3>2 DEF Closes, RecoveredInOrder
    <3>5. \A u \in Tids : u > rows'.opened => rows'.last[u] = 0
      BY <1>n, <3>1, <3>2 DEF MetersInOrder
    <3>6. ASSUME NEW u \in (1..rows'.opened) \ orphans'
          PROVE  /\ rows'.startedAt[u] <= rows'.last[u]
                 /\ Running(u)' => /\ rows'.startedAt[u] <= Truncated(sim'.meter)
                                   /\ rows'.last[u] <= Rounded(sim'.meter)
      <4>1. u \in (1..rows.opened) \ orphans /\ u \in Tids
        BY <1>n, <2>1, <3>1
      <4>2. CASE u = t
        BY <2>1, <3>1, <3>3, <3>4, <4>1, <4>2 DEF MetersInOrder
      <4>3. CASE u # t
        BY <2>1, <3>1, <3>2, <3>3, <4>1, <4>3 DEF MetersInOrder
      <4> QED
        BY <4>2, <4>3
    <3> QED
      BY <3>5, <3>6 DEF MetersInOrder
  <2> QED
    BY <1>5, <1>s, <2>2, RecoveryFrame
<1>6. ASSUME NEW p \in Procs,
             \/ Start(p) \/ Started(p) \/ Stop(p) \/ Stopped(p) \/ Target(p)
             \/ Meter(p) \/ Notify(p) \/ Noted(p)
      PROVE  rows' = rows
  BY <1>6 DEF Start, Started, Stop, Stopped, Target, Meter, Notify, Noted, central
<1>7. ASSUME Relaunch \/ Bystanding
      PROVE  rows' = rows
  BY <1>7 DEF Relaunch, Bystanding, central
<1> QED
  BY <1>s, <1>2, <1>3, <1>4, <1>5, <1>6, <1>7, <1>t, Bystanders DEF Operating

(* The reading that recovery holds stays between the one that the session  *)
(* started at and the register.                                            *)
LEMMA RecoveredStep ==
  AgreementInv /\ MetersInOrder /\ RecoveredInOrder /\ [Next]_vars => RecoveredInOrder'
<1> SUFFICES ASSUME AgreementInv, MetersInOrder, RecoveredInOrder, [Next]_vars,
                    (recovery.at # "none")', recovery'.tx \notin orphans'
             PROVE  /\ rows'.startedAt[recovery'.tx] <= recovery'.reading
                    /\ Running(recovery.tx)' => recovery'.reading <= Rounded(sim'.meter)
  BY DEF RecoveredInOrder
<1>t. /\ TypeOK /\ rows \in RowType /\ SimType /\ SimType' /\ RecoveryType /\ OperationsAreAlone
  BY SimStep DEF AgreementInv, TypeOK, RowsType
<1>1. CASE recovery' = recovery
  <2>1. recovery.tx \in (1..rows.opened) \ orphans'
    BY <1>t, <1>1 DEF RecoveryType, RowType, NoTx
  <2>2. PICK t \in (1..rows.opened) \ orphans' : t = recovery.tx
    BY <2>1
  <2>3. t \notin orphans /\ (Running(t)' => Running(t) /\ sim.meter <= sim'.meter)
    BY RunsOn
  <2>4. rows'.startedAt[t] = rows.startedAt[t]
    BY <1>t, StartIsKept
  <2>5. sim.meter \in Nat /\ sim'.meter \in Nat
    BY <1>t DEF SimType
  <2>6. recovery.reading \in Nat
    BY <1>t, ReadingsTyped DEF RecoveryType
  <2>7. /\ rows.startedAt[t] <= recovery.reading
        /\ Running(t) => recovery.reading <= Rounded(sim.meter)
    BY <1>1, <2>2, <2>3 DEF RecoveredInOrder
  <2>8. Running(t)' => recovery.reading <= Rounded(sim'.meter)
    <3>1. /\ Rounded(sim.meter) \in Nat /\ Rounded(sim'.meter) \in Nat
          /\ sim.meter <= sim'.meter => Rounded(sim.meter) <= Rounded(sim'.meter)
      BY <2>5, RegisterOrder
    <3> QED
      BY <2>3, <2>6, <2>7, <3>1
  <2>9. Running(recovery.tx)' <=> Running(t)'
    BY <1>1, <2>2 DEF Running
  <2> QED
    BY <1>1, <2>2, <2>4, <2>7, <2>8, <2>9
<1>2. CASE Recovery
  <2>1. /\ UNCHANGED <<sim, task, orphans>> /\ rows'.startedAt = rows.startedAt
    BY <1>2, <1>t, RecoveryFrame, RecoveryRows
  <2>2. \A t \in Nat : Running(t)' <=> Running(t)
    BY <2>1 DEF Running, At
  <2>3. ASSUME NEW t \in Tids, RecoveryPicks(t)
        PROVE  /\ rows'.startedAt[recovery'.tx] <= recovery'.reading
               /\ Running(recovery.tx)' => recovery'.reading <= Rounded(sim'.meter)
    <3>1. t \in (1..rows.opened) \ orphans /\ recovery'.tx = t /\ recovery'.reading = rows.last[t]
      BY <2>1, <2>3 DEF RecoveryPicks, Open
    <3> QED
      BY <2>1, <2>2, <3>1 DEF MetersInOrder
  <2>4. ASSUME Judge \/ ForceClose \/ RecoveryApplyStop \/ Hydrate \/ HydrateMeter
        PROVE  /\ rows'.startedAt[recovery'.tx] <= recovery'.reading
               /\ Running(recovery.tx)' => recovery'.reading <= Rounded(sim'.meter)
    <3>1. /\ recovery.at # "none" /\ recovery'.tx = recovery.tx
          /\ recovery'.reading = recovery.reading
      BY <1>t, <2>4 DEF Judge, ForceClose, RecoveryApplyStop, Hydrate, HydrateMeter,
         NoRecovery, RecoveryType
    <3>2. recovery.tx \in Nat
      BY <1>t DEF RecoveryType, RowType
    <3> QED
      BY <2>1, <2>2, <3>1, <3>2 DEF RecoveredInOrder
  <2> QED
    BY <1>2, <2>3, <2>4 DEF Recovery
<1> QED
  BY <1>1, <1>2, RecoveryKept

(* What the registry shows of the sessions.                                *)
LEMMA ShownStep ==
  AgreementInv /\ OneIsOpen /\ ShownIsKnown /\ [Next]_vars => ShownIsKnown'
<1> DEFINE Known ==
      /\ registry.tx \in {NoTx} \union Open \union orphans \union lost
      /\ registry.tx = NoTx =>
           /\ sim.transaction \in {NoTx} \union lost \/ \E p \in Procs : At(p, "stopped")
           /\ \A p \in Procs : At(p, "started") => task[p].tx \in lost
<1> SUFFICES ASSUME AgreementInv, OneIsOpen, ShownIsKnown, [Next]_vars, ~overtaken'
             PROVE  Known'
  BY DEF ShownIsKnown
<1>t. /\ TypeOK /\ task \in [Procs -> [at : Places,
                   back : {"idle", "remote", "startCall", "boot", "ready"},
                   goal : Statuses, tx : 0..MaxTx, reading : Readings]]
      /\ SimType /\ rows \in RowType /\ rows.stopped \subseteq 1..rows.opened
      /\ OperationsAreAlone /\ SessionsAgree
      /\ registry \in [status : Statuses \union {"Unknown"}, tx : 0..rows.opened]
  BY DEF AgreementInv, TypeOK, TaskType, RowsType
<1>w. ASSUME overtaken' = overtaken
      PROVE  Known
  BY <1>w DEF ShownIsKnown
<1>s. ASSUME registry'.tx = registry.tx, rows' = rows, orphans' = orphans, lost' = lost,
             overtaken' = overtaken, sim'.transaction = sim.transaction,
             \A q \in Procs : /\ task[q].at = "stopped" => task'[q] = task[q]
                              /\ task'[q].at = "started" => task'[q] = task[q]
      PROVE  Known'
  <2>1. Open' = Open
    BY <1>s DEF Open
  <2>2. (\E p \in Procs : At(p, "stopped")) => (\E p \in Procs : At(p, "stopped"))'
    BY <1>s DEF At
  <2>3. ASSUME registry.tx = NoTx, NEW p \in Procs, At(p, "started")'
        PROVE  task'[p].tx \in lost
    BY <1>s, <1>w, <2>3 DEF At
  <2> QED
    BY <1>s, <1>w, <2>1, <2>2, <2>3
<1>1. ASSUME NEW p \in Procs, Start(p)
      PROVE  Known'
  <2>1. UNCHANGED <<sim, central, ghosts>> /\ task[p].at = "start"
    BY <1>1, <1>t DEF Start, At
  <2>2. task'[p].at # "started" /\ \A q \in Procs \ {p} : task'[q] = task[q]
    BY <1>1, <1>t, StartFrame DEF End, Idle
  <2> QED
    BY <1>s, <2>1, <2>2 DEF central, ghosts
<1>2. ASSUME NEW p \in Procs, NEW t \in Tids, StartCall(p, t)
      PROVE  Known'
  <2>1. registry'.tx = t /\ t # NoTx
    BY <1>2 DEF StartCall, Tids, NoTx
  <2>2. t \in Open'
    BY <1>2, <1>t, StartCallFrame DEF Open
  <2> QED
    BY <2>1, <2>2
<1>3. ASSUME NEW p \in Procs, Started(p)
      PROVE  Known'
  <2>1. /\ UNCHANGED <<rows, registry, orphans, lost, overtaken>> /\ At(p, "started")
        /\ sim'.transaction = task[p].tx
        /\ \A q \in Procs : task'[q].at = "started" => task'[q] = task[q]
    BY <1>3, <1>t DEF Started, SimType, Setting, Idle, central, ghosts
  <2>2. Open' = Open
    BY <2>1 DEF Open
  <2> QED
    BY <1>w, <2>1, <2>2 DEF At
<1>4. ASSUME NEW p \in Procs, Stop(p)
      PROVE  Known'
  <2>1. /\ UNCHANGED <<sim, rows, registry, orphans, lost, overtaken>>
        /\ \A q \in Procs : /\ task[q].at = "stopped" => task'[q] = task[q]
                            /\ task'[q].at = "started" => task'[q] = task[q]
    BY <1>4, <1>t DEF Stop, End, Idle, At, central, ghosts
  <2> QED
    BY <1>s, <2>1
<1>5. ASSUME NEW p \in Procs, StopCall(p)
      PROVE  Known'
  <2>1. /\ sim' = sim /\ orphans' = orphans /\ task[p].at = "stopCall"
        /\ task[p].tx = sim.transaction /\ rows'.opened = rows.opened
        /\ rows'.stopped = rows.stopped \union {task[p].tx}
    BY <1>5, <1>t DEF StopCall, OperationsAreAlone, At, RowType
  <2>2. \A q \in Procs : ~At(q, "started")'
    <3>1. \A q \in Procs \ {p} : task[q].at # "started"
      BY <2>1, AloneInCall DEF InOperation
    <3> QED
      BY <1>5, <1>t, <3>1 DEF StopCall, End, Idle, At
  <2>3. Open' = Open \ {task[p].tx}
    BY <2>1 DEF Open
  <2>4. \/ registry'.tx = NoTx /\ At(p, "stopped")'
        \/ /\ lost' = lost \union {sim.transaction}
           /\ registry'.tx = NoTx \/ UNCHANGED <<registry, overtaken>>
    BY <1>5, <1>t, <2>1 DEF StopCall, At
  <2>5. CASE registry'.tx = NoTx /\ At(p, "stopped")'
    BY <2>2, <2>5
  <2>6. CASE lost' = lost \union {sim.transaction} /\ registry'.tx = NoTx
    BY <2>1, <2>2, <2>6
  <2>7. CASE lost' = lost \union {sim.transaction} /\ UNCHANGED <<registry, overtaken>>
    BY <1>w, <2>1, <2>2, <2>3, <2>7
  <2> QED
    BY <2>4, <2>5, <2>6, <2>7
<1>6. ASSUME NEW p \in Procs, Stopped(p)
      PROVE  Known'
  <2>1. /\ UNCHANGED <<rows, registry, orphans, lost, overtaken>> /\ sim'.transaction = NoTx
        /\ \A q \in Procs : task'[q].at = "started" => task'[q] = task[q]
    BY <1>6, <1>t DEF Stopped, SimType, central, ghosts
  <2>2. Open' = Open
    BY <2>1 DEF Open
  <2> QED
    BY <1>w, <2>1, <2>2 DEF At
<1>7. ASSUME NEW p \in Procs, Target(p)
      PROVE  Known'
  <2>1. /\ UNCHANGED <<sim, rows, registry, orphans, lost, overtaken>>
        /\ \A q \in Procs : /\ task[q].at = "stopped" => task'[q] = task[q]
                            /\ task'[q].at = "started" => task'[q] = task[q]
    BY <1>7, <1>t DEF Target, SetStatus, Setting, Idle, At, central, ghosts
  <2> QED
    BY <1>s, <2>1
<1>8. ASSUME NEW p \in Procs, Meter(p)
      PROVE  Known'
  <2>1. /\ UNCHANGED <<rows, registry, orphans, lost, overtaken>> /\ sim'.transaction = sim.transaction
        /\ \A q \in Procs : /\ task[q].at = "stopped" => task'[q] = task[q]
                            /\ task'[q].at = "started" => task'[q] = task[q]
    BY <1>8, <1>t DEF Meter, SimType, End, Idle, At, central, ghosts
  <2> QED
    BY <1>s, <2>1
<1>9. ASSUME NEW p \in Procs, MeterCall(p)
      PROVE  Known'
  <2>1. /\ UNCHANGED <<sim, orphans, lost>> /\ task[p].at = "meterCall"
        /\ registry'.tx = sim.transaction /\ sim.transaction # NoTx
        /\ rows'.opened = rows.opened /\ rows'.stopped = rows.stopped
    BY <1>9, <1>t DEF MeterCall, OperationsAreAlone, At, RowType, ghosts
  <2>2. Open' = Open
    BY <2>1 DEF Open
  <2>3. sim.transaction \in Open \union lost
    <3>1. sim.transaction \in 1..rows.opened
      BY <1>t, <2>1 DEF SimType, RowType, NoTx
    <3>2. \A q \in Procs : task[q].at # "stopped"
      BY <2>1, AloneInCall DEF InOperation
    <3> QED
      BY <1>t, <3>1, <3>2 DEF SessionsAgree, Open, At
  <2> QED
    BY <2>1, <2>2, <2>3
<1>10. ASSUME NEW p \in Procs, Notify(p)
       PROVE  Known'
  <2>1. UNCHANGED <<sim, rows, orphans, lost, overtaken>> /\ registry'.tx = registry.tx
        /\ task[p].at = "notify"
    BY <1>10, <1>t DEF Notify, At
  <2>2. \A q \in Procs : /\ task[q].at = "stopped" => task'[q] = task[q]
                         /\ task'[q].at = "started" => task'[q] = task[q]
    BY <1>10, <1>t, <2>1, NotifyFrame DEF End, Idle
  <2> QED
    BY <1>s, <2>1, <2>2
<1>11. ASSUME NEW p \in Procs, Noted(p)
       PROVE  Known'
  <2>1. /\ UNCHANGED <<rows, registry, orphans, lost, overtaken>> /\ sim'.transaction = sim.transaction
        /\ \A q \in Procs : /\ task[q].at = "stopped" => task'[q] = task[q]
                            /\ task'[q].at = "started" => task'[q] = task[q]
    BY <1>11, <1>t DEF Noted, SimType, End, Idle, At, central, ghosts
  <2> QED
    BY <1>s, <2>1
<1>12. CASE Relaunch
  <2>1. /\ UNCHANGED <<rows, registry, lost, overtaken>> /\ orphans' = orphans \union Open
        /\ sim'.transaction = NoTx /\ \A q \in Procs : task'[q].at # "started"
    BY <1>12 DEF Relaunch, NewSim, NewTask, Idle, central
  <2> QED
    BY <1>w, <2>1 DEF At
<1>13. CASE Recovery
  <2>1. UNCHANGED <<sim, task, orphans>>
    BY <1>13, RecoveryFrame
  <2>2. CASE UNCHANGED <<rows, registry, lost, overtaken>>
    BY <1>s, <2>1, <2>2
  <2>3. CASE Closes
    <3>1. Open' = Open \ {recovery.tx}
      BY <1>t, <2>3, ClosedRow DEF Open
    <3> QED
      BY <1>w, <2>1, <2>3, <3>1 DEF Closes, At
  <2>4. CASE RecoveryApplyStop
    <3>1. UNCHANGED <<rows, lost>> /\ registry'.tx = NoTx /\ Open = {}
      BY <2>4 DEF RecoveryApplyStop
    <3>2. sim.transaction \in {NoTx} \union rows.stopped
      BY <1>t, <3>1 DEF SimType, RowType, NoTx, Open
    <3>3. sim.transaction \in rows.stopped \ lost => \E p \in Procs : At(p, "stopped")
      BY <1>t DEF SessionsAgree
    <3>4. \A p \in Procs : At(p, "started") => task[p].tx \in lost
      BY <1>t, <3>1 DEF OperationsAreAlone, Open
    <3>5. sim'.transaction \in {NoTx} \union lost' \/ \E p \in Procs : At(p, "stopped")'
      BY <2>1, <3>1, <3>2, <3>3 DEF At
    <3>6. \A p \in Procs : At(p, "started")' => task'[p].tx \in lost'
      BY <2>1, <3>1, <3>4 DEF At
    <3> QED
      BY <3>1, <3>5, <3>6
  <2>5. CASE Hydrate \/ HydrateMeter
    <3>1. rows' = rows /\ registry'.tx = recovery.tx
      BY <1>t, <2>5 DEF Hydrate, HydrateMeter
    <3>2. recovery.tx \in Open
      BY <2>5, Zenon DEF Hydrate, HydrateMeter
    <3>3. Open' = Open /\ recovery.tx # NoTx
      BY <3>1, <3>2 DEF Open, NoTx
    <3> QED
      BY <3>1, <3>2, <3>3
  <2>6. ASSUME NEW t \in Tids, RecoveryPicks(t)
        PROVE  Known'
    BY <2>2, <2>6 DEF RecoveryPicks, ghosts
  <2>7. CASE Judge \/ ForceClose
    <3>1. UNCHANGED <<rows, registry, lost, overtaken>> \/ Closes
      BY <2>7 DEF Judge, ForceClose, Closes, ghosts
    <3> QED
      BY <2>2, <2>3, <3>1
  <2> QED
    BY <1>13, <2>4, <2>5, <2>6, <2>7 DEF Recovery
<1>14. CASE Bystanding
  <2>1. \A q \in Procs : /\ task[q].at = "stopped" => task'[q] = task[q]
                         /\ task'[q].at = "started" => task'[q] = task[q]
    BY <1>14 DEF Bystanding, Aside, InOperation
  <2> QED
    BY <1>14, <1>s, <2>1 DEF Bystanding
<1> QED
  BY <1>1, <1>2, <1>3, <1>4, <1>5, <1>6, <1>7, <1>8, <1>9, <1>10, <1>11, <1>12, <1>13,
     <1>14, <1>t, Bystanders DEF Operating

(* Where the status of the connector is settled.  A goroutine that is to   *)
(* send one makes up for whatever the registry shows.                      *)
LEMMA StatusStep ==
  AgreementInv /\ StatusIsUnderWay /\ [Next]_vars => StatusIsUnderWay'
<1> DEFINE ToSend == {"started", "stopped", "target", "notify"}
           Owes == \E p \in Procs : task[p].at \in ToSend
           Single == \A p, q \in Procs : At(p, "noted") /\ At(q, "noted") => p = q
           Sent == \E p \in Procs : At(p, "noted") /\ registry.status = task[p].goal
           Settled == /\ \A p \in Procs : ~At(p, "noted")
                      /\ registry.status \in {sim.status, "Unknown"}
<1> SUFFICES ASSUME AgreementInv, StatusIsUnderWay, [Next]_vars, ~muddled'
             PROVE  Single' /\ (Owes' \/ Sent' \/ Settled')
  BY DEF StatusIsUnderWay
<1> USE DEF At
<1>t. /\ TypeOK /\ task \in [Procs -> [at : Places,
                   back : {"idle", "remote", "startCall", "boot", "ready"},
                   goal : Statuses, tx : 0..MaxTx, reading : Readings]]
      /\ SimType
      /\ registry \in [status : Statuses \union {"Unknown"}, tx : 0..rows.opened]
  BY DEF AgreementInv, TypeOK, TaskType
<1>w. ~muddled => Single /\ (Owes \/ Sent \/ Settled)
  BY DEF StatusIsUnderWay
<1>a. ASSUME muddled => muddled',
             \A q \in Procs : task'[q].at = "noted" => task'[q] = task[q]
      PROVE  Single'
  BY <1>a, <1>w
<1>s. ASSUME muddled => muddled', registry'.status = registry.status, sim'.status = sim.status,
             \A q \in Procs : /\ (task[q].at = "noted" \/ task'[q].at = "noted") => task'[q] = task[q]
                              /\ task[q].at \in ToSend => task'[q].at \in ToSend
      PROVE  Single' /\ (Owes' \/ Sent' \/ Settled')
  <2>1. Single'
    BY <1>a, <1>s
  <2>2. Owes => Owes'
    BY <1>s
  <2>3. Sent => Sent'
    BY <1>s
  <2>4. Settled => Settled'
    BY <1>s
  <2> QED
    BY <1>s, <1>w, <2>1, <2>2, <2>3, <2>4
<1>1. ASSUME NEW p \in Procs, Start(p)
      PROVE  Single' /\ (Owes' \/ Sent' \/ Settled')
  <2>1. UNCHANGED <<sim, registry, muddled>> /\ task[p].at = "start"
    BY <1>1 DEF Start, central, ghosts
  <2>2. task'[p].at # "noted" /\ \A q \in Procs \ {p} : task'[q] = task[q]
    BY <1>1, <1>t, StartFrame DEF End, Idle
  <2> QED
    BY <1>s, <2>1, <2>2
<1>2. ASSUME NEW p \in Procs, NEW t \in Tids, StartCall(p, t)
      PROVE  Single' /\ (Owes' \/ Sent' \/ Settled')
  <2>1. muddled' = muddled /\ task' = [task EXCEPT ![p].at = "started", ![p].tx = t]
    BY <1>2 DEF StartCall
  <2>2. Owes' /\ \A q \in Procs : task'[q].at = "noted" => task'[q] = task[q]
    BY <1>t, <2>1
  <2> QED
    BY <1>a, <2>1, <2>2
<1>3. ASSUME NEW p \in Procs, Started(p)
      PROVE  Single' /\ (Owes' \/ Sent' \/ Settled')
  <2>1. muddled' = muddled /\ task' = [task EXCEPT ![p] = Setting("Occupied", "idle")]
    BY <1>3 DEF Started, ghosts
  <2>2. Owes' /\ \A q \in Procs : task'[q].at = "noted" => task'[q] = task[q]
    BY <1>t, <2>1 DEF Setting, Idle
  <2> QED
    BY <1>a, <2>1, <2>2
<1>4. ASSUME NEW p \in Procs, Stop(p)
      PROVE  Single' /\ (Owes' \/ Sent' \/ Settled')
  <2>1. UNCHANGED <<sim, registry, muddled>> /\ task[p].at = "stop"
    BY <1>4 DEF Stop, central, ghosts
  <2>2. task'[p].at # "noted" /\ \A q \in Procs \ {p} : task'[q] = task[q]
    BY <1>4, <1>t DEF Stop, End, Idle
  <2> QED
    BY <1>s, <2>1, <2>2
<1>5. ASSUME NEW p \in Procs, StopCall(p)
      PROVE  Single' /\ (Owes' \/ Sent' \/ Settled')
  <2>1. muddled' = muddled /\ task' = [task EXCEPT ![p].at = "stopped", ![p].reading = 0]
    BY <1>5 DEF StopCall
  <2>2. Owes' /\ \A q \in Procs : task'[q].at = "noted" => task'[q] = task[q]
    BY <1>t, <2>1
  <2> QED
    BY <1>a, <2>1, <2>2
<1>6. ASSUME NEW p \in Procs, Stopped(p)
      PROVE  Single' /\ (Owes' \/ Sent' \/ Settled')
  <2>1. muddled' = muddled /\ task' = [task EXCEPT ![p].at = "target", ![p].tx = NoTx]
    BY <1>6 DEF Stopped, ghosts
  <2>2. Owes' /\ \A q \in Procs : task'[q].at = "noted" => task'[q] = task[q]
    BY <1>t, <2>1
  <2> QED
    BY <1>a, <2>1, <2>2
<1>7. ASSUME NEW p \in Procs, Target(p)
      PROVE  Single' /\ (Owes' \/ Sent' \/ Settled')
  <2>1. muddled' = muddled
    BY <1>7 DEF Target, ghosts
  <2>2. \E s \in Statuses : task' = [task EXCEPT ![p] = Setting(s, task[p].back)]
    BY <1>7 DEF Target, SetStatus, Statuses
  <2>3. Owes' /\ \A q \in Procs : task'[q].at = "noted" => task'[q] = task[q]
    BY <1>t, <2>2 DEF Setting, Idle
  <2> QED
    BY <1>a, <2>1, <2>3
<1>8. ASSUME NEW p \in Procs, Meter(p)
      PROVE  Single' /\ (Owes' \/ Sent' \/ Settled')
  <2>1. UNCHANGED <<registry, muddled>> /\ sim'.status = sim.status /\ task[p].at = "meter"
    BY <1>8, <1>t DEF Meter, SimType, central, ghosts
  <2>2. task'[p].at # "noted" /\ \A q \in Procs \ {p} : task'[q] = task[q]
    BY <1>8, <1>t DEF Meter, End, Idle
  <2> QED
    BY <1>s, <2>1, <2>2
<1>9. ASSUME NEW p \in Procs, MeterCall(p)
      PROVE  Single' /\ (Owes' \/ Sent' \/ Settled')
  <2>1. /\ UNCHANGED <<sim, muddled>> /\ registry'.status = registry.status
        /\ task[p].at = "meterCall" /\ End(p)
    BY <1>9, <1>t DEF MeterCall
  <2>2. task'[p].at # "noted" /\ \A q \in Procs \ {p} : task'[q] = task[q]
    BY <1>t, <2>1 DEF End, Idle
  <2> QED
    BY <1>s, <2>1, <2>2
<1>10. ASSUME NEW p \in Procs, Notify(p)
       PROVE  Single' /\ (Owes' \/ Sent' \/ Settled')
  <2>1. /\ registry'.status = task[p].goal /\ task' = [task EXCEPT ![p].at = "noted"]
        /\ \A q \in Procs \ {p} : task[q].at # "noted"
    BY <1>10, <1>t DEF Notify, Goto
  <2>2. Sent'
    BY <1>t, <2>1
  <2> QED
    BY <1>t, <2>1, <2>2
<1>11. ASSUME NEW p \in Procs, Noted(p)
       PROVE  Single' /\ (Owes' \/ Sent' \/ Settled')
  <2>1. /\ UNCHANGED <<registry, muddled>> /\ sim'.status = task[p].goal
        /\ task[p].at = "noted"
    BY <1>11, <1>t DEF Noted, SimType, central, ghosts
  <2>2. task'[p].at # "noted" /\ \A q \in Procs \ {p} : task'[q] = task[q]
    BY <1>11, <1>t DEF Noted, End, Idle
  <2>3. Single /\ \A q \in Procs \ {p} : task[q].at # "noted"
    BY <1>w, <2>1
  <2>4. Owes => Owes'
    BY <2>1, <2>2
  <2>5. Sent => Settled'
    BY <2>1, <2>2, <2>3
  <2> QED
    BY <1>w, <2>1, <2>2, <2>3, <2>4, <2>5
<1>12. CASE Recovery
  <2>1. UNCHANGED <<sim, task>>
    BY <1>12, RecoveryFrame
  <2>2. ASSUME NEW t \in Tids, RecoveryPicks(t)
        PROVE  muddled' = muddled /\ registry'.status = registry.status
    BY <2>2 DEF RecoveryPicks, ghosts
  <2>3. ASSUME Judge \/ ForceClose \/ HydrateMeter
        PROVE  muddled' = muddled /\ registry'.status = registry.status
    BY <1>t, <2>3 DEF Judge, ForceClose, HydrateMeter, ghosts
  <2>4. ASSUME RecoveryApplyStop \/ Hydrate
        PROVE  ~muddled /\ registry'.status = registry.status
    <3>1. CASE RecoveryApplyStop
      <4>1. registry' = [status |-> "Available", tx |-> NoTx]
        BY <3>1 DEF RecoveryApplyStop
      <4>2. ~muddled /\ registry.status = "Available"
        BY <3>1, Zenon DEF RecoveryApplyStop
      <4> QED
        BY <4>1, <4>2
    <3>2. CASE Hydrate
      <4>1. registry' = [status |-> "Occupied", tx |-> recovery.tx]
        BY <3>2 DEF Hydrate
      <4>2. ~muddled /\ registry.status = "Occupied"
        BY <3>2, Zenon DEF Hydrate
      <4> QED
        BY <4>1, <4>2
    <3> QED
      BY <2>4, <3>1, <3>2
  <2> QED
    BY <1>12, <1>s, <2>1, <2>2, <2>3, <2>4 DEF Recovery
<1>13. CASE Bystanding
  <2>1. \A q \in Procs : /\ (task[q].at = "noted" \/ task'[q].at = "noted") => task'[q] = task[q]
                         /\ task[q].at \in ToSend => task'[q].at \in ToSend
    BY <1>13 DEF Bystanding, Aside, InOperation
  <2> QED
    BY <1>13, <1>s, <2>1 DEF Bystanding
<1>14. ~Relaunch
  BY DEF Relaunch
<1> QED
  BY <1>1, <1>2, <1>3, <1>4, <1>5, <1>6, <1>7, <1>8, <1>9, <1>10, <1>11, <1>12, <1>13,
     <1>14, <1>t, Bystanders DEF Operating

-----------------------------------------------------------------------------
(* ChargerInv is inductive.                                                *)
LEMMA Invariant == Spec => []ChargerInv
<1>1. Init => ChargerInv
  <2> SUFFICES ASSUME Init PROVE ChargerInv
    OBVIOUS
  <2>1. 0 \in Readings /\ 0 \in 0..MaxTx /\ 0 \in 0..0 /\ 0 \in 0..MaxFaults
    BY ReadingsTyped
  <2>2. Idle \in TaskType /\ [Idle EXCEPT !.at = "boot", !.back = "ready"] \in TaskType
    BY <2>1 DEF Idle, TaskType, Statuses, Places, NoTx
  <2>3. TypeOK
    <3>1. SimType /\ rows.opened = 0
      BY <2>1 DEF Init, NewSim, SimType, Statuses, NoTx
    <3>2. RowsType
      BY <2>1 DEF Init, RowsType, RowType
    <3>3. GhostType
      BY <2>1 DEF Init, GhostType
    <3>4. task \in [Procs -> TaskType]
      BY <2>2 DEF Init, NewTask
    <3>5. registry \in [status : Statuses \union {"Unknown"}, tx : 0..rows.opened]
      BY <2>1, <3>1 DEF Init, NoTx
    <3>6. RecoveryType
      BY <2>1, <3>1 DEF Init, NoRecovery, RecoveryType, NoTx
    <3> QED
      BY <3>1, <3>2, <3>3, <3>4, <3>5, <3>6 DEF TypeOK, Init
  <2>4. \A p \in Procs : task[p].at \in {"idle", "boot"}
    BY DEF Init, NewTask, Idle
  <2>5. LockIsHeld /\ OperationsAreAlone
    BY <2>4 DEF Init, LockIsHeld, OperationsAreAlone, Starting, At, InOperation
  <2>6. PendingIsCurrent /\ SessionsAgree
    BY DEF Init, NewSim, PendingIsCurrent, SessionsAgree, Open, NoTx
  <2>7. AgreementInv
    BY <2>3, <2>5, <2>6 DEF AgreementInv
  <2>8. OneIsOpen /\ MetersInOrder /\ RecoveredInOrder
    BY DEF Init, NoRecovery, OneIsOpen, MetersInOrder, RecoveredInOrder, Open
  <2>9. RegisterStands
    BY <2>4 DEF Init, NewTask, Idle, RegisterStands, Starting, At
  <2>10. ShownIsKnown /\ StatusIsUnderWay
    BY <2>4 DEF Init, NewSim, ShownIsKnown, StatusIsUnderWay, At
  <2> QED
    BY <2>7, <2>8, <2>9, <2>10 DEF ChargerInv
<1>2. AgreementInv /\ [Next]_vars => AgreementInv'
  BY TypeStep, LockStep, AloneStep, PendingStep, SessionsStep DEF AgreementInv
<1>3. ChargerInv /\ [Next]_vars => ChargerInv'
  BY <1>2, OneOpenStep, RegisterStep, MetersStep, RecoveredStep, ShownStep, StatusStep
     DEF ChargerInv
<1> QED
  BY <1>1, <1>3, PTL DEF Spec

(* The states are typed: no transaction is numbered that has no row, no    *)
(* reading is sent beyond the register.                                    *)
THEOREM TypeCorrect == Spec => []TypeOK
<1>1. ChargerInv => TypeOK
  BY DEF ChargerInv, AgreementInv
<1> QED
  BY Invariant, <1>1, PTL

(* An operation holds opsMu throughout and no goroutine returns with it    *)
(* (the deferred unlocks of startTransaction, sendMeter, stopTransaction). *)
THEOREM LockGivenBack == Spec => []LockIsGivenBack
<1>1. ChargerInv => LockIsGivenBack
  BY DEF ChargerInv, AgreementInv, LockIsHeld, LockIsGivenBack
<1> QED
  BY Invariant, <1>1, PTL

(* A pending remote command is for what the connector is doing             *)
(* (OnRemoteStartTransaction, startTransaction, stopTransaction).          *)
THEOREM PendingStaysCurrent == Spec => []PendingIsCurrent
<1>1. ChargerInv => PendingIsCurrent
  BY DEF ChargerInv, AgreementInv
<1> QED
  BY Invariant, <1>1, PTL

(* Charger and central system agree on the running session but for what    *)
(* was lost between them (startTransaction, stopTransaction).              *)
THEOREM SessionsStayAgreed == Spec => []SessionsAgree
<1>1. ChargerInv => SessionsAgree
  BY DEF ChargerInv, AgreementInv
<1> QED
  BY Invariant, <1>1, PTL

(* When nothing is under way the registry shows what the charger knows,    *)
(* but for statuses that crossed, sessions one side never heard of and     *)
(* what recovery has shown too late, which is made good by the next start, *)
(* reading or answered stop (setStatus, startTransaction, stopTransaction; *)
(* ApplyStatus, ApplyStartTransaction, ApplyStopTransaction; recovery.go). *)
THEOREM RegistryIsRight == Spec => []RegistryFollows
<1>1. ChargerInv => RegistryFollows
  <2> SUFFICES ASSUME ChargerInv, \A p \in Procs : At(p, "idle")
               PROVE  /\ muddled \/ registry.status \in {sim.status, "Unknown"}
                      /\ \/ overtaken \/ registry.tx = sim.transaction
                         \/ registry.tx \in orphans \union lost \/ sim.transaction \in lost
    BY DEF RegistryFollows
  <2>1. \A p \in Procs : /\ task[p].at \notin {"started", "stopped", "target", "notify"}
                         /\ ~At(p, "noted") /\ ~At(p, "started") /\ ~At(p, "stopped")
    BY DEF At
  <2>2. muddled \/ registry.status \in {sim.status, "Unknown"}
    BY <2>1 DEF ChargerInv, StatusIsUnderWay
  <2>3. \A t \in Open \ orphans : t = sim.transaction
    BY <2>1 DEF ChargerInv, AgreementInv, SessionsAgree
  <2>4. overtaken \/ (registry.tx = NoTx => sim.transaction \in {NoTx} \union lost)
    BY <2>1 DEF ChargerInv, ShownIsKnown
  <2>5. overtaken \/ registry.tx \in {NoTx} \union Open \union orphans \union lost
    BY DEF ChargerInv, ShownIsKnown
  <2> QED
    BY <2>2, <2>3, <2>4, <2>5
<1> QED
  BY Invariant, <1>1, PTL

(* No session is billed for a turn of the register that did not happen     *)
(* (DeltaWh, with startTransaction, sendMeter and stopTransaction).        *)
THEOREM NoTurnIsBilled == Spec => []BilledForward
<1>1. ChargerInv => BilledForward
  <2> SUFFICES ASSUME ChargerInv, NEW t \in (1..rows.opened) \ orphans
               PROVE  rows.startedAt[t] + Total(t) = rows.last[t]
    BY DEF BilledForward
  <2>1. rows.startedAt[t] <= rows.last[t]
    BY DEF ChargerInv, MetersInOrder
  <2>2. rows.startedAt[t] \in Readings /\ rows.last[t] \in Readings
    <3>1. rows \in RowType
      BY DEF ChargerInv, AgreementInv, TypeOK, RowsType
    <3>2. t \in Tids
      BY <3>1 DEF RowType, Tids
    <3> QED
      BY <3>1, <3>2 DEF RowType
  <2>3. rows.startedAt[t] \in Nat /\ rows.last[t] \in Nat
    BY <2>2 DEF Readings
  <2> QED
    BY <2>1, <2>3 DEF Total, DeltaWh
<1> QED
  BY Invariant, <1>1, PTL

(* What a register shows that counts n up to w - 1 and starts over (the    *)
(* premise of DeltaWh), and that it shows nothing else.                    *)
LEMMA Remainder ==
  ASSUME NEW w \in Nat, w > 0, NEW n \in Nat
  PROVE  n \div w \in Nat /\ n % w \in Nat /\ n % w < w /\ n = w * (n \div w) + (n % w)
  BY SMT

LEMMA RemainderIsUnique ==
  ASSUME NEW w \in Nat, w > 0, NEW n \in Nat, NEW k \in Nat, NEW r \in Nat,
         r < w, n = w * k + r
  PROVE  n % w = r
<1>1. /\ n \div w \in Nat /\ n % w \in Nat
      /\ n % w < w /\ n = w * (n \div w) + (n % w)
  BY Remainder
<1>2. ASSUME NEW i \in Nat, NEW j \in Nat, i < j
      PROVE  w * j >= w * i + w
  <2>1. PICK d \in Nat : j = i + 1 + d
    <3>1. j - (i + 1) \in Nat
      BY <1>2
    <3> QED
      BY <3>1
  <2>2. w * (i + 1 + d) = w * i + w + w * d /\ w * d \in Nat
    OBVIOUS
  <2> QED
    BY <2>1, <2>2
<1>3. CASE n \div w = k
  BY <1>1, <1>3
<1>4. CASE n \div w > k
  <2>1. w * (n \div w) >= w * k + w
    BY <1>1, <1>2, <1>4
  <2> QED
    BY <1>1, <2>1
<1>5. CASE n \div w < k
  <2>1. w * k >= w * (n \div w) + w
    BY <1>1, <1>2, <1>5
  <2> QED
    BY <1>1, <2>1
<1> QED
  BY <1>1, <1>3, <1>4, <1>5

(* DeltaWh measures what a register that counts in 32 bits has counted,    *)
(* across a turn too, as long as it is less than a whole turn: Rollover is *)
(* the largest reading, as in the code, not the number of readings.        *)
THEOREM DeltaAcrossTurn ==
  ASSUME NEW a \in Nat, NEW b \in Nat, a <= b, b - a <= Rollover
  PROVE  DeltaWh(a % (Rollover + 1), b % (Rollover + 1)) = b - a
<1> DEFINE w == Rollover + 1
           q == a \div w
           r == a % w
           c == r + (b - a)
<1>1. w \in Nat /\ w > 0 /\ Rollover = w - 1
  BY ChargerAssumption
<1>2. q \in Nat /\ r \in Nat /\ r < w /\ a = w * q + r
  BY <1>1, Remainder
<1>3. c \in Nat /\ b = w * q + c /\ w * q \in Nat
  BY <1>1, <1>2
<1>4. CASE c < w
  <2>1. b % w = c
    BY <1>1, <1>2, <1>3, <1>4, RemainderIsUnique
  <2> HIDE DEF w, r
  <2>2. DeltaWh(r, c) = b - a
    BY <1>2, <1>3 DEF DeltaWh
  <2> QED
    BY <2>1, <2>2 DEF w, r
<1>5. CASE c >= w
  <2>1. c - w \in Nat /\ c - w < w /\ c - w < r
    BY <1>1, <1>2, <1>3, <1>5
  <2>2. w * (q + 1) = w * q + w
    BY <1>1, <1>2
  <2>3. q + 1 \in Nat /\ b = w * (q + 1) + (c - w)
    BY <1>1, <1>2, <1>3, <2>2
  <2>4. b % w = c - w
    BY <1>1, <2>1, <2>3, RemainderIsUnique
  <2> HIDE DEF w, r
  <2>5. DeltaWh(r, c - w) = (c - w) + (Rollover - r) + 1
    BY <1>1, <1>2, <1>3, <2>1 DEF DeltaWh
  <2>6. (c - w) + (Rollover - r) + 1 = b - a
    BY <1>1, <1>2, <1>3
  <2> QED
    BY <2>4, <2>5, <2>6 DEF w, r
<1> QED
  BY <1>1, <1>3, <1>4, <1>5

(* The readings of a session ascend but for the rounding of its stop and   *)
(* for the reading, read earlier, with which recovery closes it, and none  *)
(* follows its stop, but for sessions one side never heard of (sendMeter   *)
(* and stopTransaction under opsMu; OnMeterValues; ForceCloseTransaction). *)
THEOREM ReadingsInOrder == Spec => ReadingsAscend
<1> DEFINE Ascends == \A t \in Tids : rows'.last[t] # rows.last[t] =>
       /\ \/ rows'.last[t] > rows.last[t] \/ t \in orphans
          \/ t \in rows'.stopped \ rows.stopped /\ rows'.last[t] = rows.last[t] - 1
          \/ t \in lost' \ lost /\ t = recovery.tx /\ rows'.last[t] = recovery.reading
       /\ t \in rows.stopped => t \in lost
<1>1. ChargerInv /\ [Next]_vars => [Ascends]_vars
  <2> SUFFICES ASSUME ChargerInv, [Next]_vars
               PROVE  Ascends
    OBVIOUS
  <2>t. /\ TypeOK /\ AgreementInv /\ SimType /\ rows \in RowType
        /\ rows.stopped \subseteq 1..rows.opened
        /\ OperationsAreAlone /\ SessionsAgree /\ MetersInOrder /\ RegisterStands
    BY DEF ChargerInv, AgreementInv, TypeOK, RowsType
  <2>n. \A t \in Tids : rows.last[t] \in Nat
    BY <2>t DEF RowType, Readings
  <2>m. /\ Truncated(sim.meter) \in Nat /\ Rounded(sim.meter) \in Nat
        /\ Rounded(sim.meter) <= Truncated(sim.meter) + 1
    <3>1. sim.meter \in Nat
      BY <2>t DEF SimType
    <3> QED
      BY <3>1, RegisterOrder
  <2>a. ASSUME rows'.last = rows.last
        PROVE  Ascends
    BY <2>a
  <2>1. ASSUME NEW p \in Procs, NEW t \in Tids, StartCall(p, t)
        PROVE  Ascends
    <3>1. CASE Created(p, t)
      <4>1. t = rows.opened + 1 /\ rows'.last = [rows.last EXCEPT ![t] = task[p].reading]
        BY <2>t, <3>1 DEF Created, RowType
      <4>2. task[p].reading \in Nat
        BY <2>1, <2>m, <2>t DEF StartCall, RegisterStands, Starting, At
      <4>3. rows.last[t] = 0 /\ t \notin rows.stopped
        BY <2>t, <4>1 DEF MetersInOrder, RowType
      <4>4. \A u \in Tids : u # t => rows'.last[u] = rows.last[u]
        BY <2>t, <4>1 DEF RowType
      <4>5. rows'.last[t] = task[p].reading
        BY <2>t, <4>1 DEF RowType
      <4> QED
        BY <4>2, <4>3, <4>4, <4>5
    <3>2. CASE Retried(p, t)
      BY <2>a, <3>2 DEF Retried
    <3> QED
      BY <2>1, <3>1, <3>2 DEF StartCall
  <2>2. ASSUME NEW p \in Procs, StopCall(p)
        PROVE  Ascends
    <3> DEFINE t == task[p].tx
    <3>1. /\ task[p].reading = Truncated(sim.meter)
          /\ t = sim.transaction /\ t # NoTx
      BY <2>2, <2>t DEF StopCall, RegisterStands, OperationsAreAlone, At
    <3>2. t \in 1..rows.opened /\ t \in Tids
      BY <2>t, <3>1 DEF SimType, RowType, NoTx, Tids
    <3>3. CASE t \in rows.stopped
      BY <2>2, <2>a, <3>3 DEF StopCall
    <3>4. CASE t \notin rows.stopped
      <4>1. /\ rows'.last = [rows.last EXCEPT ![t] = task[p].reading]
            /\ rows'.stopped = rows.stopped \union {t}
        BY <2>2, <2>t, <3>4 DEF StopCall, RowType
      <4>2. \A u \in Tids : u # t => rows'.last[u] = rows.last[u]
        BY <2>t, <4>1 DEF RowType
      <4>3. rows'.last[t] = Truncated(sim.meter)
        BY <2>t, <3>1, <3>2, <4>1 DEF RowType
      <4>4. t \notin orphans => rows.last[t] <= Rounded(sim.meter)
        BY <2>t, <3>1, <3>2 DEF MetersInOrder, Running
      <4>5. rows'.last[t] > rows.last[t] \/ rows'.last[t] = rows.last[t]
              \/ rows'.last[t] = rows.last[t] - 1 \/ t \in orphans
        BY <2>m, <2>n, <3>2, <4>3, <4>4
      <4> QED
        BY <3>4, <4>1, <4>2, <4>5
    <3> QED
      BY <3>3, <3>4
  <2>3. ASSUME NEW p \in Procs, MeterCall(p)
        PROVE  Ascends
    <3> DEFINE t == task[p].tx
    <3>1. /\ task[p].reading = Rounded(sim.meter) /\ task[p].at = "meterCall"
          /\ t = sim.transaction /\ t # NoTx
      BY <2>3, <2>t DEF MeterCall, RegisterStands, OperationsAreAlone, At
    <3>2. t \in 1..rows.opened /\ t \in Tids
      BY <2>t, <3>1 DEF SimType, RowType, NoTx, Tids
    <3>3. CASE rows' = rows
      BY <2>a, <3>3
    <3>4. CASE rows' = [rows EXCEPT !.last[t] = task[p].reading]
      <4>1. rows'.last = [rows.last EXCEPT ![t] = task[p].reading]
        BY <2>t, <3>4 DEF RowType
      <4>2. \A u \in Tids : u # t => rows'.last[u] = rows.last[u]
        BY <2>t, <4>1 DEF RowType
      <4>3. rows'.last[t] = Rounded(sim.meter)
        BY <2>t, <3>1, <3>2, <4>1 DEF RowType
      <4>4. t \notin orphans => rows.last[t] <= Rounded(sim.meter)
        BY <2>t, <3>1, <3>2 DEF MetersInOrder, Running
      <4>5. rows'.last[t] # rows.last[t] => rows'.last[t] > rows.last[t] \/ t \in orphans
        BY <2>m, <2>n, <3>2, <4>3, <4>4
      <4>6. t \in rows.stopped => t \in lost
        <5>1. \A q \in Procs : task[q].at # "stopped"
          BY <2>t, <3>1, AloneInCall DEF InOperation
        <5> QED
          BY <2>t, <3>1, <5>1 DEF SessionsAgree, At
      <4> QED
        BY <4>2, <4>5, <4>6
    <3> QED
      BY <2>3, <3>3, <3>4 DEF MeterCall
  <2>4. ASSUME NEW p \in Procs,
               \/ Start(p) \/ Started(p) \/ Stop(p) \/ Stopped(p) \/ Target(p)
               \/ Meter(p) \/ Notify(p) \/ Noted(p)
        PROVE  Ascends
    BY <2>4, <2>a DEF Start, Started, Stop, Stopped, Target, Meter, Notify, Noted, central
  <2>5. ASSUME Relaunch \/ Bystanding
        PROVE  Ascends
    BY <2>5, <2>a DEF Relaunch, Bystanding, central
  <2>6. CASE Recovery
    <3>1. CASE UNCHANGED <<rows, lost>>
      BY <2>a, <3>1
    <3>2. CASE Closes
      <4> DEFINE t == recovery.tx
      <4>1. /\ t \in Tids /\ t \notin rows.stopped
            /\ rows'.last = [rows.last EXCEPT ![t] = recovery.reading]
            /\ lost' = lost \union {t}
        BY <2>t, <3>2, ClosedRow DEF Closes
      <4>2. t \notin lost
        BY <2>t, <4>1 DEF TypeOK, GhostType
      <4>3. /\ \A u \in Tids : u # t => rows'.last[u] = rows.last[u]
            /\ rows'.last[t] = recovery.reading
        BY <2>t, <4>1 DEF RowType
      <4> QED
        BY <4>1, <4>2, <4>3
    <3> QED
      BY <2>6, <3>1, <3>2, RecoveryFrame
  <2> QED
    BY <2>1, <2>2, <2>3, <2>4, <2>5, <2>6, <2>t, Bystanders DEF Operating
<1> QED
  BY Invariant, <1>1, PTL DEF ReadingsAscend, Spec
=============================================================================
