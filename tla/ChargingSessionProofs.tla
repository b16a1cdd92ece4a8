------------------------- MODULE ChargingSessionProofs -------------------------
(***************************************************************************)
(* Proofs about ChargingSession and SessionReconciliation, for any number  *)
(* of connectors, cards, transactions, handlers and readings.              *)
(*                                                                         *)
(* TypeOK says more than types: KnownRows is the part of it the rest needs,*)
(* that a goroutine which works for a transaction works for one that has   *)
(* a row.  TablesKept is what every step does to the tables; the promises  *)
(* to the charger and to the CMS are carried over a step by it, and only   *)
(* the actions that add to a promise need an argument of their own.        *)
(***************************************************************************)
EXTENDS SessionReconciliation, TLAPS

USE SessionAssumption

(* The state of a service that has just started is well-typed.             *)
LEMMA TypeInit == Init => TypeOK
<1> SUFFICES ASSUME Init PROVE TypeOK
  OBVIOUS
<1> USE DEF Init
<1>1. TableType
  BY DEF TableType, Closed, NoRow
<1>2. RegistryType
  BY DEF RegistryType
<1>3. HandlerType
  BY DEF HandlerType, Places, Starting
<1>4. RecoveryType
  BY DEF RecoveryType, RecoveryPlaces
<1>5. ToldType
  BY DEF ToldType
<1>6. KnownRows
  BY DEF KnownRows, Working, RecoveryWorking
<1> QED
  BY <1>1, <1>2, <1>3, <1>4, <1>5, <1>6 DEF TypeOK

(* A handler that returns, or moves on with the request it has, keeps its  *)
(* type.                                                                   *)
LEMMA ReturnTypes ==
  ASSUME HandlerType, NEW h \in Handlers, Return(h)
  PROVE  HandlerType'
BY DEF HandlerType, Return, Places, Starting

(* A step of one handler keeps KnownRows if it deletes and reopens no row  *)
(* and the handler itself knows the row it goes on with.                   *)
LEMMA KnownRowsKept ==
  ASSUME KnownRows, NEW h \in Handlers,
         Created \subseteq Created', \A u \in Created : Closed(u) => Closed(u)',
         UNCHANGED <<registry, recovery, accepted>>,
         \A k \in Handlers \ {h} : pc'[k] = pc[k] /\ req'[k] = req[k],
         pc'[h] \in Working => req'[h].tx \in Created',
         pc'[h] \in {"queueStop", "applyStop"} => Closed(req[h].tx)',
         pc'[h] # "applyMeter"
  PROVE  KnownRows'
<1>1. /\ UNCHANGED <<registry, accepted>>
      /\ rpc' = rpc /\ todo' = todo /\ rtx' = rtx /\ rmeter' = rmeter
  BY DEF recovery
<1>2. \A k \in Handlers : pc'[k] \in Working => req'[k].tx \in Created'
  BY DEF KnownRows
<1>3. \A k \in Handlers : pc'[k] \in {"queueStop", "applyStop"} => Closed(req[k].tx)'
  BY DEF KnownRows, Working, Closed
<1>4. rpc' \in RecoveryWorking => rtx' \in Created' /\ rmeter' # NoValue
  BY <1>1 DEF KnownRows
<1>5. rpc' \in {"applyStop", "queueStop"} => Closed(rtx)'
  BY <1>1 DEF KnownRows, RecoveryWorking, RecoveryPlaces, Closed
<1>6. \A k \in Handlers : pc'[k] = "applyMeter" => req'[k].tx \in Created' \union {NoTx}
  BY DEF KnownRows
<1>7. /\ \A c \in Connectors : registry'[c].tx \in Created' \union {NoTx}
      /\ todo' \union accepted' \subseteq Created'
  BY <1>1 DEF KnownRows
<1> QED
  BY <1>2, <1>3, <1>4, <1>5, <1>6, <1>7 DEF KnownRows

(* So does one that goes to a place its request allows.                    *)
LEMMA GotoTypes ==
  ASSUME HandlerType, NEW h \in Handlers, pc[h] # "idle", UNCHANGED req,
         NEW p \in Places, Goto(h, p),
         p \in {"list", "create", "applyStart", "queueStart"} => Starting(h)
  PROVE  HandlerType'
BY DEF HandlerType, Goto, Starting

(* Every step keeps the types and the rows that are known.                 *)
LEMMA TypeStep == TypeOK /\ [Next]_vars => TypeOK'
<1> SUFFICES ASSUME TypeOK, [Next]_vars PROVE TypeOK'
  OBVIOUS
<1> USE DEF TypeOK, TableType, RegistryType, HandlerType, RecoveryType, ToldType,
            KnownRows, Places, RecoveryPlaces, Working, RecoveryWorking, Starting,
            Closed, Open, Created, OpenTids, Row, NoRow, Request, NoRequest, Receive,
            Return, Goto, Proceed, Continue, Finish, ApplyStart, ApplyMeter,
            ApplyStop, EnqueueStart, EnqueueCompleted, tables, handlers, recovery,
            told, ghosts
<1>1. ASSUME NEW h \in Handlers, NEW c \in Connectors, NEW g \in Tags, NEW m \in
             StartReadings, StartTransaction(h, c, g, m)
       PROVE  TypeOK'
  BY <1>1 DEF StartTransaction
<1>2. ASSUME NEW h \in Handlers, ListOpen(h)
       PROVE  TypeOK'
  <2>1. pc[h] = "list" /\ UNCHANGED <<tables, registry, recovery, told, ghosts>>
    BY <1>2 DEF ListOpen
  <2>2. CASE Goto(h, "create") /\ UNCHANGED req
    BY <2>1, <2>2
  <2>3. CASE Return(h)
    BY <2>1, <2>3
  <2>4. ASSUME NEW t \in OpenTids, req' = [req EXCEPT ![h].tx = t],
               Goto(h, "applyStart")
        PROVE  TypeOK'
    <3>1. t \in Created /\ req[h] \in Request
      BY <2>1, <2>4
    <3>2. req'[h] \in Request /\ req'[h].tx = t /\ req'[h].tag = req[h].tag
          /\ req'[h].meter = req[h].meter
      BY <2>4, <3>1
    <3>3. HandlerType'
      BY <2>1, <2>4, <3>2
    <3>4. KnownRows'
      BY <2>1, <2>4, <3>1, <3>2
    <3> QED
      BY <2>1, <3>3, <3>4
  <2> QED
    BY <1>2, <2>2, <2>3, <2>4 DEF ListOpen
<1>3. ASSUME NEW h \in Handlers, Create(h)
       PROVE  TypeOK'
  <2> PICK t \in Tids :
        /\ tx[t] = NoRow
        /\ tx' = [tx EXCEPT ![t] = [state |-> "open", conn |-> req[h].conn,
                     tag |-> req[h].tag, start |-> req[h].meter, stop |-> NoValue]]
        /\ \/ req' = [req EXCEPT ![h].tx = t] /\ Goto(h, "applyStart")
           \/ Return(h)
    BY <1>3 DEF Create
  <2> DEFINE new == [state |-> "open", conn |-> req[h].conn, tag |-> req[h].tag,
                     start |-> req[h].meter, stop |-> NoValue]
  <2>1. pc[h] = "create" /\ UNCHANGED <<queued, billed, registry, recovery, told,
     ghosts>>
    BY <1>3 DEF Create
  <2>2. req[h] \in Request /\ req[h].tag \in Tags /\ req[h].meter \in StartReadings
    BY <2>1
  <2>3. new \in Row
    BY <2>2
  <2>4. /\ tx' \in [Tids -> Row \union {NoRow}]
        /\ tx'[t] = new
        /\ \A u \in Tids \ {t} : tx'[u] = tx[u]
    BY <2>3 DEF TypeOK
  <2>5. Created' = Created \union {t}
    BY <2>4
  <2>6. \A u \in Tids : Closed(u) <=> Closed(u)'
    BY <2>4
  <2>7. TableType'
    BY <2>1, <2>4, <2>6
  <2>8. /\ pc' \in [Handlers -> Places] /\ pc'[h] \in {"idle", "applyStart"}
        /\ \A k \in Handlers \ {h} : pc'[k] = pc[k] /\ req'[k] = req[k]
        /\ req'[h] \in Request \union {NoRequest}
        /\ req' \in [Handlers -> Request \union {NoRequest}]
        /\ pc'[h] = "applyStart" => /\ req'[h] \in Request
                                   /\ req'[h].tx = t
                                   /\ req'[h].tag = req[h].tag
                                   /\ req'[h].meter = req[h].meter
    BY <2>1, <2>2
  <2>9. HandlerType'
    BY <2>2, <2>8
  <2>10. KnownRows'
    <3>1. UNCHANGED <<registry, recovery, accepted>> /\ pc'[h] # "applyMeter"
      BY <2>1, <2>8
    <3>2. pc'[h] \in Working => req'[h].tx \in Created'
      BY <2>5, <2>8
    <3>3. /\ KnownRows /\ pc'[h] \notin {"queueStop", "applyStop"}
          /\ \A u \in Created : Closed(u) => Closed(u)'
      BY <2>6, <2>8
    <3> QED
      BY <2>5, <2>8, <3>1, <3>2, <3>3, KnownRowsKept
  <2> QED
    BY <2>1, <2>7, <2>9, <2>10
<1>4. ASSUME NEW h \in Handlers, StartApply(h)
       PROVE  TypeOK'
  BY <1>4 DEF StartApply
<1>5. ASSUME NEW h \in Handlers, StartQueue(h)
       PROVE  TypeOK'
  BY <1>5 DEF StartQueue
<1>6. ASSUME NEW h \in Handlers, NEW t \in Tids \union {NoTx}, NEW c \in Connectors,
             NEW m \in Readings, MeterValues(h, t, c, m)
       PROVE  TypeOK'
  BY <1>6 DEF MeterValues
<1>7. ASSUME NEW h \in Handlers, Resolve(h)
       PROVE  TypeOK'
  BY <1>7 DEF Resolve
<1>8. ASSUME NEW h \in Handlers, MeterApply(h)
       PROVE  TypeOK'
  <2>1. /\ pc[h] = "applyMeter" /\ UNCHANGED <<tables, recovery, told, ghosts>>
        /\ ApplyMeter(req[h].conn, req[h].tx)
        /\ \/ req[h].tx = NoTx /\ Return(h)
           \/ req[h].tx # NoTx /\ Goto(h, "updateMeter") /\ UNCHANGED req
    BY <1>8 DEF MeterApply
  <2>2. req[h] \in Request /\ req[h].tx \in Created \union {NoTx}
    BY <2>1
  <2>3. RegistryType' /\ \A c \in Connectors : registry'[c].tx \in Created \union {NoTx}
    <3> DEFINE c0 == req[h].conn
    <3>1. c0 \in Connectors /\ registry[c0] \in [status : {"Available", "Busy"}, tx :
      Tids \union {NoTx}]
      BY <2>2
    <3>2. \A c \in Connectors \ {c0} : registry'[c] = registry[c]
      BY <2>1
    <3>3. /\ registry'[c0] \in [status : {"Available", "Busy"}, tx : Tids \union {NoTx}]
          /\ registry'[c0].tx \in Created \union {NoTx}
      BY <2>1, <2>2, <3>1
    <3> QED
      BY <2>1, <3>1, <3>2, <3>3
  <2>4. HandlerType'
    BY <2>1, ReturnTypes, GotoTypes
  <2>5. KnownRows'
    BY <2>1, <2>2, <2>3
  <2> QED
    BY <2>1, <2>3, <2>4, <2>5
<1>9. ASSUME NEW h \in Handlers, UpdateLiveMeter(h)
       PROVE  TypeOK'
  <2> DEFINE t == req[h].tx
  <2>1. /\ pc[h] = "updateMeter"
        /\ tx' = [tx EXCEPT ![t].stop = req[h].meter]
        /\ late' = IF Closed(t) THEN late \union {t} ELSE late
        /\ Return(h)
        /\ UNCHANGED <<queued, billed, registry, recovery, told, overlapped, raced>>
    BY <1>9 DEF UpdateLiveMeter
  <2>2. t \in Created /\ req[h].meter \in Readings
    BY <2>1
  <2>3. tx[t] \in Row
    BY <2>2
  <2>4. /\ tx' \in [Tids -> Row \union {NoRow}]
        /\ tx'[t] \in Row /\ tx'[t].state = tx[t].state /\ tx'[t].stop = req[h].meter
        /\ \A u \in Tids \ {t} : tx'[u] = tx[u]
    BY <2>1, <2>2, <2>3
  <2>5. Created' = Created /\ \A u \in Tids : Closed(u) <=> Closed(u)'
    BY <2>2, <2>3, <2>4
  <2>6. TableType'
    BY <2>1, <2>2, <2>4, <2>5
  <2>7. HandlerType'
    BY <2>1
  <2>8. KnownRows'
    BY <2>1, <2>5
  <2> QED
    BY <2>1, <2>2, <2>6, <2>7, <2>8
<1>10. ASSUME NEW h \in Handlers, NEW t \in Tids, NEW m \in Readings,
              StopTransaction(h, t, m)
       PROVE  TypeOK'
  BY <1>10 DEF StopTransaction
<1>11. ASSUME NEW h \in Handlers, StopRow(h)
       PROVE  TypeOK'
  <2> DEFINE t == req[h].tx
  <2>1. /\ pc[h] = "stop"
        /\ \/ /\ Open(t)
              /\ tx' = [tx EXCEPT ![t].state = "closed", ![t].stop = req[h].meter]
              /\ UNCHANGED req
           \/ /\ ~Open(t)
              /\ req' = [req EXCEPT ![h].meter = tx[t].stop]
              /\ UNCHANGED tx
        /\ Goto(h, "queueStop")
        /\ UNCHANGED <<queued, billed, registry, recovery, told, ghosts>>
    BY <1>11 DEF StopRow
  <2>2. t \in Created /\ req[h] \in Request
    BY <2>1
  <2>3. tx[t] \in Row
    BY <2>2
  <2>4. CASE Open(t)
    <3>1. /\ tx' \in [Tids -> Row \union {NoRow}]
          /\ tx'[t] \in Row /\ tx'[t].state = "closed" /\ tx'[t].stop = req[h].meter
          /\ \A u \in Tids \ {t} : tx'[u] = tx[u]
      <4>1. tx' = [tx EXCEPT ![t] = [@ EXCEPT !.state = "closed", !.stop =
         req[h].meter]]
        BY <2>1, <2>2, <2>4
      <4>2. [tx[t] EXCEPT !.state = "closed", !.stop = req[h].meter] \in Row
        BY <2>2, <2>3
      <4> QED
        BY <2>2, <2>3, <4>1, <4>2
    <3>2. Created' = Created /\ \A u \in Tids : Closed(u) => Closed(u)'
      BY <2>2, <2>3, <3>1
    <3>3. TableType'
      BY <2>1, <2>2, <2>4, <3>1
    <3>4. HandlerType' /\ req' = req
      BY <2>1, <2>2, <2>4
    <3>5. KnownRows'
      <4>1. /\ UNCHANGED <<registry, recovery, accepted>> /\ pc'[h] = "queueStop"
            /\ \A k \in Handlers \ {h} : pc'[k] = pc[k] /\ req'[k] = req[k]
        BY <2>1, <3>4
      <4>2. req'[h].tx \in Created' /\ Closed(req[h].tx)'
        BY <2>2, <3>1, <3>2, <3>4
      <4>3. KnownRows /\ \A u \in Created : Closed(u) => Closed(u)'
        BY <3>2
      <4> QED
        BY <3>2, <4>1, <4>2, <4>3, KnownRowsKept
    <3> QED
      BY <2>1, <3>3, <3>4, <3>5
  <2>5. CASE ~Open(t)
    <3>1. Closed(t) /\ tx[t].stop \in Readings
      BY <2>2, <2>3, <2>5
    <3>2. tx' = tx /\ HandlerType'
      <4>1. /\ req' \in [Handlers -> Request \union {NoRequest}] /\ req'[h] \in Request
            /\ \A k \in Handlers \ {h} : req'[k] = req[k]
        <5>1. req' = [req EXCEPT ![h] = [@ EXCEPT !.meter = tx[t].stop]]
          BY <2>1, <2>5
        <5>2. [req[h] EXCEPT !.meter = tx[t].stop] \in Request
          BY <2>2, <3>1
        <5> QED
          BY <5>1, <5>2
      <4>2. /\ pc' \in [Handlers -> Places] /\ pc'[h] = "queueStop"
            /\ \A k \in Handlers \ {h} : pc'[k] = pc[k]
        BY <2>1
      <4> QED
        BY <2>1, <2>5, <4>1, <4>2
    <3>3. \A k \in Handlers : req'[k].tx = req[k].tx
      BY <2>1, <2>2, <2>5
    <3>4. KnownRows'
      BY <2>1, <2>2, <3>1, <3>2, <3>3
    <3> QED
      BY <2>1, <3>2, <3>4
  <2> QED
    BY <2>4, <2>5
<1>12. ASSUME NEW h \in Handlers, StopQueue(h)
       PROVE  TypeOK'
  <2>1. /\ pc[h] = "queueStop" /\ EnqueueCompleted(req[h].tx, req[h].meter)
        /\ \/ Goto(h, "applyStop") /\ UNCHANGED req
           \/ Return(h)
        /\ UNCHANGED <<tx, queued, registry, recovery, told, ghosts>>
    BY <1>12 DEF StopQueue
  <2>2. req[h].tx \in Created /\ req[h].meter \in Readings
    BY <2>1
  <2>3. TableType'
    BY <2>1, <2>2
  <2>4. HandlerType'
    BY <2>1, ReturnTypes, GotoTypes
  <2>5. KnownRows'
    BY <2>1
  <2> QED
    BY <2>1, <2>3, <2>4, <2>5
<1>13. ASSUME NEW h \in Handlers, StopApply(h)
       PROVE  TypeOK'
  BY <1>13 DEF StopApply
<1>14. ASSUME NEW h \in Handlers, GiveUp(h)
       PROVE  TypeOK'
  BY <1>14 DEF GiveUp
<1>15. ASSUME NEW c \in Connectors, NEW s \in {"Available", "Busy"},
              StatusNotification(c, s)
       PROVE  TypeOK'
  BY <1>15 DEF StatusNotification
<1>16. ASSUME Boot
       PROVE  TypeOK'
  BY <1>16 DEF Boot
<1>17. ASSUME Snapshot
       PROVE  TypeOK'
  BY <1>17 DEF Snapshot
<1>18. ASSUME Wake
       PROVE  TypeOK'
  BY <1>18 DEF Wake
<1>19. ASSUME Pick
       PROVE  TypeOK'
  BY <1>19 DEF Pick
<1>20. ASSUME Judge
       PROVE  TypeOK'
  BY <1>20 DEF Judge
<1>21. ASSUME ForceClose
       PROVE  TypeOK'
  BY <1>21 DEF ForceClose
<1>22. ASSUME RecoveryApplyStop
       PROVE  TypeOK'
  <2>1. /\ rpc = "applyStop" /\ ApplyStop(tx[rtx].conn) /\ Proceed("queueStop")
        /\ UNCHANGED <<tables, handlers, told, ghosts>>
    BY <1>22 DEF RecoveryApplyStop
  <2>2. KnownRows'
    BY <2>1
  <2> QED
    BY <2>1, <2>2
<1>23. ASSUME RecoveryQueueStop
       PROVE  TypeOK'
  BY <1>23 DEF RecoveryQueueStop
<1>24. ASSUME Hydrate
       PROVE  TypeOK'
  BY <1>24 DEF Hydrate
<1>25. ASSUME HydrateMeter
       PROVE  TypeOK'
  BY <1>25 DEF HydrateMeter
<1>26. ASSUME RemoteStop
       PROVE  TypeOK'
  BY <1>26 DEF RemoteStop
<1>27. ASSUME Unlock
       PROVE  TypeOK'
  BY <1>27 DEF Unlock
<1>28. ASSUME Deadline
       PROVE  TypeOK'
  BY <1>28 DEF Deadline
<1>29. ASSUME Restart
       PROVE  TypeOK'
  BY <1>29 DEF Restart
<1>30. CASE UNCHANGED vars
  BY <1>30 DEF vars, tables, handlers, recovery, told, ghosts
<1> HIDE DEF TypeOK, Receive, Return, Goto, Proceed, Continue, Finish, Request, Row
<1> QED
  BY <1>1, <1>2, <1>3, <1>4, <1>5, <1>6, <1>7, <1>8, <1>9, <1>10, <1>11, <1>12, <1>13,
     <1>14, <1>15, <1>16, <1>17, <1>18, <1>19, <1>20, <1>21, <1>22, <1>23, <1>24,
     <1>25, <1>26, <1>27, <1>28, <1>29, <1>30
     DEF Next, ChargerStep, HandlerStep, RecoveryStep

(* Every handler and the recovery work for transactions that have a row,   *)
(* and a closed row has its final reading.                                 *)
THEOREM TypeCorrect == Spec => []TypeOK
  BY TypeInit, TypeStep, PTL DEF Spec

-----------------------------------------------------------------------------
(* The tables: a row keeps its identity and stays closed, its reading      *)
(* changes after that only under a late meter value, and an outbox row     *)
(* keeps its payload.                                                      *)
RowKept(t) ==
  /\ billed[t] # NoValue => billed'[t] = billed[t]
  /\ Closed(t) => Closed(t)'
  /\ tx[t] # NoRow => /\ tx'[t] # NoRow
                      /\ tx'[t].conn = tx[t].conn
                      /\ tx'[t].tag = tx[t].tag
                      /\ tx'[t].start = tx[t].start
  /\ Closed(t) /\ t \notin late' => tx'[t].stop = tx[t].stop

TablesKept ==
  /\ \A t \in Tids : RowKept(t)
  /\ queued \subseteq queued' /\ late \subseteq late' /\ raced \subseteq raced'

(* No step breaks it.                                                      *)
LEMMA TablesStep == TypeOK /\ [Next]_vars => TablesKept
<1> SUFFICES ASSUME TypeOK, [Next]_vars PROVE TablesKept
  OBVIOUS
<1> USE DEF TablesKept, RowKept, Closed, Open, tables, ghosts
<1>1. ASSUME NEW h \in Handlers, NEW c \in Connectors, NEW g \in Tags, NEW m \in
             StartReadings, StartTransaction(h, c, g, m)
       PROVE  TablesKept
  BY <1>1 DEF StartTransaction
<1>2. ASSUME NEW h \in Handlers, ListOpen(h)
       PROVE  TablesKept
  BY <1>2 DEF ListOpen
<1>3. ASSUME NEW h \in Handlers, Create(h)
       PROVE  TablesKept
  <2>1. PICK t \in Tids :
          /\ tx[t] = NoRow
          /\ tx' = [tx EXCEPT ![t] = [state |-> "open", conn |-> req[h].conn,
                       tag |-> req[h].tag, start |-> req[h].meter, stop |-> NoValue]]
    BY <1>3 DEF Create
  <2>2. UNCHANGED <<queued, billed, ghosts>>
    BY <1>3 DEF Create
  <2> QED
    BY <2>1, <2>2 DEF TypeOK, TableType, NoRow
<1>4. ASSUME NEW h \in Handlers, StartApply(h)
       PROVE  TablesKept
  BY <1>4 DEF StartApply
<1>5. ASSUME NEW h \in Handlers, StartQueue(h)
       PROVE  TablesKept
  BY <1>5 DEF StartQueue, EnqueueStart
<1>6. ASSUME NEW h \in Handlers, NEW t \in Tids \union {NoTx}, NEW c \in Connectors,
             NEW m \in Readings, MeterValues(h, t, c, m)
       PROVE  TablesKept
  BY <1>6 DEF MeterValues
<1>7. ASSUME NEW h \in Handlers, Resolve(h)
       PROVE  TablesKept
  BY <1>7 DEF Resolve
<1>8. ASSUME NEW h \in Handlers, MeterApply(h)
       PROVE  TablesKept
  BY <1>8 DEF MeterApply
<1>9. ASSUME NEW h \in Handlers, UpdateLiveMeter(h)
       PROVE  TablesKept
  <2>1. req[h].tx \in Tids /\ tx[req[h].tx] \in Row
    BY <1>9 DEF UpdateLiveMeter, TypeOK, TableType, KnownRows, Working, Created
  <2> QED
    BY <1>9, <2>1 DEF UpdateLiveMeter, TypeOK, TableType, Row, NoRow
<1>10. ASSUME NEW h \in Handlers, NEW t \in Tids, NEW m \in Readings,
              StopTransaction(h, t, m)
       PROVE  TablesKept
  BY <1>10 DEF StopTransaction
<1>11. ASSUME NEW h \in Handlers, StopRow(h)
       PROVE  TablesKept
  <2>1. req[h].tx \in Tids /\ tx[req[h].tx] \in Row
    BY <1>11 DEF StopRow, TypeOK, TableType, KnownRows, Working, Created
  <2> QED
    BY <1>11, <2>1 DEF StopRow, TypeOK, TableType, Row, NoRow
<1>12. ASSUME NEW h \in Handlers, StopQueue(h)
       PROVE  TablesKept
  BY <1>12 DEF StopQueue, EnqueueCompleted, TypeOK, TableType
<1>13. ASSUME NEW h \in Handlers, StopApply(h)
       PROVE  TablesKept
  BY <1>13 DEF StopApply
<1>14. ASSUME NEW h \in Handlers, GiveUp(h)
       PROVE  TablesKept
  BY <1>14 DEF GiveUp
<1>15. ASSUME NEW c \in Connectors, NEW s \in {"Available", "Busy"},
              StatusNotification(c, s)
       PROVE  TablesKept
  BY <1>15 DEF StatusNotification
<1>16. ASSUME Boot
       PROVE  TablesKept
  BY <1>16 DEF Boot
<1>17. ASSUME Snapshot
       PROVE  TablesKept
  BY <1>17 DEF Snapshot
<1>18. ASSUME Wake
       PROVE  TablesKept
  BY <1>18 DEF Wake
<1>19. ASSUME Pick
       PROVE  TablesKept
  BY <1>19 DEF Pick
<1>20. ASSUME Judge
       PROVE  TablesKept
  BY <1>20 DEF Judge
<1>21. ASSUME ForceClose
       PROVE  TablesKept
  <2>1. rtx \in Tids /\ tx[rtx] \in Row
    BY <1>21 DEF ForceClose, TypeOK, TableType, KnownRows, RecoveryWorking,
       RecoveryPlaces, Created
  <2> QED
    BY <1>21, <2>1 DEF ForceClose, TypeOK, TableType, Row, NoRow
<1>22. ASSUME RecoveryApplyStop
       PROVE  TablesKept
  BY <1>22 DEF RecoveryApplyStop
<1>23. ASSUME RecoveryQueueStop
       PROVE  TablesKept
  BY <1>23 DEF RecoveryQueueStop, EnqueueCompleted, TypeOK, TableType
<1>24. ASSUME Hydrate
       PROVE  TablesKept
  BY <1>24 DEF Hydrate
<1>25. ASSUME HydrateMeter
       PROVE  TablesKept
  BY <1>25 DEF HydrateMeter
<1>26. ASSUME RemoteStop
       PROVE  TablesKept
  BY <1>26 DEF RemoteStop
<1>27. ASSUME Unlock
       PROVE  TablesKept
  BY <1>27 DEF Unlock
<1>28. ASSUME Deadline
       PROVE  TablesKept
  BY <1>28 DEF Deadline
<1>29. ASSUME Restart
       PROVE  TablesKept
  BY <1>29 DEF Restart
<1>30. CASE UNCHANGED vars
  BY <1>30 DEF vars, tables, handlers, recovery, told, ghosts
<1> QED
  BY <1>1, <1>2, <1>3, <1>4, <1>5, <1>6, <1>7, <1>8, <1>9, <1>10, <1>11, <1>12,
     <1>13, <1>14, <1>15, <1>16, <1>17, <1>18, <1>19, <1>20, <1>21, <1>22, <1>23, <1>24,
     <1>25, <1>26, <1>27, <1>28, <1>29, <1>30
     DEF Next, ChargerStep, HandlerStep, RecoveryStep

-----------------------------------------------------------------------------
(* What the charger and the CMS were told.  TablesKept carries the three   *)
(* promises over a step; what an action adds to them it has established,   *)
(* at its own step or, by StopsKnown, at an earlier one.                   *)
DurableInv ==
  /\ AcceptedIsDurable /\ ConfirmedIsDurable
  /\ BilledAsStored /\ StopsKnown

(* Nothing has been promised to begin with.                                *)
LEMMA DurableInit == Init => DurableInv
BY SessionAssumption DEF Init, DurableInv, AcceptedIsDurable, ConfirmedIsDurable,
   BilledAsStored, StopsKnown

(* StopsKnown, goroutine by goroutine.                                     *)
HandlerKnows(h) ==
  /\ pc[h] = "applyStop" => billed[req[h].tx] # NoValue
  /\ pc[h] = "queueStop" /\ req[h].tx \notin late \union raced
       => req[h].meter = tx[req[h].tx].stop

RecoveryKnows ==
  rpc \in {"applyStop", "queueStop"} /\ rtx \notin late \union raced
    => rmeter = tx[rtx].stop

(* What a step that leaves a part of the state alone does not disturb.     *)
LEMMA DurableKept ==
  ASSUME TypeOK, TypeOK', DurableInv, TablesKept
  PROVE  /\ accepted' = accepted => AcceptedIsDurable'
         /\ confirmed' = confirmed => ConfirmedIsDurable'
         /\ billed' = billed => BilledAsStored'
         /\ \A h \in Handlers :
              pc'[h] = pc[h] /\ req'[h] = req[h] => HandlerKnows(h)'
         /\ UNCHANGED <<rpc, rtx, rmeter>> => RecoveryKnows'
<1> USE DEF TablesKept, RowKept, DurableInv
<1>1. accepted' = accepted => AcceptedIsDurable'
  BY DEF AcceptedIsDurable, TypeOK, ToldType
<1>2. confirmed' = confirmed => ConfirmedIsDurable'
  BY DEF ConfirmedIsDurable, TypeOK, ToldType
<1>3. billed' = billed => BilledAsStored'
  BY DEF BilledAsStored
<1>4. ASSUME NEW h \in Handlers, pc'[h] = pc[h], req'[h] = req[h]
      PROVE  HandlerKnows(h)'
  <2>1. pc[h] \in {"queueStop", "applyStop"} => req[h].tx \in Tids /\ Closed(req[h].tx)
    BY DEF TypeOK, KnownRows, Working, Created
  <2> QED
    BY <1>4, <2>1 DEF HandlerKnows, StopsKnown
<1>5. UNCHANGED <<rpc, rtx, rmeter>> => RecoveryKnows'
  <2>1. rpc \in {"applyStop", "queueStop"} => rtx \in Tids /\ Closed(rtx)
    BY DEF TypeOK, KnownRows, RecoveryWorking, RecoveryPlaces, Created
  <2> QED
    BY <2>1 DEF RecoveryKnows, StopsKnown
<1> QED
  BY <1>1, <1>2, <1>3, <1>4, <1>5

(* Every step keeps the promises made, and can keep those it makes.        *)
LEMMA DurableStep == TypeOK /\ TypeOK' /\ DurableInv /\ [Next]_vars => DurableInv'
<1> SUFFICES ASSUME TypeOK, TypeOK', DurableInv, [Next]_vars PROVE DurableInv'
  OBVIOUS
<1>a. TablesKept
  BY TablesStep
<1>b. ASSUME AcceptedIsDurable', ConfirmedIsDurable', BilledAsStored', RecoveryKnows',
             \A h \in Handlers : HandlerKnows(h)'
      PROVE  DurableInv'
  BY <1>b DEF DurableInv, StopsKnown, HandlerKnows, RecoveryKnows
<1> USE DEF tables, handlers, recovery, told, ghosts
<1>1. ASSUME NEW h \in Handlers, NEW c \in Connectors, NEW g \in Tags, NEW m \in
             StartReadings, StartTransaction(h, c, g, m)
       PROVE  DurableInv'
  <2>1. \A k \in Handlers \ {h} : pc'[k] = pc[k] /\ req'[k] = req[k]
    BY <1>1 DEF StartTransaction, Receive, Goto, Return, TypeOK, HandlerType
  <2>2. UNCHANGED recovery
    BY <1>1 DEF StartTransaction
  <2>3. AcceptedIsDurable'
    BY <1>1, <1>a, DurableKept DEF StartTransaction
  <2>4. ConfirmedIsDurable'
    BY <1>1, <1>a, DurableKept DEF StartTransaction
  <2>5. BilledAsStored'
    BY <1>1, <1>a, DurableKept DEF StartTransaction
  <2>6. HandlerKnows(h)'
    BY <1>1 DEF StartTransaction, HandlerKnows, Receive, Goto, Return, TypeOK,
       HandlerType
  <2> QED
    BY <1>a, <1>b, <2>1, <2>2, <2>3, <2>4, <2>5, <2>6, DurableKept
<1>2. ASSUME NEW h \in Handlers, ListOpen(h)
       PROVE  DurableInv'
  <2>1. \A k \in Handlers \ {h} : pc'[k] = pc[k] /\ req'[k] = req[k]
    BY <1>2 DEF ListOpen, Receive, Goto, Return, TypeOK, HandlerType
  <2>2. UNCHANGED recovery
    BY <1>2 DEF ListOpen
  <2>3. AcceptedIsDurable'
    BY <1>2, <1>a, DurableKept DEF ListOpen
  <2>4. ConfirmedIsDurable'
    BY <1>2, <1>a, DurableKept DEF ListOpen
  <2>5. BilledAsStored'
    BY <1>2, <1>a, DurableKept DEF ListOpen
  <2>6. HandlerKnows(h)'
    BY <1>2 DEF ListOpen, HandlerKnows, Receive, Goto, Return, TypeOK, HandlerType
  <2> QED
    BY <1>a, <1>b, <2>1, <2>2, <2>3, <2>4, <2>5, <2>6, DurableKept
<1>3. ASSUME NEW h \in Handlers, Create(h)
       PROVE  DurableInv'
  <2>1. \A k \in Handlers \ {h} : pc'[k] = pc[k] /\ req'[k] = req[k]
    BY <1>3 DEF Create, Receive, Goto, Return, TypeOK, HandlerType
  <2>2. UNCHANGED recovery
    BY <1>3 DEF Create
  <2>3. AcceptedIsDurable'
    BY <1>3, <1>a, DurableKept DEF Create
  <2>4. ConfirmedIsDurable'
    BY <1>3, <1>a, DurableKept DEF Create
  <2>5. BilledAsStored'
    BY <1>3, <1>a, DurableKept DEF Create
  <2>6. HandlerKnows(h)'
    BY <1>3 DEF Create, HandlerKnows, Receive, Goto, Return, TypeOK, HandlerType
  <2> QED
    BY <1>a, <1>b, <2>1, <2>2, <2>3, <2>4, <2>5, <2>6, DurableKept
<1>4. ASSUME NEW h \in Handlers, StartApply(h)
       PROVE  DurableInv'
  <2>1. \A k \in Handlers \ {h} : pc'[k] = pc[k] /\ req'[k] = req[k]
    BY <1>4 DEF StartApply, Receive, Goto, Return, TypeOK, HandlerType
  <2>2. UNCHANGED recovery
    BY <1>4 DEF StartApply
  <2>3. AcceptedIsDurable'
    BY <1>4, <1>a, DurableKept DEF StartApply
  <2>4. ConfirmedIsDurable'
    BY <1>4, <1>a, DurableKept DEF StartApply
  <2>5. BilledAsStored'
    BY <1>4, <1>a, DurableKept DEF StartApply
  <2>6. HandlerKnows(h)'
    BY <1>4 DEF StartApply, HandlerKnows, Receive, Goto, Return, TypeOK, HandlerType
  <2> QED
    BY <1>a, <1>b, <2>1, <2>2, <2>3, <2>4, <2>5, <2>6, DurableKept
<1>5. ASSUME NEW h \in Handlers, StartQueue(h)
       PROVE  DurableInv'
  <2>1. \A k \in Handlers \ {h} : pc'[k] = pc[k] /\ req'[k] = req[k]
    BY <1>5 DEF StartQueue, Receive, Goto, Return, TypeOK, HandlerType
  <2>2. UNCHANGED recovery
    BY <1>5 DEF StartQueue
  <2>3. AcceptedIsDurable'
    BY <1>5, <1>a DEF StartQueue, EnqueueStart, AcceptedIsDurable, DurableInv,
       TablesKept, RowKept,
       TypeOK, TableType, ToldType, KnownRows, Working, Created
  <2>4. ConfirmedIsDurable'
    BY <1>5, <1>a, DurableKept DEF StartQueue
  <2>5. BilledAsStored'
    BY <1>5, <1>a, DurableKept DEF StartQueue
  <2>6. HandlerKnows(h)'
    BY <1>5 DEF StartQueue, HandlerKnows, Receive, Goto, Return, TypeOK, HandlerType
  <2> QED
    BY <1>a, <1>b, <2>1, <2>2, <2>3, <2>4, <2>5, <2>6, DurableKept
<1>6. ASSUME NEW h \in Handlers, NEW t \in Tids \union {NoTx}, NEW c \in Connectors,
             NEW m \in Readings, MeterValues(h, t, c, m)
       PROVE  DurableInv'
  <2>1. \A k \in Handlers \ {h} : pc'[k] = pc[k] /\ req'[k] = req[k]
    BY <1>6 DEF MeterValues, Receive, Goto, Return, TypeOK, HandlerType
  <2>2. UNCHANGED recovery
    BY <1>6 DEF MeterValues
  <2>3. AcceptedIsDurable'
    BY <1>6, <1>a, DurableKept DEF MeterValues
  <2>4. ConfirmedIsDurable'
    BY <1>6, <1>a, DurableKept DEF MeterValues
  <2>5. BilledAsStored'
    BY <1>6, <1>a, DurableKept DEF MeterValues
  <2>6. HandlerKnows(h)'
    BY <1>6 DEF MeterValues, HandlerKnows, Receive, Goto, Return, TypeOK, HandlerType
  <2> QED
    BY <1>a, <1>b, <2>1, <2>2, <2>3, <2>4, <2>5, <2>6, DurableKept
<1>7. ASSUME NEW h \in Handlers, Resolve(h)
       PROVE  DurableInv'
  <2>1. \A k \in Handlers \ {h} : pc'[k] = pc[k] /\ req'[k] = req[k]
    BY <1>7 DEF Resolve, Receive, Goto, Return, TypeOK, HandlerType
  <2>2. UNCHANGED recovery
    BY <1>7 DEF Resolve
  <2>3. AcceptedIsDurable'
    BY <1>7, <1>a, DurableKept DEF Resolve
  <2>4. ConfirmedIsDurable'
    BY <1>7, <1>a, DurableKept DEF Resolve
  <2>5. BilledAsStored'
    BY <1>7, <1>a, DurableKept DEF Resolve
  <2>6. HandlerKnows(h)'
    BY <1>7 DEF Resolve, HandlerKnows, Receive, Goto, Return, TypeOK, HandlerType
  <2> QED
    BY <1>a, <1>b, <2>1, <2>2, <2>3, <2>4, <2>5, <2>6, DurableKept
<1>8. ASSUME NEW h \in Handlers, MeterApply(h)
       PROVE  DurableInv'
  <2>1. \A k \in Handlers \ {h} : pc'[k] = pc[k] /\ req'[k] = req[k]
    BY <1>8 DEF MeterApply, Receive, Goto, Return, TypeOK, HandlerType
  <2>2. UNCHANGED recovery
    BY <1>8 DEF MeterApply
  <2>3. AcceptedIsDurable'
    BY <1>8, <1>a, DurableKept DEF MeterApply
  <2>4. ConfirmedIsDurable'
    BY <1>8, <1>a, DurableKept DEF MeterApply
  <2>5. BilledAsStored'
    BY <1>8, <1>a, DurableKept DEF MeterApply
  <2>6. HandlerKnows(h)'
    BY <1>8 DEF MeterApply, HandlerKnows, Receive, Goto, Return, TypeOK, HandlerType
  <2> QED
    BY <1>a, <1>b, <2>1, <2>2, <2>3, <2>4, <2>5, <2>6, DurableKept
<1>9. ASSUME NEW h \in Handlers, UpdateLiveMeter(h)
       PROVE  DurableInv'
  <2>1. \A k \in Handlers \ {h} : pc'[k] = pc[k] /\ req'[k] = req[k]
    BY <1>9 DEF UpdateLiveMeter, Receive, Goto, Return, TypeOK, HandlerType
  <2>2. UNCHANGED recovery
    BY <1>9 DEF UpdateLiveMeter
  <2>3. AcceptedIsDurable'
    BY <1>9, <1>a, DurableKept DEF UpdateLiveMeter
  <2>4. ConfirmedIsDurable'
    BY <1>9, <1>a, DurableKept DEF UpdateLiveMeter
  <2>5. BilledAsStored'
    BY <1>9, <1>a, DurableKept DEF UpdateLiveMeter
  <2>6. HandlerKnows(h)'
    BY <1>9 DEF UpdateLiveMeter, HandlerKnows, Receive, Goto, Return, TypeOK,
       HandlerType
  <2> QED
    BY <1>a, <1>b, <2>1, <2>2, <2>3, <2>4, <2>5, <2>6, DurableKept
<1>10. ASSUME NEW h \in Handlers, NEW t \in Tids, NEW m \in Readings,
              StopTransaction(h, t, m)
       PROVE  DurableInv'
  <2>1. \A k \in Handlers \ {h} : pc'[k] = pc[k] /\ req'[k] = req[k]
    BY <1>10 DEF StopTransaction, Receive, Goto, Return, TypeOK, HandlerType
  <2>2. UNCHANGED recovery
    BY <1>10 DEF StopTransaction
  <2>3. AcceptedIsDurable'
    BY <1>10, <1>a, DurableKept DEF StopTransaction
  <2>4. ConfirmedIsDurable'
    BY <1>10, <1>a, DurableKept DEF StopTransaction
  <2>5. BilledAsStored'
    BY <1>10, <1>a, DurableKept DEF StopTransaction
  <2>6. HandlerKnows(h)'
    BY <1>10 DEF StopTransaction, HandlerKnows, Receive, Goto, Return, TypeOK,
       HandlerType
  <2> QED
    BY <1>a, <1>b, <2>1, <2>2, <2>3, <2>4, <2>5, <2>6, DurableKept
<1>11. ASSUME NEW h \in Handlers, StopRow(h)
       PROVE  DurableInv'
  <2>1. \A k \in Handlers \ {h} : pc'[k] = pc[k] /\ req'[k] = req[k]
    BY <1>11 DEF StopRow, Receive, Goto, Return, TypeOK, HandlerType
  <2>2. UNCHANGED recovery
    BY <1>11 DEF StopRow
  <2>3. AcceptedIsDurable'
    BY <1>11, <1>a, DurableKept DEF StopRow
  <2>4. ConfirmedIsDurable'
    BY <1>11, <1>a, DurableKept DEF StopRow
  <2>5. BilledAsStored'
    BY <1>11, <1>a, DurableKept DEF StopRow
  <2>6. HandlerKnows(h)'
    <3>1. /\ pc' = [pc EXCEPT ![h] = "queueStop"] /\ req[h].tx \in Tids
          /\ tx[req[h].tx] \in Row /\ req[h] \in Request
      BY <1>11 DEF StopRow, Goto, TypeOK, TableType, HandlerType, KnownRows, Working,
         Created
    <3>2. req'[h].tx = req[h].tx /\ req'[h].meter = tx'[req[h].tx].stop
      BY <1>11, <3>1 DEF StopRow, TypeOK, TableType, HandlerType, Request, Row, NoRow
    <3>3. pc'[h] = "queueStop"
      BY <3>1 DEF TypeOK, HandlerType
    <3> QED
      BY <3>2, <3>3 DEF HandlerKnows
  <2> QED
    BY <1>a, <1>b, <2>1, <2>2, <2>3, <2>4, <2>5, <2>6, DurableKept
<1>12. ASSUME NEW h \in Handlers, StopQueue(h)
       PROVE  DurableInv'
  <2>1. \A k \in Handlers \ {h} : pc'[k] = pc[k] /\ req'[k] = req[k]
    BY <1>12 DEF StopQueue, Receive, Goto, Return, TypeOK, HandlerType
  <2>2. UNCHANGED recovery
    BY <1>12 DEF StopQueue
  <2>3. AcceptedIsDurable'
    BY <1>12, <1>a, DurableKept DEF StopQueue
  <2>4. ConfirmedIsDurable'
    BY <1>12, <1>a, DurableKept DEF StopQueue
  <2>5. BilledAsStored'
    BY <1>12, <1>a DEF StopQueue, BilledAsStored, DurableInv, StopsKnown, TablesKept,
       RowKept,
       EnqueueCompleted, TypeOK, TableType, HandlerType, KnownRows, Working,
       Created, Closed
  <2>6. HandlerKnows(h)'
    <3>1. req[h].tx \in Tids /\ req[h].meter \in Readings /\ pc'[h] # "queueStop"
      BY <1>12 DEF StopQueue, Goto, Return, TypeOK, HandlerType, KnownRows, Working,
         Created, Request
    <3>2. billed'[req[h].tx] # NoValue
      BY <1>12, <3>1 DEF StopQueue, EnqueueCompleted, TypeOK, TableType
    <3>3. pc'[h] = "applyStop" => req'[h] = req[h]
      BY <1>12 DEF StopQueue, Return, TypeOK, HandlerType
    <3> QED
      BY <3>1, <3>2, <3>3 DEF HandlerKnows
  <2> QED
    BY <1>a, <1>b, <2>1, <2>2, <2>3, <2>4, <2>5, <2>6, DurableKept
<1>13. ASSUME NEW h \in Handlers, StopApply(h)
       PROVE  DurableInv'
  <2>1. \A k \in Handlers \ {h} : pc'[k] = pc[k] /\ req'[k] = req[k]
    BY <1>13 DEF StopApply, Receive, Goto, Return, TypeOK, HandlerType
  <2>2. UNCHANGED recovery
    BY <1>13 DEF StopApply
  <2>3. AcceptedIsDurable'
    BY <1>13, <1>a, DurableKept DEF StopApply
  <2>4. ConfirmedIsDurable'
    BY <1>13, <1>a DEF StopApply, ConfirmedIsDurable, DurableInv, StopsKnown,
       TablesKept, RowKept,
       TypeOK, KnownRows, ToldType, Working, Created, Closed
  <2>5. BilledAsStored'
    BY <1>13, <1>a, DurableKept DEF StopApply
  <2>6. HandlerKnows(h)'
    BY <1>13 DEF StopApply, HandlerKnows, Receive, Goto, Return, TypeOK, HandlerType
  <2> QED
    BY <1>a, <1>b, <2>1, <2>2, <2>3, <2>4, <2>5, <2>6, DurableKept
<1>14. ASSUME NEW h \in Handlers, GiveUp(h)
       PROVE  DurableInv'
  <2>1. \A k \in Handlers \ {h} : pc'[k] = pc[k] /\ req'[k] = req[k]
    BY <1>14 DEF GiveUp, Receive, Goto, Return, TypeOK, HandlerType
  <2>2. UNCHANGED recovery
    BY <1>14 DEF GiveUp
  <2>3. AcceptedIsDurable'
    BY <1>14, <1>a, DurableKept DEF GiveUp
  <2>4. ConfirmedIsDurable'
    BY <1>14, <1>a, DurableKept DEF GiveUp
  <2>5. BilledAsStored'
    BY <1>14, <1>a, DurableKept DEF GiveUp
  <2>6. HandlerKnows(h)'
    BY <1>14 DEF GiveUp, HandlerKnows, Receive, Goto, Return, TypeOK, HandlerType
  <2> QED
    BY <1>a, <1>b, <2>1, <2>2, <2>3, <2>4, <2>5, <2>6, DurableKept
<1>15. ASSUME NEW c \in Connectors, NEW s \in {"Available", "Busy"},
              StatusNotification(c, s)
       PROVE  DurableInv'
  <2>1. UNCHANGED <<handlers, told>>
    BY <1>15 DEF StatusNotification
  <2>2. BilledAsStored'
    BY <1>15, <1>a, DurableKept DEF StatusNotification
  <2>3. RecoveryKnows'
    BY <1>15, <1>a, DurableKept DEF StatusNotification, RecoveryKnows, Proceed,
       Continue, Finish
  <2> QED
    BY <1>a, <1>b, <2>1, <2>2, <2>3, DurableKept
<1>16. ASSUME Boot
       PROVE  DurableInv'
  <2>1. UNCHANGED <<handlers, told>>
    BY <1>16 DEF Boot
  <2>2. BilledAsStored'
    BY <1>16, <1>a, DurableKept DEF Boot
  <2>3. RecoveryKnows'
    BY <1>16, <1>a, DurableKept DEF Boot, RecoveryKnows, Proceed, Continue, Finish
  <2> QED
    BY <1>a, <1>b, <2>1, <2>2, <2>3, DurableKept
<1>17. ASSUME Snapshot
       PROVE  DurableInv'
  <2>1. UNCHANGED <<handlers, told>>
    BY <1>17 DEF Snapshot
  <2>2. BilledAsStored'
    BY <1>17, <1>a, DurableKept DEF Snapshot
  <2>3. RecoveryKnows'
    BY <1>17, <1>a, DurableKept DEF Snapshot, RecoveryKnows, Proceed, Continue, Finish
  <2> QED
    BY <1>a, <1>b, <2>1, <2>2, <2>3, DurableKept
<1>18. ASSUME Wake
       PROVE  DurableInv'
  <2>1. UNCHANGED <<handlers, told>>
    BY <1>18 DEF Wake
  <2>2. BilledAsStored'
    BY <1>18, <1>a, DurableKept DEF Wake
  <2>3. RecoveryKnows'
    BY <1>18, <1>a, DurableKept DEF Wake, RecoveryKnows, Proceed, Continue, Finish
  <2> QED
    BY <1>a, <1>b, <2>1, <2>2, <2>3, DurableKept
<1>19. ASSUME Pick
       PROVE  DurableInv'
  <2>1. UNCHANGED <<handlers, told>>
    BY <1>19 DEF Pick
  <2>2. BilledAsStored'
    BY <1>19, <1>a, DurableKept DEF Pick
  <2>3. RecoveryKnows'
    BY <1>19, <1>a, DurableKept DEF Pick, RecoveryKnows, Proceed, Continue, Finish
  <2> QED
    BY <1>a, <1>b, <2>1, <2>2, <2>3, DurableKept
<1>20. ASSUME Judge
       PROVE  DurableInv'
  <2>1. UNCHANGED <<handlers, told>>
    BY <1>20 DEF Judge
  <2>2. BilledAsStored'
    BY <1>20, <1>a, DurableKept DEF Judge
  <2>3. RecoveryKnows'
    BY <1>20, <1>a, DurableKept DEF Judge, RecoveryKnows, Proceed, Continue, Finish
  <2> QED
    BY <1>a, <1>b, <2>1, <2>2, <2>3, DurableKept
<1>21. ASSUME ForceClose
       PROVE  DurableInv'
  <2>1. UNCHANGED <<handlers, told>>
    BY <1>21 DEF ForceClose
  <2>2. BilledAsStored'
    BY <1>21, <1>a, DurableKept DEF ForceClose
  <2>3. RecoveryKnows'
    BY <1>21 DEF ForceClose, RecoveryKnows, Proceed, Continue, TypeOK, TableType,
       RecoveryType, KnownRows, RecoveryWorking, RecoveryPlaces,
       Created, Row, NoRow, Open, Closed
  <2> QED
    BY <1>a, <1>b, <2>1, <2>2, <2>3, DurableKept
<1>22. ASSUME RecoveryApplyStop
       PROVE  DurableInv'
  <2>1. UNCHANGED <<handlers, told>>
    BY <1>22 DEF RecoveryApplyStop
  <2>2. BilledAsStored'
    BY <1>22, <1>a, DurableKept DEF RecoveryApplyStop
  <2>3. RecoveryKnows'
    BY <1>22 DEF RecoveryApplyStop, RecoveryKnows, Proceed, DurableInv, StopsKnown
  <2> QED
    BY <1>a, <1>b, <2>1, <2>2, <2>3, DurableKept
<1>23. ASSUME RecoveryQueueStop
       PROVE  DurableInv'
  <2>1. UNCHANGED <<handlers, told>>
    BY <1>23 DEF RecoveryQueueStop
  <2>2. BilledAsStored'
    BY <1>23, <1>a DEF RecoveryQueueStop, BilledAsStored, DurableInv, StopsKnown,
       TablesKept, RowKept,
       EnqueueCompleted, TypeOK, TableType, RecoveryType, KnownRows, RecoveryWorking,
         RecoveryPlaces,
       Created, Row, NoRow, Open, Closed
  <2>3. RecoveryKnows'
    BY <1>23, <1>a, DurableKept DEF RecoveryQueueStop, RecoveryKnows, Proceed,
       Continue, Finish
  <2> QED
    BY <1>a, <1>b, <2>1, <2>2, <2>3, DurableKept
<1>24. ASSUME Hydrate
       PROVE  DurableInv'
  <2>1. UNCHANGED <<handlers, told>>
    BY <1>24 DEF Hydrate
  <2>2. BilledAsStored'
    BY <1>24, <1>a, DurableKept DEF Hydrate
  <2>3. RecoveryKnows'
    BY <1>24, <1>a, DurableKept DEF Hydrate, RecoveryKnows, Proceed, Continue, Finish
  <2> QED
    BY <1>a, <1>b, <2>1, <2>2, <2>3, DurableKept
<1>25. ASSUME HydrateMeter
       PROVE  DurableInv'
  <2>1. UNCHANGED <<handlers, told>>
    BY <1>25 DEF HydrateMeter
  <2>2. BilledAsStored'
    BY <1>25, <1>a, DurableKept DEF HydrateMeter
  <2>3. RecoveryKnows'
    BY <1>25, <1>a, DurableKept DEF HydrateMeter, RecoveryKnows, Proceed, Continue,
       Finish
  <2> QED
    BY <1>a, <1>b, <2>1, <2>2, <2>3, DurableKept
<1>26. ASSUME RemoteStop
       PROVE  DurableInv'
  <2>1. UNCHANGED <<handlers, told>>
    BY <1>26 DEF RemoteStop
  <2>2. BilledAsStored'
    BY <1>26, <1>a, DurableKept DEF RemoteStop
  <2>3. RecoveryKnows'
    BY <1>26, <1>a, DurableKept DEF RemoteStop, RecoveryKnows, Proceed, Continue, Finish
  <2> QED
    BY <1>a, <1>b, <2>1, <2>2, <2>3, DurableKept
<1>27. ASSUME Unlock
       PROVE  DurableInv'
  <2>1. UNCHANGED <<handlers, told>>
    BY <1>27 DEF Unlock
  <2>2. BilledAsStored'
    BY <1>27, <1>a, DurableKept DEF Unlock
  <2>3. RecoveryKnows'
    BY <1>27, <1>a, DurableKept DEF Unlock, RecoveryKnows, Proceed, Continue, Finish
  <2> QED
    BY <1>a, <1>b, <2>1, <2>2, <2>3, DurableKept
<1>28. ASSUME Deadline
       PROVE  DurableInv'
  <2>1. UNCHANGED <<handlers, told>>
    BY <1>28 DEF Deadline
  <2>2. BilledAsStored'
    BY <1>28, <1>a, DurableKept DEF Deadline
  <2>3. RecoveryKnows'
    BY <1>28, <1>a, DurableKept DEF Deadline, RecoveryKnows, Proceed, Continue, Finish
  <2> QED
    BY <1>a, <1>b, <2>1, <2>2, <2>3, DurableKept
<1>29. ASSUME Restart
       PROVE  DurableInv'
  <2>1. \A h \in Handlers : HandlerKnows(h)'
    BY <1>29 DEF Restart, HandlerKnows
  <2>2. RecoveryKnows'
    BY <1>29 DEF Restart, RecoveryKnows, Finish
  <2> QED
    BY <1>29, <1>a, <1>b, <2>1, <2>2, DurableKept DEF Restart
<1>30. CASE UNCHANGED vars
  BY <1>30, <1>a, <1>b, DurableKept DEF vars
<1> QED
  BY <1>1, <1>2, <1>3, <1>4, <1>5, <1>6, <1>7, <1>8, <1>9, <1>10, <1>11, <1>12,
     <1>13, <1>14, <1>15, <1>16, <1>17, <1>18, <1>19, <1>20, <1>21, <1>22, <1>23, <1>24,
     <1>25, <1>26, <1>27, <1>28, <1>29, <1>30
     DEF Next, ChargerStep, HandlerStep, RecoveryStep

(* The three promises hold in every state.                                 *)
LEMMA DurableAlways == Spec => []DurableInv
  BY TypeInit, TypeStep, DurableInit, DurableStep, PTL DEF Spec

(* What OnStartTransaction accepted has its row and its start callback,    *)
(* and what OnStopTransaction confirmed is closed and billed, for any      *)
(* number of handlers and transactions and across restarts.                *)
THEOREM ToldStaysDurable == Spec => []ToldIsDurable
<1>1. DurableInv => ToldIsDurable
  BY DEF DurableInv, ToldIsDurable
<1> QED
  BY <1>1, DurableAlways, PTL

(* The CMS is billed what the closed row holds, but for the two windows    *)
(* that BilledAsStored names (StopTransaction, ForceCloseTransaction).     *)
THEOREM BillsTheRow == Spec => []BilledAsStored
<1>1. DurableInv => BilledAsStored
  BY DEF DurableInv
<1> QED
  BY <1>1, DurableAlways, PTL

-----------------------------------------------------------------------------
(* The steps of handlers, recovery and restarts are steps of the ledger.   *)

(* Nothing is in the ledger to begin with.                                 *)
LEMMA LedgerInit == Init => Ledger!Init
BY DEF Init, Ledger!Init

(* What is not a step of the ledger leaves it alone.                       *)
LEMMA LedgerStep ==
  TypeOK /\ DurableInv /\ [Next]_vars => [Ledger!Next]_(Ledger!vars)
<1> SUFFICES ASSUME TypeOK, DurableInv, [Next]_vars
             PROVE  [Ledger!Next]_(Ledger!vars)
  OBVIOUS
<1> USE DEF tables, handlers, recovery, told, ghosts
<1>a. ASSUME UNCHANGED <<tables, told, ghosts>> \/ UNCHANGED <<tables, told, late, raced>>
      PROVE  UNCHANGED Ledger!vars
  BY <1>a DEF Ledger!vars
<1>1. ASSUME NEW h \in Handlers, NEW c \in Connectors, NEW g \in Tags,
             NEW m \in StartReadings, StartTransaction(h, c, g, m)
      PROVE  UNCHANGED Ledger!vars
  BY <1>1, <1>a DEF StartTransaction
<1>2. ASSUME NEW h \in Handlers, ListOpen(h) \/ StartApply(h) \/ Resolve(h)
                                   \/ MeterApply(h) \/ GiveUp(h)
      PROVE  UNCHANGED Ledger!vars
  BY <1>2, <1>a DEF ListOpen, StartApply, Resolve, MeterApply, GiveUp
<1>3. ASSUME NEW h \in Handlers, Create(h)
      PROVE  Ledger!Next
  <2>1. PICK t \in Tids :
          /\ tx[t] = NoRow
          /\ tx' = [tx EXCEPT ![t] = [state |-> "open", conn |-> req[h].conn,
                      tag |-> req[h].tag, start |-> req[h].meter, stop |-> NoValue]]
    BY <1>3 DEF Create
  <2>2. /\ req[h].conn \in Connectors /\ req[h].tag \in Tags
        /\ req[h].meter \in StartReadings
    BY <1>3 DEF Create, TypeOK, HandlerType, Starting, Request
  <2>3. Ledger!Open(t, req[h].conn, req[h].tag, req[h].meter)
    BY <1>3, <2>1 DEF Create, Ledger!Open
  <2> QED
    BY <2>2, <2>3 DEF Ledger!Next
<1>4. ASSUME NEW h \in Handlers, StartQueue(h)
      PROVE  Ledger!Next
  <2>1. req[h].tx \in Tids /\ tx[req[h].tx] # NoRow
    BY <1>4 DEF StartQueue, TypeOK, KnownRows, Working, Created
  <2>2. Ledger!Announce(req[h].tx)
    BY <1>4, <2>1 DEF StartQueue, EnqueueStart, Ledger!Announce
  <2> QED
    BY <2>1, <2>2 DEF Ledger!Next
<1>5. ASSUME NEW h \in Handlers, NEW t \in Tids \union {NoTx}, NEW c \in Connectors,
             NEW m \in Readings, MeterValues(h, t, c, m)
      PROVE  UNCHANGED Ledger!vars
  BY <1>5, <1>a DEF MeterValues
<1>6. ASSUME NEW h \in Handlers, UpdateLiveMeter(h)
      PROVE  Ledger!Next
  <2>1. req[h].tx \in Tids /\ tx[req[h].tx] # NoRow
    BY <1>6 DEF UpdateLiveMeter, TypeOK, KnownRows, Working, Created
  <2>2. req[h].meter \in Readings
    BY <1>6 DEF UpdateLiveMeter, TypeOK, HandlerType, Request
  <2>3. late' \union raced' = IF Closed(req[h].tx) THEN (late \union raced) \union {req[h].tx}
                                                   ELSE late \union raced
    BY <1>6 DEF UpdateLiveMeter
  <2>4. Ledger!Amend(req[h].tx, req[h].meter)
    BY <1>6, <2>1, <2>3 DEF UpdateLiveMeter, Closed, Ledger!Amend, Ledger!Closed
  <2> QED
    BY <2>1, <2>2, <2>4 DEF Ledger!Next
<1>7. ASSUME NEW h \in Handlers, NEW t \in Tids, NEW m \in Readings,
             StopTransaction(h, t, m)
      PROVE  UNCHANGED Ledger!vars
  BY <1>7, <1>a DEF StopTransaction
<1>8. ASSUME NEW h \in Handlers, StopRow(h)
      PROVE  [Ledger!Next]_(Ledger!vars)
  <2>1. req[h].tx \in Tids /\ req[h].meter \in Readings
    BY <1>8 DEF StopRow, TypeOK, KnownRows, Working, Created, HandlerType, Request
  <2>2. CASE Open(req[h].tx)
    <3>1. Ledger!Close(req[h].tx, req[h].meter)
      BY <1>8, <2>2 DEF StopRow, Open, Ledger!Close
    <3> QED
      BY <2>1, <3>1 DEF Ledger!Next
  <2>3. CASE ~Open(req[h].tx)
    BY <1>8, <1>a, <2>3 DEF StopRow
  <2> QED
    BY <2>2, <2>3
<1>9. ASSUME NEW h \in Handlers, StopQueue(h)
      PROVE  [Ledger!Next]_(Ledger!vars)
  <2>1. /\ req[h].tx \in Tids /\ Closed(req[h].tx) /\ req[h].meter \in Readings
        /\ req[h].tx \notin late \union raced => req[h].meter = tx[req[h].tx].stop
    BY <1>9 DEF StopQueue, TypeOK, KnownRows, Working, Created, HandlerType, Request,
                DurableInv, StopsKnown
  <2>2. CASE billed[req[h].tx] = NoValue
    <3>1. Ledger!Bill(req[h].tx, req[h].meter)
      BY <1>9, <2>1, <2>2 DEF StopQueue, EnqueueCompleted, Closed, Ledger!Bill,
                              Ledger!Closed, TypeOK, TableType
    <3> QED
      BY <2>1, <3>1 DEF Ledger!Next
  <2>3. CASE billed[req[h].tx] # NoValue
    <3>1. billed' = billed
      BY <1>9, <2>3 DEF StopQueue, EnqueueCompleted, TypeOK, TableType
    <3> QED
      BY <1>9, <3>1 DEF StopQueue, Ledger!vars
  <2> QED
    BY <2>2, <2>3
<1>10. ASSUME NEW h \in Handlers, StopApply(h)
       PROVE  Ledger!Next
  <2>1. req[h].tx \in Tids /\ billed[req[h].tx] # NoValue
    BY <1>10 DEF StopApply, TypeOK, KnownRows, Working, Created, DurableInv, StopsKnown
  <2>2. Ledger!Confirm(req[h].tx)
    BY <1>10, <2>1 DEF StopApply, Ledger!Confirm
  <2> QED
    BY <2>1, <2>2 DEF Ledger!Next
<1>11. ASSUME NEW c \in Connectors, NEW s \in {"Available", "Busy"},
              StatusNotification(c, s)
       PROVE  UNCHANGED Ledger!vars
  BY <1>11, <1>a DEF StatusNotification
<1>12. CASE ForceClose
  <2>1. rtx \in Tids /\ tx[rtx] # NoRow /\ rmeter \in Readings
    BY <1>12 DEF ForceClose, TypeOK, KnownRows, RecoveryWorking, RecoveryPlaces,
                 RecoveryType, Created
  <2>2. CASE UNCHANGED <<tx, raced>>
    BY <1>12, <1>a, <2>2 DEF ForceClose
  <2>3. CASE Open(rtx) /\ tx' # tx
    <3>1. Ledger!Close(rtx, rmeter)
      BY <1>12, <2>3 DEF ForceClose, Open, Ledger!Close
    <3> QED
      BY <2>1, <3>1 DEF Ledger!Next
  <2>4. CASE ~Open(rtx) /\ raced' # raced
    <3>1. Closed(rtx)
      BY <2>1, <2>4 DEF TypeOK, TableType, Row, Open, Closed
    <3>2. late' \union raced' = (late \union raced) \union {rtx}
      BY <1>12, <2>4 DEF ForceClose
    <3>3. Ledger!Dispute(rtx)
      BY <1>12, <2>4, <3>1, <3>2 DEF ForceClose, Closed, Ledger!Dispute, Ledger!Closed
    <3> QED
      BY <2>1, <3>3 DEF Ledger!Next
  <2> QED
    BY <1>12, <2>2, <2>3, <2>4 DEF ForceClose
<1>13. CASE RecoveryQueueStop
  <2>1. /\ rtx \in Tids /\ Closed(rtx) /\ rmeter \in Readings
        /\ rtx \notin late \union raced => rmeter = tx[rtx].stop
    BY <1>13 DEF RecoveryQueueStop, TypeOK, KnownRows, RecoveryWorking, RecoveryPlaces,
                 RecoveryType, Created, DurableInv, StopsKnown
  <2>2. CASE billed' # billed
    <3>1. billed[rtx] = NoValue /\ billed' = [billed EXCEPT ![rtx] = rmeter]
      BY <1>13, <2>1, <2>2 DEF RecoveryQueueStop, EnqueueCompleted, TypeOK, TableType
    <3>2. Ledger!Bill(rtx, rmeter)
      BY <1>13, <2>1, <3>1 DEF RecoveryQueueStop, Closed, Ledger!Bill, Ledger!Closed
    <3> QED
      BY <2>1, <3>2 DEF Ledger!Next
  <2>3. CASE billed' = billed
    BY <1>13, <1>a, <2>3 DEF RecoveryQueueStop
  <2> QED
    BY <2>2, <2>3
<1>14. CASE \/ Boot \/ Snapshot \/ Wake \/ Pick \/ Judge \/ RecoveryApplyStop
            \/ Hydrate \/ HydrateMeter \/ RemoteStop \/ Unlock \/ Deadline
  BY <1>14, <1>a DEF Boot, Snapshot, Wake, Pick, Judge, RecoveryApplyStop, Hydrate,
                     HydrateMeter, RemoteStop, Unlock, Deadline
<1>15. CASE Restart
  BY <1>15, <1>a DEF Restart
<1>16. CASE UNCHANGED vars
  BY <1>16, <1>a DEF vars
<1> QED
  BY <1>1, <1>2, <1>3, <1>4, <1>5, <1>6, <1>7, <1>8, <1>9, <1>10, <1>11, <1>12, <1>13,
     <1>14, <1>15, <1>16 DEF Next, ChargerStep, HandlerStep, RecoveryStep

(* The ledger is kept, for any number of handlers, connectors, cards and   *)
(* transactions and across restarts: sessions are announced before they    *)
(* are granted, closed and billed once, and billed for the reading of the  *)
(* row unless it is disputed (OnStartTransaction, OnStopTransaction,       *)
(* recoverOpenTransactions).                                               *)
THEOREM LedgerKept == Spec => KeepsLedger
<1>1. Spec => [](TypeOK /\ DurableInv)
  BY TypeCorrect, DurableAlways, PTL
<1> QED
  BY LedgerInit, LedgerStep, <1>1, PTL DEF Spec, KeepsLedger, Ledger!Spec

-----------------------------------------------------------------------------
(* One open transaction per connector.                                     *)
StartsInv == OneOpenPerConnector /\ StartsAlone

(* Initially there is no transaction.                                      *)
LEMMA StartsInit == Init => StartsInv
BY DEF Init, StartsInv, OneOpenPerConnector, StartsAlone, OpenTids, Open, NoRow,
   Starting

(* A step that opens no row and starts nothing keeps it.                   *)
LEMMA StartsKept ==
  ASSUME StartsInv, overlapped' = overlapped,
         \A t \in OpenTids' : t \in OpenTids /\ tx'[t].conn = tx[t].conn,
         \A h \in Handlers : Starting(h)' => Starting(h) /\ req'[h].conn = req[h].conn,
         \A h \in Handlers : pc'[h] = "create" => pc[h] = "create"
  PROVE  StartsInv'
<1>1. \A h \in Handlers : pc'[h] = "create" => Starting(h)'
  BY DEF Starting
<1> QED
  BY <1>1 DEF StartsInv, OneOpenPerConnector, StartsAlone

(* A row is opened only where the check has found none.                    *)
LEMMA StartsStep == TypeOK /\ StartsInv /\ [Next]_vars => StartsInv'
<1> SUFFICES ASSUME TypeOK, StartsInv, [Next]_vars PROVE StartsInv'
  OBVIOUS
<1> USE DEF tables, handlers, recovery, told, ghosts
<1>1. ASSUME NEW h \in Handlers, NEW c \in Connectors, NEW g \in Tags, NEW m \in
             StartReadings, StartTransaction(h, c, g, m)
       PROVE  StartsInv'
  <2>1. \A k \in Handlers \ {h} : pc'[k] = pc[k] /\ req'[k] = req[k]
    BY <1>1 DEF StartTransaction, Receive, TypeOK, HandlerType
  <2>2. pc'[h] = "list" /\ req'[h].conn = c /\ UNCHANGED tx
    BY <1>1 DEF StartTransaction, Receive, TypeOK, HandlerType
  <2>3. ~overlapped' => ~overlapped /\ \A k \in Handlers : Starting(k) => req[k].conn
     # c
    BY <1>1 DEF StartTransaction
  <2> QED
    BY <2>1, <2>2, <2>3 DEF StartsInv, OneOpenPerConnector, StartsAlone, Starting,
       OpenTids, Open
<1>2. ASSUME NEW h \in Handlers, ListOpen(h)
       PROVE  StartsInv'
  <2>1. \A k \in Handlers \ {h} : pc'[k] = pc[k] /\ req'[k] = req[k]
    BY <1>2 DEF ListOpen, Receive, Goto, Return, TypeOK, HandlerType
  <2>2. pc[h] = "list" /\ UNCHANGED <<tx, overlapped>>
    BY <1>2 DEF ListOpen
  <2>3. Starting(h)' => Starting(h) /\ req'[h].conn = req[h].conn
    BY <1>2 DEF ListOpen, Goto, Return, Starting, TypeOK, HandlerType, Request
  <2>4. pc'[h] = "create" => \A t \in OpenTids : tx[t].conn # req[h].conn
    BY <1>2 DEF ListOpen, Goto, Return, TypeOK, HandlerType
  <2> QED
    BY <2>1, <2>2, <2>3, <2>4 DEF StartsInv, OneOpenPerConnector, StartsAlone,
       Starting, OpenTids, Open
<1>3. ASSUME NEW h \in Handlers, Create(h)
       PROVE  StartsInv'
  <2>1. \A k \in Handlers \ {h} : pc'[k] = pc[k] /\ req'[k] = req[k]
    BY <1>3 DEF Create, Receive, Goto, Return, TypeOK, HandlerType
  <2>2. PICK t \in Tids :
          /\ tx[t] = NoRow
          /\ tx' = [tx EXCEPT ![t] = [state |-> "open", conn |-> req[h].conn,
                       tag |-> req[h].tag, start |-> req[h].meter, stop |-> NoValue]]
    BY <1>3 DEF Create
  <2>3. pc[h] = "create" /\ UNCHANGED overlapped
    BY <1>3 DEF Create
  <2>4. OpenTids' = OpenTids \union {t} /\ tx'[t].conn = req[h].conn
    BY <2>2 DEF OpenTids, Open, NoRow, TypeOK, TableType
  <2>5. \A u \in OpenTids : tx'[u].conn = tx[u].conn
    BY <2>2 DEF OpenTids, Open, NoRow, TypeOK, TableType
  <2>6. /\ Starting(h)' => req'[h].conn = req[h].conn
        /\ pc'[h] # "create"
    BY <1>3 DEF Create, Goto, Return, Starting, TypeOK, HandlerType, Request
  <2> QED
    BY <2>1, <2>3, <2>4, <2>5, <2>6 DEF StartsInv, OneOpenPerConnector, StartsAlone,
       Starting
<1>4. ASSUME NEW h \in Handlers, StartApply(h)
       PROVE  StartsInv'
  <2>1. \A k \in Handlers \ {h} : pc'[k] = pc[k] /\ req'[k] = req[k]
    BY <1>4 DEF StartApply, Receive, Goto, Return, TypeOK, HandlerType
  <2>2. \A t \in OpenTids' : t \in OpenTids /\ tx'[t].conn = tx[t].conn
    BY <1>4 DEF StartApply, OpenTids, Open
  <2>3. /\ Starting(h)' => Starting(h) /\ req'[h].conn = req[h].conn
        /\ pc'[h] # "create" /\ UNCHANGED overlapped
    BY <1>4 DEF StartApply, Receive, Goto, Return, Starting, TypeOK, HandlerType
  <2> QED
    BY <2>1, <2>2, <2>3, StartsKept DEF Starting
<1>5. ASSUME NEW h \in Handlers, StartQueue(h)
       PROVE  StartsInv'
  <2>1. \A k \in Handlers \ {h} : pc'[k] = pc[k] /\ req'[k] = req[k]
    BY <1>5 DEF StartQueue, Receive, Goto, Return, TypeOK, HandlerType
  <2>2. \A t \in OpenTids' : t \in OpenTids /\ tx'[t].conn = tx[t].conn
    BY <1>5 DEF StartQueue, OpenTids, Open
  <2>3. /\ Starting(h)' => Starting(h) /\ req'[h].conn = req[h].conn
        /\ pc'[h] # "create" /\ UNCHANGED overlapped
    BY <1>5 DEF StartQueue, Receive, Goto, Return, Starting, TypeOK, HandlerType
  <2> QED
    BY <2>1, <2>2, <2>3, StartsKept DEF Starting
<1>6. ASSUME NEW h \in Handlers, NEW t \in Tids \union {NoTx}, NEW c \in Connectors,
             NEW m \in Readings, MeterValues(h, t, c, m)
       PROVE  StartsInv'
  <2>1. \A k \in Handlers \ {h} : pc'[k] = pc[k] /\ req'[k] = req[k]
    BY <1>6 DEF MeterValues, Receive, Goto, Return, TypeOK, HandlerType
  <2>2. \A u \in OpenTids' : u \in OpenTids /\ tx'[u].conn = tx[u].conn
    BY <1>6 DEF MeterValues, OpenTids, Open
  <2>3. /\ Starting(h)' => Starting(h) /\ req'[h].conn = req[h].conn
        /\ pc'[h] # "create" /\ UNCHANGED overlapped
    BY <1>6 DEF MeterValues, Receive, Goto, Return, Starting, TypeOK, HandlerType
  <2> QED
    BY <2>1, <2>2, <2>3, StartsKept DEF Starting
<1>7. ASSUME NEW h \in Handlers, Resolve(h)
       PROVE  StartsInv'
  <2>1. \A k \in Handlers \ {h} : pc'[k] = pc[k] /\ req'[k] = req[k]
    BY <1>7 DEF Resolve, Receive, Goto, Return, TypeOK, HandlerType
  <2>2. \A t \in OpenTids' : t \in OpenTids /\ tx'[t].conn = tx[t].conn
    BY <1>7 DEF Resolve, OpenTids, Open
  <2>3. /\ Starting(h)' => Starting(h) /\ req'[h].conn = req[h].conn
        /\ pc'[h] # "create" /\ UNCHANGED overlapped
    BY <1>7 DEF Resolve, Receive, Goto, Return, Starting, TypeOK, HandlerType
  <2> QED
    BY <2>1, <2>2, <2>3, StartsKept DEF Starting
<1>8. ASSUME NEW h \in Handlers, MeterApply(h)
       PROVE  StartsInv'
  <2>1. \A k \in Handlers \ {h} : pc'[k] = pc[k] /\ req'[k] = req[k]
    BY <1>8 DEF MeterApply, Receive, Goto, Return, TypeOK, HandlerType
  <2>2. \A t \in OpenTids' : t \in OpenTids /\ tx'[t].conn = tx[t].conn
    BY <1>8 DEF MeterApply, OpenTids, Open
  <2>3. /\ Starting(h)' => Starting(h) /\ req'[h].conn = req[h].conn
        /\ pc'[h] # "create" /\ UNCHANGED overlapped
    BY <1>8 DEF MeterApply, Receive, Goto, Return, Starting, TypeOK, HandlerType
  <2> QED
    BY <2>1, <2>2, <2>3, StartsKept DEF Starting
<1>9. ASSUME NEW h \in Handlers, UpdateLiveMeter(h)
       PROVE  StartsInv'
  <2>1. \A k \in Handlers \ {h} : pc'[k] = pc[k] /\ req'[k] = req[k]
    BY <1>9 DEF UpdateLiveMeter, Receive, Goto, Return, TypeOK, HandlerType
  <2>2. \A t \in OpenTids' : t \in OpenTids /\ tx'[t].conn = tx[t].conn
    <3>1. req[h].tx \in Tids /\ tx[req[h].tx] \in Row
      BY <1>9 DEF UpdateLiveMeter, TypeOK, TableType, KnownRows, Working, Created
    <3> QED
      BY <1>9, <3>1 DEF UpdateLiveMeter, OpenTids, Open, TypeOK, TableType, Row
  <2>3. /\ Starting(h)' => Starting(h) /\ req'[h].conn = req[h].conn
        /\ pc'[h] # "create" /\ UNCHANGED overlapped
    BY <1>9 DEF UpdateLiveMeter, Receive, Goto, Return, Starting, TypeOK, HandlerType
  <2> QED
    BY <2>1, <2>2, <2>3, StartsKept DEF Starting
<1>10. ASSUME NEW h \in Handlers, NEW t \in Tids, NEW m \in Readings,
              StopTransaction(h, t, m)
       PROVE  StartsInv'
  <2>1. \A k \in Handlers \ {h} : pc'[k] = pc[k] /\ req'[k] = req[k]
    BY <1>10 DEF StopTransaction, Receive, Goto, Return, TypeOK, HandlerType
  <2>2. \A u \in OpenTids' : u \in OpenTids /\ tx'[u].conn = tx[u].conn
    BY <1>10 DEF StopTransaction, OpenTids, Open
  <2>3. /\ Starting(h)' => Starting(h) /\ req'[h].conn = req[h].conn
        /\ pc'[h] # "create" /\ UNCHANGED overlapped
    BY <1>10 DEF StopTransaction, Receive, Goto, Return, Starting, TypeOK, HandlerType
  <2> QED
    BY <2>1, <2>2, <2>3, StartsKept DEF Starting
<1>11. ASSUME NEW h \in Handlers, StopRow(h)
       PROVE  StartsInv'
  <2>1. \A k \in Handlers \ {h} : pc'[k] = pc[k] /\ req'[k] = req[k]
    BY <1>11 DEF StopRow, Receive, Goto, Return, TypeOK, HandlerType
  <2>2. \A t \in OpenTids' : t \in OpenTids /\ tx'[t].conn = tx[t].conn
    <3>1. req[h].tx \in Tids /\ tx[req[h].tx] \in Row
      BY <1>11 DEF StopRow, TypeOK, TableType, KnownRows, Working, Created
    <3> QED
      BY <1>11, <3>1 DEF StopRow, OpenTids, Open, TypeOK, TableType, Row
  <2>3. /\ Starting(h)' => Starting(h) /\ req'[h].conn = req[h].conn
        /\ pc'[h] # "create" /\ UNCHANGED overlapped
    BY <1>11 DEF StopRow, Receive, Goto, Return, Starting, TypeOK, HandlerType
  <2> QED
    BY <2>1, <2>2, <2>3, StartsKept DEF Starting
<1>12. ASSUME NEW h \in Handlers, StopQueue(h)
       PROVE  StartsInv'
  <2>1. \A k \in Handlers \ {h} : pc'[k] = pc[k] /\ req'[k] = req[k]
    BY <1>12 DEF StopQueue, Receive, Goto, Return, TypeOK, HandlerType
  <2>2. \A t \in OpenTids' : t \in OpenTids /\ tx'[t].conn = tx[t].conn
    BY <1>12 DEF StopQueue, OpenTids, Open
  <2>3. /\ Starting(h)' => Starting(h) /\ req'[h].conn = req[h].conn
        /\ pc'[h] # "create" /\ UNCHANGED overlapped
    BY <1>12 DEF StopQueue, Receive, Goto, Return, Starting, TypeOK, HandlerType
  <2> QED
    BY <2>1, <2>2, <2>3, StartsKept DEF Starting
<1>13. ASSUME NEW h \in Handlers, StopApply(h)
       PROVE  StartsInv'
  <2>1. \A k \in Handlers \ {h} : pc'[k] = pc[k] /\ req'[k] = req[k]
    BY <1>13 DEF StopApply, Receive, Goto, Return, TypeOK, HandlerType
  <2>2. \A t \in OpenTids' : t \in OpenTids /\ tx'[t].conn = tx[t].conn
    BY <1>13 DEF StopApply, OpenTids, Open
  <2>3. /\ Starting(h)' => Starting(h) /\ req'[h].conn = req[h].conn
        /\ pc'[h] # "create" /\ UNCHANGED overlapped
    BY <1>13 DEF StopApply, Receive, Goto, Return, Starting, TypeOK, HandlerType
  <2> QED
    BY <2>1, <2>2, <2>3, StartsKept DEF Starting
<1>14. ASSUME NEW h \in Handlers, GiveUp(h)
       PROVE  StartsInv'
  <2>1. \A k \in Handlers \ {h} : pc'[k] = pc[k] /\ req'[k] = req[k]
    BY <1>14 DEF GiveUp, Receive, Goto, Return, TypeOK, HandlerType
  <2>2. \A t \in OpenTids' : t \in OpenTids /\ tx'[t].conn = tx[t].conn
    BY <1>14 DEF GiveUp, OpenTids, Open
  <2>3. /\ Starting(h)' => Starting(h) /\ req'[h].conn = req[h].conn
        /\ pc'[h] # "create" /\ UNCHANGED overlapped
    BY <1>14 DEF GiveUp, Receive, Goto, Return, Starting, TypeOK, HandlerType
  <2> QED
    BY <2>1, <2>2, <2>3, StartsKept DEF Starting
<1>15. ASSUME NEW c \in Connectors, NEW s \in {"Available", "Busy"},
              StatusNotification(c, s)
       PROVE  StartsInv'
  BY <1>15, StartsKept DEF StatusNotification, Starting, OpenTids, Open
<1>16. ASSUME Boot
       PROVE  StartsInv'
  BY <1>16, StartsKept DEF Boot, Starting, OpenTids, Open
<1>17. ASSUME Snapshot
       PROVE  StartsInv'
  BY <1>17, StartsKept DEF Snapshot, Starting, OpenTids, Open
<1>18. ASSUME Wake
       PROVE  StartsInv'
  BY <1>18, StartsKept DEF Wake, Starting, OpenTids, Open
<1>19. ASSUME Pick
       PROVE  StartsInv'
  BY <1>19, StartsKept DEF Pick, Starting, OpenTids, Open
<1>20. ASSUME Judge
       PROVE  StartsInv'
  BY <1>20, StartsKept DEF Judge, Starting, OpenTids, Open
<1>21. ASSUME ForceClose
       PROVE  StartsInv'
  <2>1. rtx \in Tids /\ tx[rtx] \in Row
    BY <1>21 DEF ForceClose, TypeOK, TableType, KnownRows, RecoveryWorking,
       RecoveryPlaces, Created
  <2>2. \A t \in OpenTids' : t \in OpenTids /\ tx'[t].conn = tx[t].conn
    BY <1>21, <2>1 DEF ForceClose, OpenTids, Open, TypeOK, TableType, Row
  <2> QED
    BY <1>21, <2>2, StartsKept DEF ForceClose, Starting
<1>22. ASSUME RecoveryApplyStop
       PROVE  StartsInv'
  BY <1>22, StartsKept DEF RecoveryApplyStop, Starting, OpenTids, Open
<1>23. ASSUME RecoveryQueueStop
       PROVE  StartsInv'
  BY <1>23, StartsKept DEF RecoveryQueueStop, Starting, OpenTids, Open
<1>24. ASSUME Hydrate
       PROVE  StartsInv'
  BY <1>24, StartsKept DEF Hydrate, Starting, OpenTids, Open
<1>25. ASSUME HydrateMeter
       PROVE  StartsInv'
  BY <1>25, StartsKept DEF HydrateMeter, Starting, OpenTids, Open
<1>26. ASSUME RemoteStop
       PROVE  StartsInv'
  BY <1>26, StartsKept DEF RemoteStop, Starting, OpenTids, Open
<1>27. ASSUME Unlock
       PROVE  StartsInv'
  BY <1>27, StartsKept DEF Unlock, Starting, OpenTids, Open
<1>28. ASSUME Deadline
       PROVE  StartsInv'
  BY <1>28, StartsKept DEF Deadline, Starting, OpenTids, Open
<1>29. ASSUME Restart
       PROVE  StartsInv'
  BY <1>29, StartsKept DEF Restart, Starting, OpenTids, Open
<1>30. CASE UNCHANGED vars
  BY <1>30, StartsKept DEF vars, Starting, OpenTids, Open
<1> QED
  BY <1>1, <1>2, <1>3, <1>4, <1>5, <1>6, <1>7, <1>8, <1>9, <1>10, <1>11, <1>12,
     <1>13, <1>14, <1>15, <1>16, <1>17, <1>18, <1>19, <1>20, <1>21, <1>22, <1>23, <1>24,
     <1>25, <1>26, <1>27, <1>28, <1>29, <1>30
     DEF Next, ChargerStep, HandlerStep, RecoveryStep

(* A connector gets a second open transaction only when two starts of it   *)
(* are handled at once (OnStartTransaction), whatever the recovery, late   *)
(* meter values, failures and restarts do.                                 *)
THEOREM OneSessionPerConnector == Spec => []OneOpenPerConnector
<1>1. StartsInv => OneOpenPerConnector
  BY DEF StartsInv
<1> QED
  BY <1>1, TypeInit, TypeStep, StartsInit, StartsStep, PTL DEF Spec

-----------------------------------------------------------------------------
(* The boot recovery works on the snapshot it took at the boot.            *)
(* No recovery is running to begin with.                                   *)
LEMMA SnapshotInit == Init => RecoversBootOnly
BY DEF Init, RecoversBootOnly, RecoveryWorking, RecoveryPlaces

(* The list shrinks until the recovery ends.                               *)
LEMMA SnapshotStep == TypeOK /\ RecoversBootOnly /\ [Next]_vars => RecoversBootOnly'
<1> SUFFICES ASSUME TypeOK, RecoversBootOnly, [Next]_vars PROVE RecoversBootOnly'
  OBVIOUS
<1> USE DEF RecoversBootOnly, RecoveryWorking, RecoveryPlaces, recovery
<1>1. ASSUME NEW h \in Handlers, NEW c \in Connectors, NEW g \in Tags, NEW m \in
             StartReadings, StartTransaction(h, c, g, m)
       PROVE  RecoversBootOnly'
  BY <1>1 DEF StartTransaction, Proceed, Continue, Finish
<1>2. ASSUME NEW h \in Handlers, ListOpen(h)
       PROVE  RecoversBootOnly'
  BY <1>2 DEF ListOpen, Proceed, Continue, Finish
<1>3. ASSUME NEW h \in Handlers, Create(h)
       PROVE  RecoversBootOnly'
  BY <1>3 DEF Create, Proceed, Continue, Finish
<1>4. ASSUME NEW h \in Handlers, StartApply(h)
       PROVE  RecoversBootOnly'
  BY <1>4 DEF StartApply, Proceed, Continue, Finish
<1>5. ASSUME NEW h \in Handlers, StartQueue(h)
       PROVE  RecoversBootOnly'
  BY <1>5 DEF StartQueue, Proceed, Continue, Finish
<1>6. ASSUME NEW h \in Handlers, NEW t \in Tids \union {NoTx}, NEW c \in Connectors,
             NEW m \in Readings, MeterValues(h, t, c, m)
       PROVE  RecoversBootOnly'
  BY <1>6 DEF MeterValues, Proceed, Continue, Finish
<1>7. ASSUME NEW h \in Handlers, Resolve(h)
       PROVE  RecoversBootOnly'
  BY <1>7 DEF Resolve, Proceed, Continue, Finish
<1>8. ASSUME NEW h \in Handlers, MeterApply(h)
       PROVE  RecoversBootOnly'
  BY <1>8 DEF MeterApply, Proceed, Continue, Finish
<1>9. ASSUME NEW h \in Handlers, UpdateLiveMeter(h)
       PROVE  RecoversBootOnly'
  BY <1>9 DEF UpdateLiveMeter, Proceed, Continue, Finish
<1>10. ASSUME NEW h \in Handlers, NEW t \in Tids, NEW m \in Readings,
              StopTransaction(h, t, m)
       PROVE  RecoversBootOnly'
  BY <1>10 DEF StopTransaction, Proceed, Continue, Finish
<1>11. ASSUME NEW h \in Handlers, StopRow(h)
       PROVE  RecoversBootOnly'
  BY <1>11 DEF StopRow, Proceed, Continue, Finish
<1>12. ASSUME NEW h \in Handlers, StopQueue(h)
       PROVE  RecoversBootOnly'
  BY <1>12 DEF StopQueue, Proceed, Continue, Finish
<1>13. ASSUME NEW h \in Handlers, StopApply(h)
       PROVE  RecoversBootOnly'
  BY <1>13 DEF StopApply, Proceed, Continue, Finish
<1>14. ASSUME NEW h \in Handlers, GiveUp(h)
       PROVE  RecoversBootOnly'
  BY <1>14 DEF GiveUp, Proceed, Continue, Finish
<1>15. ASSUME NEW c \in Connectors, NEW s \in {"Available", "Busy"},
              StatusNotification(c, s)
       PROVE  RecoversBootOnly'
  BY <1>15 DEF StatusNotification, Proceed, Continue, Finish
<1>16. ASSUME Boot
       PROVE  RecoversBootOnly'
  BY <1>16 DEF Boot, Proceed, Continue, Finish
<1>17. ASSUME Snapshot
       PROVE  RecoversBootOnly'
  BY <1>17 DEF Snapshot, Proceed, Continue, Finish
<1>18. ASSUME Wake
       PROVE  RecoversBootOnly'
  BY <1>18 DEF Wake, Proceed, Continue, Finish
<1>19. ASSUME Pick
       PROVE  RecoversBootOnly'
  BY <1>19 DEF Pick, Proceed, Continue, Finish
<1>20. ASSUME Judge
       PROVE  RecoversBootOnly'
  BY <1>20 DEF Judge, Proceed, Continue, Finish
<1>21. ASSUME ForceClose
       PROVE  RecoversBootOnly'
  BY <1>21 DEF ForceClose, Proceed, Continue, Finish
<1>22. ASSUME RecoveryApplyStop
       PROVE  RecoversBootOnly'
  BY <1>22 DEF RecoveryApplyStop, Proceed, Continue, Finish
<1>23. ASSUME RecoveryQueueStop
       PROVE  RecoversBootOnly'
  BY <1>23 DEF RecoveryQueueStop, Proceed, Continue, Finish
<1>24. ASSUME Hydrate
       PROVE  RecoversBootOnly'
  BY <1>24 DEF Hydrate, Proceed, Continue, Finish
<1>25. ASSUME HydrateMeter
       PROVE  RecoversBootOnly'
  BY <1>25 DEF HydrateMeter, Proceed, Continue, Finish
<1>26. ASSUME RemoteStop
       PROVE  RecoversBootOnly'
  BY <1>26 DEF RemoteStop, Proceed, Continue, Finish
<1>27. ASSUME Unlock
       PROVE  RecoversBootOnly'
  BY <1>27 DEF Unlock, Proceed, Continue, Finish
<1>28. ASSUME Deadline
       PROVE  RecoversBootOnly'
  BY <1>28 DEF Deadline, Proceed, Continue, Finish
<1>29. ASSUME Restart
       PROVE  RecoversBootOnly'
  BY <1>29 DEF Restart, Proceed, Continue, Finish
<1>30. CASE UNCHANGED vars
  BY <1>30 DEF vars
<1> QED
  BY <1>1, <1>2, <1>3, <1>4, <1>5, <1>6, <1>7, <1>8, <1>9, <1>10, <1>11, <1>12,
     <1>13, <1>14, <1>15, <1>16, <1>17, <1>18, <1>19, <1>20, <1>21, <1>22, <1>23, <1>24,
     <1>25, <1>26, <1>27, <1>28, <1>29, <1>30
     DEF Next, ChargerStep, HandlerStep, RecoveryStep

(* The row of a transaction is closed by its own StopTransaction or by a   *)
(* force-close under recovery (the writes of stop_time).                   *)
LEMMA WhoCloses ==
  ASSUME TypeOK, [Next]_vars, NEW t \in Tids, Open(t), Closed(t)'
  PROVE  \/ rpc = "close" /\ rtx = t
         \/ \E h \in Handlers : pc[h] = "stop" /\ req[h].tx = t
<1> DEFINE Stopped == \/ rpc = "close" /\ rtx = t
                      \/ \E h \in Handlers : pc[h] = "stop" /\ req[h].tx = t
<1> USE DEF Closed, Open, tables
<1>1. ASSUME NEW h \in Handlers, NEW c \in Connectors, NEW g \in Tags, NEW m \in
             StartReadings, StartTransaction(h, c, g, m)
       PROVE  Stopped
  BY <1>1 DEF StartTransaction
<1>2. ASSUME NEW h \in Handlers, ListOpen(h)
       PROVE  Stopped
  BY <1>2 DEF ListOpen
<1>3. ASSUME NEW h \in Handlers, Create(h)
       PROVE  Stopped
  BY <1>3 DEF Create, TypeOK, TableType, NoRow
<1>4. ASSUME NEW h \in Handlers, StartApply(h)
       PROVE  Stopped
  BY <1>4 DEF StartApply
<1>5. ASSUME NEW h \in Handlers, StartQueue(h)
       PROVE  Stopped
  BY <1>5 DEF StartQueue
<1>6. ASSUME NEW h \in Handlers, NEW u \in Tids \union {NoTx}, NEW c \in Connectors,
             NEW m \in Readings, MeterValues(h, u, c, m)
       PROVE  Stopped
  BY <1>6 DEF MeterValues
<1>7. ASSUME NEW h \in Handlers, Resolve(h)
       PROVE  Stopped
  BY <1>7 DEF Resolve
<1>8. ASSUME NEW h \in Handlers, MeterApply(h)
       PROVE  Stopped
  BY <1>8 DEF MeterApply
<1>9. ASSUME NEW h \in Handlers, UpdateLiveMeter(h)
       PROVE  Stopped
  <2>1. req[h].tx \in Tids /\ tx[req[h].tx] \in Row
    BY <1>9 DEF UpdateLiveMeter, TypeOK, TableType, KnownRows, Working, Created
  <2> QED
    BY <1>9, <2>1 DEF UpdateLiveMeter, TypeOK, TableType, Row
<1>10. ASSUME NEW h \in Handlers, NEW u \in Tids, NEW m \in Readings,
              StopTransaction(h, u, m)
       PROVE  Stopped
  BY <1>10 DEF StopTransaction
<1>11. ASSUME NEW h \in Handlers, StopRow(h)
       PROVE  Stopped
  <2>1. req[h].tx \in Tids /\ tx[req[h].tx] \in Row
    BY <1>11 DEF StopRow, TypeOK, TableType, KnownRows, Working, Created
  <2> QED
    BY <1>11, <2>1 DEF StopRow, TypeOK, TableType, Row
<1>12. ASSUME NEW h \in Handlers, StopQueue(h)
       PROVE  Stopped
  BY <1>12 DEF StopQueue
<1>13. ASSUME NEW h \in Handlers, StopApply(h)
       PROVE  Stopped
  BY <1>13 DEF StopApply
<1>14. ASSUME NEW h \in Handlers, GiveUp(h)
       PROVE  Stopped
  BY <1>14 DEF GiveUp
<1>15. ASSUME NEW c \in Connectors, NEW s \in {"Available", "Busy"},
              StatusNotification(c, s)
       PROVE  Stopped
  BY <1>15 DEF StatusNotification
<1>16. ASSUME Boot
       PROVE  Stopped
  BY <1>16 DEF Boot
<1>17. ASSUME Snapshot
       PROVE  Stopped
  BY <1>17 DEF Snapshot
<1>18. ASSUME Wake
       PROVE  Stopped
  BY <1>18 DEF Wake
<1>19. ASSUME Pick
       PROVE  Stopped
  BY <1>19 DEF Pick
<1>20. ASSUME Judge
       PROVE  Stopped
  BY <1>20 DEF Judge
<1>21. ASSUME ForceClose
       PROVE  Stopped
  BY <1>21 DEF ForceClose, TypeOK, TableType
<1>22. ASSUME RecoveryApplyStop
       PROVE  Stopped
  BY <1>22 DEF RecoveryApplyStop
<1>23. ASSUME RecoveryQueueStop
       PROVE  Stopped
  BY <1>23 DEF RecoveryQueueStop
<1>24. ASSUME Hydrate
       PROVE  Stopped
  BY <1>24 DEF Hydrate
<1>25. ASSUME HydrateMeter
       PROVE  Stopped
  BY <1>25 DEF HydrateMeter
<1>26. ASSUME RemoteStop
       PROVE  Stopped
  BY <1>26 DEF RemoteStop
<1>27. ASSUME Unlock
       PROVE  Stopped
  BY <1>27 DEF Unlock
<1>28. ASSUME Deadline
       PROVE  Stopped
  BY <1>28 DEF Deadline
<1>29. ASSUME Restart
       PROVE  Stopped
  BY <1>29 DEF Restart
<1>30. CASE UNCHANGED vars
  BY <1>30 DEF vars
<1> QED
  BY <1>1, <1>2, <1>3, <1>4, <1>5, <1>6, <1>7, <1>8, <1>9, <1>10, <1>11, <1>12,
     <1>13, <1>14, <1>15, <1>16, <1>17, <1>18, <1>19, <1>20, <1>21, <1>22, <1>23, <1>24,
     <1>25, <1>26, <1>27, <1>28, <1>29, <1>30
     DEF Next, ChargerStep, HandlerStep, RecoveryStep

(* A session that starts while the recovery sleeps or retries is closed by *)
(* nobody but its own StopTransaction (scheduleBootRecovery).              *)
THEOREM RecoveryMindsItsBusiness == Spec => RecoverySparesNewSessions
<1>1. TypeOK /\ RecoversBootOnly /\ [Next]_vars => [\A t \in Tids : Open(t) /\
  Closed(t)' =>
       \/ t \in bootOpen
       \/ \E h \in Handlers : pc[h] = "stop" /\ req[h].tx = t]_vars
  BY WhoCloses DEF RecoversBootOnly, RecoveryWorking, RecoveryPlaces
<1> QED
  BY <1>1, TypeInit, TypeStep, SnapshotInit, SnapshotStep, PTL DEF Spec,
     RecoverySparesNewSessions

-----------------------------------------------------------------------------
(* Together with the reconciling worker (SessionReconciliation).  A step   *)
(* of the others is one of ChargingSession, of which the lemmas above      *)
(* speak; the worker writes to the outbox only, what its list says, and    *)
(* what a list says of the rows outlives the steps of the others by        *)
(* TablesKept.                                                             *)
TogetherInv ==
  TypeOK /\ DurableInv /\ StartsInv /\ RecoversBootOnly /\ ListedRows

(* The worker has listed nothing to begin with.                            *)
LEMMA TogetherInit == InitTogether => TogetherInv
  BY TypeInit, DurableInit, StartsInit, SnapshotInit
     DEF InitTogether, TogetherInv, ListedRows

(* The others do not know of the worker.                                   *)
LEMMA OthersStep ==
  ASSUME Otherwise
  PROVE  Next /\ listed' \in {listed, {}}
  BY DEF Otherwise, Next

(* What has been listed stays true of the rows.                            *)
LEMMA ListedKept ==
  ASSUME TypeOK, TypeOK', ListedRows, TablesKept, listed' \subseteq listed
  PROVE  ListedRows'
<1>1. listed' \subseteq MissingCallback
  BY DEF ListedRows
<1>2. ASSUME NEW k \in listed'
      PROVE  /\ k.tx \in Created'
             /\ k.kind = "completed" => /\ Closed(k.tx)' /\ k.meter # NoValue
                                        /\ k.tx \notin late' \union raced'
                                             => k.meter = tx'[k.tx].stop
  <2>1. k \in listed /\ k \in MissingCallback
    BY <1>1
  <2>2. k.tx \in Tids /\ RowKept(k.tx)
    BY <2>1 DEF MissingCallback, TablesKept
  <2>3. k.tx \in Created'
    BY <2>1, <2>2 DEF ListedRows, Created, RowKept
  <2>4. ASSUME k.kind = "completed"
        PROVE  /\ Closed(k.tx)' /\ k.meter # NoValue
               /\ k.tx \notin late' \union raced' => k.meter = tx'[k.tx].stop
    <3>1. /\ Closed(k.tx) /\ k.meter # NoValue
          /\ k.tx \notin late \union raced => k.meter = tx[k.tx].stop
      BY <2>1, <2>4 DEF ListedRows
    <3> QED
      BY <2>2, <3>1 DEF RowKept, TablesKept
  <2> QED
    BY <2>3, <2>4
<1> QED
  BY <1>1, <1>2 DEF ListedRows

(* A list says of the rows what they say of themselves.                    *)
LEMMA ListingIsTrue ==
  ASSUME TypeOK, ListMissing
  PROVE  ListedRows'
<1>1. CASE listed' = {[kind |-> "start", tx |-> t, meter |-> NoValue] :
                        t \in Created \ queued}
  BY <1>1 DEF ListMissing, ListedRows, MissingCallback, Created, vars, tables, ghosts
<1>2. CASE listed' = {[kind |-> "completed", tx |-> t, meter |-> tx[t].stop] :
                        t \in {u \in Tids : Closed(u) /\ billed[u] = NoValue}}
  <2>1. UNCHANGED <<tx, late, raced>>
    BY DEF ListMissing, vars, tables, ghosts
  <2>2. ASSUME NEW u \in Tids, Closed(u)
        PROVE  u \in Created /\ tx[u].stop \in Readings /\ tx[u].stop # NoValue
    BY <2>2 DEF TypeOK, TableType, Created, Closed, NoRow, Row
  <2>3. ASSUME NEW k \in listed'
        PROVE  /\ k \in MissingCallback /\ k.tx \in Created /\ Closed(k.tx)
               /\ k.meter # NoValue /\ k.meter = tx[k.tx].stop
    <3>1. PICK u \in Tids : /\ Closed(u)
                            /\ k = [kind |-> "completed", tx |-> u, meter |-> tx[u].stop]
      BY <1>2, <2>3
    <3> QED
      BY <2>2, <3>1 DEF MissingCallback
  <2> QED
    BY <2>1, <2>3 DEF ListedRows, Created, Closed
<1> QED
  BY <1>1, <1>2 DEF ListMissing

(* A repair adds to the outbox what the tables call for.                   *)
LEMMA RepairKept ==
  ASSUME TypeOK, DurableInv, StartsInv, RecoversBootOnly, ListedRows, EnqueueMissing
  PROVE  /\ TypeOK' /\ DurableInv' /\ StartsInv' /\ RecoversBootOnly' /\ ListedRows'
         /\ tx' = tx
<1>1. PICK k \in listed :
        /\ listed' = listed \ {k}
        /\ \/ k.kind = "start" /\ EnqueueStart(k.tx) /\ UNCHANGED billed
           \/ k.kind = "completed" /\ EnqueueCompleted(k.tx, k.meter) /\ UNCHANGED queued
           \/ UNCHANGED <<queued, billed>>
        /\ UNCHANGED <<tx, registry, handlers, recovery, told, ghosts>>
  BY DEF EnqueueMissing
<1>2. k \in MissingCallback /\ k.tx \in Tids
  BY DEF ListedRows, MissingCallback
<1>3. k.kind = "completed" => k.meter \in Readings /\ Closed(k.tx)
  BY <1>2 DEF ListedRows, MissingCallback
<1>4. /\ UNCHANGED <<tx, registry, pc, req, rpc, todo, rtx, rmeter, bootOpen>>
      /\ UNCHANGED <<accepted, confirmed, overlapped, late, raced>>
  BY <1>1 DEF handlers, recovery, told, ghosts
<1>5. queued' \in {queued, queued \union {k.tx}}
  BY <1>1 DEF EnqueueStart
<1>6. \/ billed' = billed
      \/ /\ k.kind = "completed" /\ billed[k.tx] = NoValue
         /\ billed' = [billed EXCEPT ![k.tx] = k.meter]
  <2>1. billed \in [Tids -> Readings \union {NoValue}]
    BY DEF TypeOK, TableType
  <2> QED
    BY <1>1, <1>2, <2>1 DEF EnqueueCompleted
<1>7. TypeOK'
  <2>1. TableType'
    BY <1>2, <1>3, <1>4, <1>5, <1>6 DEF TypeOK, TableType, Closed
  <2>2. RegistryType' /\ HandlerType' /\ RecoveryType' /\ ToldType'
    BY <1>4 DEF TypeOK, RegistryType, HandlerType, RecoveryType, ToldType, Starting
  <2>3. KnownRows'
    BY <1>4 DEF TypeOK, KnownRows, Created, Closed
  <2> QED
    BY <2>1, <2>2, <2>3 DEF TypeOK
<1>8. TablesKept
  BY <1>2, <1>4, <1>5, <1>6 DEF TablesKept, RowKept, Closed, TypeOK, TableType
<1>9. DurableInv'
  <2>1. BilledAsStored'
    <3>1. CASE billed' = billed
      BY <1>7, <1>8, <3>1, DurableKept
    <3>2. CASE /\ k.kind = "completed" /\ billed[k.tx] = NoValue
               /\ billed' = [billed EXCEPT ![k.tx] = k.meter]
      <4>1. billed'[k.tx] = k.meter /\ \A t \in Tids \ {k.tx} : billed'[t] = billed[t]
        BY <1>2, <3>2 DEF TypeOK, TableType
      <4>2. k.tx \notin late \union raced => k.meter = tx[k.tx].stop
        BY <3>2 DEF ListedRows
      <4> QED
        BY <1>3, <1>4, <3>2, <4>1, <4>2 DEF DurableInv, BilledAsStored, Closed
    <3> QED
      BY <1>6, <3>1, <3>2
  <2>2. AcceptedIsDurable' /\ ConfirmedIsDurable' /\ RecoveryKnows'
        /\ \A h \in Handlers : HandlerKnows(h)'
    BY <1>4, <1>7, <1>8, DurableKept
  <2> QED
    BY <2>1, <2>2 DEF DurableInv, StopsKnown, HandlerKnows, RecoveryKnows
<1>10. StartsInv' /\ RecoversBootOnly'
  BY <1>4 DEF StartsInv, OneOpenPerConnector, StartsAlone, OpenTids, Open, Starting,
              RecoversBootOnly
<1>11. ListedRows'
  BY <1>1, <1>7, <1>8, ListedKept
<1> QED
  BY <1>4, <1>7, <1>9, <1>10, <1>11

(* Every step keeps the invariant.                                         *)
LEMMA TogetherStep == TogetherInv /\ [NextTogether]_varsTogether => TogetherInv'
<1> SUFFICES ASSUME TogetherInv, [NextTogether]_varsTogether
             PROVE  TogetherInv'
  OBVIOUS
<1>t. TypeOK /\ DurableInv /\ StartsInv /\ RecoversBootOnly /\ ListedRows
  BY DEF TogetherInv
<1>1. ASSUME [Next]_vars, listed' \subseteq listed
      PROVE  TogetherInv'
  <2>1. TypeOK' /\ TablesKept
    BY <1>t, <1>1, TypeStep, TablesStep
  <2> QED
    BY <1>t, <1>1, <2>1, DurableStep, StartsStep, SnapshotStep, ListedKept
       DEF TogetherInv
<1>2. CASE ListMissing
  <2>1. UNCHANGED vars
    BY <1>2 DEF ListMissing
  <2>2. TypeOK' /\ DurableInv' /\ StartsInv' /\ RecoversBootOnly'
    BY <1>t, <2>1, TypeStep, DurableStep, StartsStep, SnapshotStep
  <2> QED
    BY <1>t, <1>2, <2>2, ListingIsTrue DEF TogetherInv
<1>3. CASE EnqueueMissing
  BY <1>t, <1>3, RepairKept DEF TogetherInv
<1>4. CASE Otherwise
  BY <1>1, <1>4, OthersStep
<1>5. CASE UNCHANGED varsTogether
  BY <1>1, <1>5 DEF varsTogether
<1> QED
  BY <1>2, <1>3, <1>4, <1>5 DEF NextTogether

LEMMA TogetherAlways == SpecTogether => []TogetherInv
  BY TogetherInit, TogetherStep, PTL DEF SpecTogether

(* What the worker repairs is a step of the ledger too.                    *)
LEMMA RepairIsLedgerStep ==
  ASSUME TypeOK, DurableInv, ListedRows, EnqueueMissing
  PROVE  [Ledger!Next]_(Ledger!vars)
<1>1. PICK k \in listed :
        /\ \/ k.kind = "start" /\ EnqueueStart(k.tx) /\ UNCHANGED billed
           \/ k.kind = "completed" /\ EnqueueCompleted(k.tx, k.meter) /\ UNCHANGED queued
           \/ UNCHANGED <<queued, billed>>
        /\ UNCHANGED <<tx, told, ghosts>>
  BY DEF EnqueueMissing
<1>2. k.tx \in Tids /\ k.tx \in Created
  BY DEF ListedRows, MissingCallback
<1>3. UNCHANGED <<tx, accepted, confirmed, late, raced>>
  BY <1>1 DEF told, ghosts
<1>4. CASE k.kind = "start" /\ EnqueueStart(k.tx) /\ UNCHANGED billed
  <2>1. Ledger!Announce(k.tx)
    BY <1>2, <1>3, <1>4 DEF EnqueueStart, Ledger!Announce, Created
  <2> QED
    BY <1>2, <2>1 DEF Ledger!Next
<1>5. CASE k.kind = "completed" /\ EnqueueCompleted(k.tx, k.meter) /\ UNCHANGED queued
  <2>0. billed \in [Tids -> Readings \union {NoValue}]
    BY DEF TypeOK, TableType
  <2>1. CASE billed[k.tx] # NoValue
    <3>1. billed' = billed
      BY <1>2, <1>5, <2>0, <2>1 DEF EnqueueCompleted
    <3> QED
      BY <1>3, <1>5, <3>1 DEF Ledger!vars
  <2>2. CASE billed[k.tx] = NoValue
    <3>1. /\ Closed(k.tx) /\ k.meter \in Readings
          /\ k.meter = tx[k.tx].stop \/ k.tx \in late \union raced
      BY <1>5 DEF ListedRows, MissingCallback
    <3>2. billed' = [billed EXCEPT ![k.tx] = k.meter]
      BY <1>2, <1>5, <2>0, <2>2 DEF EnqueueCompleted
    <3>3. Ledger!Bill(k.tx, k.meter)
      BY <1>3, <1>5, <2>2, <3>1, <3>2 DEF Ledger!Bill, Ledger!Closed, Closed
    <3> QED
      BY <1>2, <3>1, <3>3 DEF Ledger!Next
  <2> QED
    BY <2>1, <2>2
<1>6. CASE UNCHANGED <<queued, billed>>
  BY <1>3, <1>6 DEF Ledger!vars
<1> QED
  BY <1>1, <1>4, <1>5, <1>6

(* Nothing told to the charger is lost, the worker's repairs included      *)
(* (OnStartTransaction, OnStopTransaction, reconcileMissingCallbacks).     *)
THEOREM ToldIsDurableTogether == SpecTogether => []ToldIsDurable
<1>1. TogetherInv => ToldIsDurable
  BY DEF TogetherInv, DurableInv, ToldIsDurable
<1> QED
  BY <1>1, TogetherAlways, PTL

(* A bill is for the reading of its row, whoever of handler, recovery and  *)
(* worker enqueues it first, but for the two windows (ON CONFLICT DO       *)
(* NOTHING of EnqueueCallback; the list of reconcileMissingCallbacks).     *)
THEOREM BilledAsStoredTogether == SpecTogether => []BilledAsStored
<1>1. TogetherInv => BilledAsStored
  BY DEF TogetherInv, DurableInv
<1> QED
  BY <1>1, TogetherAlways, PTL

(* What a repair writes is still true of the row when it writes it         *)
(* (reconcileMissingCallbacks).                                            *)
THEOREM ListsStayTrue == SpecTogether => []ListedRows
<1>1. TogetherInv => ListedRows
  BY DEF TogetherInv
<1> QED
  BY <1>1, TogetherAlways, PTL

(* Handlers, recovery, restarts and the worker keep the ledger: a session  *)
(* is opened, announced, closed and billed once and in that order.         *)
THEOREM LedgerKeptTogether == SpecTogether => KeepsLedger
<1>1. InitTogether => Ledger!Init
  BY LedgerInit DEF InitTogether
<1>2. TogetherInv /\ [NextTogether]_varsTogether => [Ledger!Next]_(Ledger!vars)
  <2> SUFFICES ASSUME TogetherInv, [NextTogether]_varsTogether
               PROVE  [Ledger!Next]_(Ledger!vars)
    OBVIOUS
  <2>t. TypeOK /\ DurableInv /\ ListedRows
    BY DEF TogetherInv
  <2>1. CASE [Next]_vars
    BY <2>t, <2>1, LedgerStep
  <2>2. CASE EnqueueMissing
    BY <2>t, <2>2, RepairIsLedgerStep
  <2> QED
    BY <2>1, <2>2, OthersStep DEF NextTogether, ListMissing, varsTogether
<1> QED
  BY <1>1, <1>2, TogetherAlways, PTL DEF SpecTogether, KeepsLedger, Ledger!Spec

(* The worker changes nothing for the connectors: what ChargingSession has *)
(* of them holds with it as well.                                          *)
THEOREM OneSessionPerConnectorTogether == SpecTogether => []OneOpenPerConnector
<1>1. TogetherInv => OneOpenPerConnector
  BY DEF TogetherInv, StartsInv
<1> QED
  BY <1>1, TogetherAlways, PTL

(* Nor does it close sessions.                                             *)
THEOREM RecoveryMindsItsBusinessTogether == SpecTogether => RecoverySparesNewSessions
<1> DEFINE Spared == \A t \in Tids : Open(t) /\ Closed(t)' =>
                       \/ t \in bootOpen
                       \/ \E h \in Handlers : pc[h] = "stop" /\ req[h].tx = t
<1>1. TogetherInv /\ [NextTogether]_varsTogether => [Spared]_vars
  <2> SUFFICES ASSUME TogetherInv, [NextTogether]_varsTogether
               PROVE  [Spared]_vars
    OBVIOUS
  <2>1. CASE [Next]_vars
    BY <2>1, WhoCloses DEF TogetherInv, RecoversBootOnly, RecoveryWorking, RecoveryPlaces
  <2>2. CASE EnqueueMissing
    BY <2>2 DEF EnqueueMissing, Open, Closed
  <2> QED
    BY <2>1, <2>2, OthersStep DEF NextTogether, ListMissing, varsTogether
<1> QED
  BY <1>1, TogetherAlways, PTL DEF SpecTogether, RecoverySparesNewSessions
=============================================================================
