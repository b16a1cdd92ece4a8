-------------------------- MODULE CallbackOutboxProofs --------------------------
(***************************************************************************)
(* Proofs about CallbackOutbox, for any number of transactions, retries,   *)
(* rows per batch and faults: what a mark in the outbox means, and that    *)
(* every step is one of CallbackPromise or invisible to it.                *)
(***************************************************************************)
EXTENDS CallbackOutbox, TLAPS

USE OutboxAssumption

(* Callbacks are pairs of a kind and a transaction.                        *)
LEMMA CallbackPairs ==
  /\ \A t \in Txs : <<"start", t>> \in Callbacks /\ <<"completed", t>> \in Callbacks
  /\ \A k \in Callbacks : k[1] \in Kinds /\ k[2] \in Txs /\ k = <<k[1], k[2]>>
  /\ NoTask \notin Callbacks
BY DEF Callbacks, Kinds

(* What ORDER BY t.id LIMIT n lists are callbacks of transactions.         *)
LEMMA ListedAreCallbacks ==
  ASSUME NEW c \in Kinds, NEW n, NEW S, S \subseteq Txs
  PROVE  /\ {c} \X First(n, S) \subseteq Callbacks
         /\ \A k \in {c} \X First(n, S) : k[1] = c /\ k[2] \in S
BY DEF Callbacks, First

(* Initially the tables are empty and the worker is idle.                  *)
LEMMA TypeInit == Init => TypeOK
<1> SUFFICES ASSUME Init PROVE TypeOK
  OBVIOUS
<1> USE DEF Init
<1>1. TableType
  BY DEF TableType, Statuses
<1>2. WorkerType
  BY DEF WorkerType, Places
<1>3. OutsideType
  BY DEF OutsideType
<1>4. InHand
  BY DEF InHand
<1> QED
  BY <1>1, <1>2, <1>3, <1>4 DEF TypeOK

(* Every step keeps the types and what the worker has in hand.             *)
LEMMA TypeStep == TypeOK /\ [Next]_vars => TypeOK'
<1> SUFFICES ASSUME TypeOK, [Next]_vars PROVE TypeOK'
  OBVIOUS
<1> USE CallbackPairs DEF tables, worker, outside
<1>1. ASSUME NEW t \in Txs, Create(t)
      PROVE  TypeOK'
  <2>1. TableType'
    BY <1>1 DEF Create, TypeOK, TableType, Statuses
  <2>2. WorkerType'
    BY <1>1 DEF Create, TypeOK, WorkerType, Places
  <2>3. OutsideType'
    BY <1>1 DEF Create, TypeOK, OutsideType, WorkerType
  <2>4. InHand'
    BY <1>1 DEF Create, TypeOK, InHand, TableType, WorkerType
  <2> QED
    BY <2>1, <2>2, <2>3, <2>4 DEF TypeOK
<1>2. ASSUME NEW t \in Txs, Close(t)
      PROVE  TypeOK'
  <2>1. TableType'
    BY <1>2 DEF Close, TypeOK, TableType, Statuses
  <2>2. WorkerType'
    BY <1>2 DEF Close, TypeOK, WorkerType, Places
  <2>3. OutsideType'
    BY <1>2 DEF Close, TypeOK, OutsideType, WorkerType
  <2>4. InHand'
    BY <1>2 DEF Close, TypeOK, InHand, TableType, WorkerType
  <2> QED
    BY <2>1, <2>2, <2>3, <2>4 DEF TypeOK
<1>3. ASSUME NEW k \in Callbacks, EnqueueInline(k)
      PROVE  TypeOK'
  <2>1. TableType'
    BY <1>3 DEF EnqueueInline, TypeOK, TableType, Statuses, Enqueue
  <2>2. WorkerType'
    BY <1>3 DEF EnqueueInline, TypeOK, WorkerType, Places, Fault, NoFault
  <2>3. OutsideType'
    BY <1>3 DEF EnqueueInline, TypeOK, OutsideType, WorkerType, Fault, NoFault
  <2>4. InHand'
    BY <1>3 DEF EnqueueInline, TypeOK, InHand, TableType, WorkerType, Enqueue
  <2> QED
    BY <2>1, <2>2, <2>3, <2>4 DEF TypeOK
<1>4. ASSUME NEW k \in Callbacks, ComesDue(k)
      PROVE  TypeOK'
  <2>1. TableType'
    BY <1>4 DEF ComesDue, TypeOK, TableType, Statuses
  <2>2. WorkerType'
    BY <1>4 DEF ComesDue, TypeOK, WorkerType, Places
  <2>3. OutsideType'
    BY <1>4 DEF ComesDue, TypeOK, OutsideType, WorkerType
  <2>4. InHand'
    BY <1>4 DEF ComesDue, TypeOK, InHand, TableType, WorkerType
  <2> QED
    BY <2>1, <2>2, <2>3, <2>4 DEF TypeOK
<1>5. ASSUME NEW k \in Callbacks, Ages(k)
      PROVE  TypeOK'
  <2>1. TableType'
    BY <1>5 DEF Ages, TypeOK, TableType, Statuses
  <2>2. WorkerType'
    BY <1>5 DEF Ages, TypeOK, WorkerType, Places
  <2>3. OutsideType'
    BY <1>5 DEF Ages, TypeOK, OutsideType, WorkerType
  <2>4. InHand'
    BY <1>5 DEF Ages, TypeOK, InHand, TableType, WorkerType
  <2> QED
    BY <2>1, <2>2, <2>3, <2>4 DEF TypeOK
<1>6. ASSUME ListStart
      PROVE  TypeOK'
  <2>1. TableType'
    BY <1>6 DEF ListStart, TypeOK, TableType, Statuses
  <2>2. WorkerType'
    BY <1>6, ListedAreCallbacks DEF ListStart, TypeOK, WorkerType, Places, Kinds,
       MissingStart, MissingCompleted
  <2>3. OutsideType'
    BY <1>6 DEF ListStart, TypeOK, OutsideType, Fault, NoFault
  <2>4. InHand'
    BY <1>6, <2>2 DEF ListStart, TypeOK, InHand, WorkerType
  <2> QED
    BY <2>1, <2>2, <2>3, <2>4 DEF TypeOK
<1>7. ASSUME ListCompleted
      PROVE  TypeOK'
  <2>1. TableType'
    BY <1>7 DEF ListCompleted, TypeOK, TableType, Statuses
  <2>2. WorkerType'
    BY <1>7, ListedAreCallbacks DEF ListCompleted, TypeOK, WorkerType, Places, Kinds,
       MissingStart, MissingCompleted
  <2>3. OutsideType'
    BY <1>7 DEF ListCompleted, TypeOK, OutsideType, Fault, NoFault
  <2>4. InHand'
    BY <1>7, <2>2 DEF ListCompleted, TypeOK, InHand, WorkerType
  <2> QED
    BY <2>1, <2>2, <2>3, <2>4 DEF TypeOK
<1>8. ASSUME EnqueueMissing
      PROVE  TypeOK'
  <2>1. TableType'
    BY <1>8 DEF EnqueueMissing, TypeOK, TableType, Statuses, Enqueue
  <2>2. WorkerType'
    BY <1>8 DEF EnqueueMissing, TypeOK, WorkerType, Places
  <2>3. OutsideType'
    BY <1>8 DEF EnqueueMissing, TypeOK, OutsideType, WorkerType, Fault, NoFault
  <2>4. InHand'
    BY <1>8 DEF EnqueueMissing, TypeOK, InHand, TableType, WorkerType, Enqueue
  <2> QED
    BY <2>1, <2>2, <2>3, <2>4 DEF TypeOK
<1>9. ASSUME EnqueuedMissing
      PROVE  TypeOK'
  <2>1. TableType'
    BY <1>9 DEF EnqueuedMissing, TypeOK, TableType, Statuses
  <2>2. WorkerType'
    BY <1>9 DEF EnqueuedMissing, TypeOK, WorkerType, Places, Goto
  <2>3. OutsideType'
    BY <1>9 DEF EnqueuedMissing, TypeOK, OutsideType, WorkerType
  <2>4. InHand'
    BY <1>9 DEF EnqueuedMissing, TypeOK, InHand, TableType, WorkerType, Goto
  <2> QED
    BY <2>1, <2>2, <2>3, <2>4 DEF TypeOK
<1>10. ASSUME Claim
      PROVE  TypeOK'
  <2>1. TableType'
    BY <1>10 DEF Claim, TypeOK, TableType, Statuses
  <2>2. WorkerType'
    BY <1>10 DEF Claim, TypeOK, WorkerType, Places, Claimable
  <2>3. OutsideType'
    BY <1>10 DEF Claim, TypeOK, OutsideType, WorkerType, Fault, NoFault
  <2>4. InHand'
    BY <1>10 DEF Claim, TypeOK, InHand, TableType, WorkerType, Claimable
  <2> QED
    BY <2>1, <2>2, <2>3, <2>4 DEF TypeOK
<1>11. ASSUME Post
      PROVE  TypeOK'
  <2>1. TableType'
    BY <1>11 DEF Post, TypeOK, TableType, Statuses
  <2>2. WorkerType'
    BY <1>11 DEF Post, TypeOK, WorkerType, Places
  <2>3. OutsideType'
    BY <1>11 DEF Post, TypeOK, OutsideType, WorkerType
  <2>4. InHand'
    BY <1>11 DEF Post, TypeOK, InHand, TableType, WorkerType
  <2> QED
    BY <2>1, <2>2, <2>3, <2>4 DEF TypeOK
<1>12. ASSUME UpdateMaxKWh
      PROVE  TypeOK'
  <2>1. TableType'
    BY <1>12 DEF UpdateMaxKWh, TypeOK, TableType, Statuses, WorkerType, InHand
  <2>2. WorkerType'
    BY <1>12 DEF UpdateMaxKWh, TypeOK, WorkerType, Places
  <2>3. OutsideType'
    BY <1>12 DEF UpdateMaxKWh, TypeOK, OutsideType, WorkerType, Fault, NoFault
  <2>4. InHand'
    BY <1>12 DEF UpdateMaxKWh, TypeOK, InHand, TableType, WorkerType
  <2> QED
    BY <2>1, <2>2, <2>3, <2>4 DEF TypeOK
<1>13. ASSUME Mark
      PROVE  TypeOK'
  <2>1. TableType'
    <3>1. task \in Callbacks
      BY <1>13 DEF Mark, TypeOK, WorkerType, InHand
    <3> QED
      BY <1>13, <3>1 DEF Mark, TypeOK, TableType, Statuses, MarkSent, MarkFatal,
         MarkRetry
  <2>2. WorkerType'
    BY <1>13 DEF Mark, TypeOK, WorkerType, Places
  <2>3. OutsideType'
    BY <1>13 DEF Mark, TypeOK, OutsideType, WorkerType, Fault, NoFault
  <2>4. InHand'
    BY <1>13 DEF Mark, TypeOK, InHand, TableType, WorkerType, MarkSent, MarkFatal,
       MarkRetry
  <2> QED
    BY <2>1, <2>2, <2>3, <2>4 DEF TypeOK
<1>14. ASSUME NextRound
      PROVE  TypeOK'
  <2>1. TableType'
    BY <1>14 DEF NextRound, TypeOK, TableType, Statuses
  <2>2. WorkerType'
    BY <1>14 DEF NextRound, TypeOK, WorkerType, Places, Goto
  <2>3. OutsideType'
    BY <1>14 DEF NextRound, TypeOK, OutsideType, WorkerType
  <2>4. InHand'
    BY <1>14 DEF NextRound, TypeOK, InHand, TableType, WorkerType, Goto
  <2> QED
    BY <2>1, <2>2, <2>3, <2>4 DEF TypeOK
<1>15. ASSUME Crash
      PROVE  TypeOK'
  <2>1. TableType'
    BY <1>15 DEF Crash, TypeOK, TableType, Statuses
  <2>2. WorkerType'
    BY <1>15 DEF Crash, TypeOK, WorkerType, Places
  <2>3. OutsideType'
    BY <1>15 DEF Crash, TypeOK, OutsideType, WorkerType, Fault, NoFault
  <2>4. InHand'
    BY <1>15 DEF Crash, TypeOK, InHand, TableType, WorkerType
  <2> QED
    BY <2>1, <2>2, <2>3, <2>4 DEF TypeOK
<1>16. CASE UNCHANGED vars
  BY <1>16 DEF vars, TypeOK, TableType, WorkerType, OutsideType, InHand
<1> QED
  BY <1>1, <1>2, <1>3, <1>4, <1>5, <1>6, <1>7, <1>8, <1>9, <1>10, <1>11, <1>12,
     <1>13, <1>14, <1>15, <1>16
     DEF Next, WorkerStep

(* The outbox state is well-typed, and a claimed callback in the worker's  *)
(* hands is one that is processing.                                        *)
THEOREM TypeCorrect == Spec => []TypeOK
  BY TypeInit, TypeStep, PTL DEF Spec

-----------------------------------------------------------------------------
(* What the transaction table calls for, it keeps calling for.             *)
LEMMA CalledGrows == TypeOK /\ [Next]_vars => Called \subseteq Called'
<1> SUFFICES ASSUME TypeOK, [Next]_vars PROVE Called \subseteq Called'
  OBVIOUS
<1>1. \/ row' = row
      \/ \E t \in Txs : Create(t) \/ Close(t)
  BY DEF Next, WorkerStep, EnqueueInline, ComesDue, Ages, ListStart, ListCompleted,
         EnqueueMissing, EnqueuedMissing, Claim, Post, UpdateMaxKWh, Mark, NextRound,
         Crash, vars, tables
<1>2. ASSUME NEW t \in Txs, Create(t) \/ Close(t)
      PROVE  Called \subseteq Called'
  BY <1>2, CallbackPairs DEF Create, Close, Called, TypeOK, TableType
<1> QED
  BY <1>1, <1>2 DEF Called

(* Initially nothing is owed, claimed or sent.                             *)
LEMMA OutboxInit == Init => OutboxInv
<1> SUFFICES ASSUME Init PROVE OutboxInv
  OBVIOUS
<1>1. SentWasReceived
  BY DEF Init, SentWasReceived
<1>2. GivenUpAfterAllRetries
  BY DEF Init, GivenUpAfterAllRetries
<1>3. OwedOnly
  BY DEF Init, OwedOnly
<1>4. PostAccounted
  BY DEF Init, PostAccounted
<1> QED
  BY <1>1, <1>2, <1>3, <1>4, TypeInit DEF OutboxInv

(* Every step keeps the invariant.                                         *)
LEMMA OutboxStep == OutboxInv /\ [Next]_vars => OutboxInv'
<1> SUFFICES ASSUME OutboxInv, [Next]_vars PROVE OutboxInv'
  OBVIOUS
<1>a. TypeOK /\ TypeOK'
  BY TypeStep DEF OutboxInv
<1>b. Called \subseteq Called' /\ Owed \subseteq Owed'
  BY <1>a, CalledGrows DEF Owed, Sendable
<1>c. SentWasReceived /\ GivenUpAfterAllRetries /\ OwedOnly /\ PostAccounted
  BY DEF OutboxInv
<1> USE CallbackPairs DEF tables, worker, outside
<1>1. ASSUME NEW t \in Txs, Create(t)
      PROVE  OutboxInv'
  <2>1. SentWasReceived'
    BY <1>1, <1>a, <1>b, <1>c DEF Create, SentWasReceived
  <2>2. GivenUpAfterAllRetries'
    BY <1>1, <1>a, <1>b, <1>c DEF Create, GivenUpAfterAllRetries
  <2>3. OwedOnly'
    <3>1. /\ row' = [row EXCEPT ![t] = "open"]
          /\ inline' = inline \union {<<"start", t>>} /\ UNCHANGED <<status, todo>>
      BY <1>1 DEF Create
    <3>2. <<"start", t>> \in Called'
      BY <1>a, <3>1 DEF Called, TypeOK, TableType
    <3> QED
      BY <1>b, <1>c, <3>1, <3>2 DEF OwedOnly
  <2>4. PostAccounted'
    BY <1>1, <1>a, <1>b, <1>c DEF Create, PostAccounted
  <2> QED
    BY <1>a, <2>1, <2>2, <2>3, <2>4 DEF OutboxInv
<1>2. ASSUME NEW t \in Txs, Close(t)
      PROVE  OutboxInv'
  <2>1. SentWasReceived'
    BY <1>2, <1>a, <1>b, <1>c DEF Close, SentWasReceived
  <2>2. GivenUpAfterAllRetries'
    BY <1>2, <1>a, <1>b, <1>c DEF Close, GivenUpAfterAllRetries
  <2>3. OwedOnly'
    <3>1. /\ row' = [row EXCEPT ![t] = "closed"]
          /\ inline' = inline \union {<<"completed", t>>} /\ UNCHANGED <<status, todo>>
      BY <1>2 DEF Close
    <3>2. <<"completed", t>> \in Called'
      BY <1>a, <3>1 DEF Called, TypeOK, TableType
    <3> QED
      BY <1>b, <1>c, <3>1, <3>2 DEF OwedOnly
  <2>4. PostAccounted'
    BY <1>2, <1>a, <1>b, <1>c DEF Close, PostAccounted
  <2> QED
    BY <1>a, <2>1, <2>2, <2>3, <2>4 DEF OutboxInv
<1>3. ASSUME NEW k \in Callbacks, EnqueueInline(k)
      PROVE  OutboxInv'
  <2>1. SentWasReceived'
    BY <1>3, <1>a, <1>b, <1>c DEF EnqueueInline, SentWasReceived, Enqueue, TypeOK,
       TableType
  <2>2. GivenUpAfterAllRetries'
    BY <1>3, <1>a, <1>b, <1>c DEF EnqueueInline, GivenUpAfterAllRetries, Enqueue,
       TypeOK, TableType
  <2>3. OwedOnly'
    BY <1>3, <1>a, <1>b, <1>c DEF EnqueueInline, OwedOnly, Enqueue, Owed, TypeOK,
       TableType
  <2>4. PostAccounted'
    BY <1>3, <1>a, <1>b, <1>c DEF EnqueueInline, PostAccounted
  <2> QED
    BY <1>a, <2>1, <2>2, <2>3, <2>4 DEF OutboxInv
<1>4. ASSUME NEW k \in Callbacks, ComesDue(k)
      PROVE  OutboxInv'
  <2>1. SentWasReceived'
    BY <1>4, <1>a, <1>b, <1>c DEF ComesDue, SentWasReceived, TypeOK, TableType
  <2>2. GivenUpAfterAllRetries'
    BY <1>4, <1>a, <1>b, <1>c DEF ComesDue, GivenUpAfterAllRetries, TypeOK, TableType
  <2>3. OwedOnly'
    BY <1>4, <1>a, <1>b, <1>c DEF ComesDue, OwedOnly, TypeOK, TableType
  <2>4. PostAccounted'
    BY <1>4, <1>a, <1>b, <1>c DEF ComesDue, PostAccounted
  <2> QED
    BY <1>a, <2>1, <2>2, <2>3, <2>4 DEF OutboxInv
<1>5. ASSUME NEW k \in Callbacks, Ages(k)
      PROVE  OutboxInv'
  <2>1. SentWasReceived'
    BY <1>5, <1>a, <1>b, <1>c DEF Ages, SentWasReceived, TypeOK, TableType
  <2>2. GivenUpAfterAllRetries'
    BY <1>5, <1>a, <1>b, <1>c DEF Ages, GivenUpAfterAllRetries, TypeOK, TableType
  <2>3. OwedOnly'
    BY <1>5, <1>a, <1>b, <1>c DEF Ages, OwedOnly, TypeOK, TableType
  <2>4. PostAccounted'
    BY <1>5, <1>a, <1>b, <1>c DEF Ages, PostAccounted
  <2> QED
    BY <1>a, <2>1, <2>2, <2>3, <2>4 DEF OutboxInv
<1>6. ASSUME ListStart
      PROVE  OutboxInv'
  <2>1. SentWasReceived'
    BY <1>6, <1>a, <1>b, <1>c DEF ListStart, SentWasReceived
  <2>2. GivenUpAfterAllRetries'
    BY <1>6, <1>a, <1>b, <1>c DEF ListStart, GivenUpAfterAllRetries
  <2>3. OwedOnly'
    <3>1. todo' = {"start"} \X First(ReconcileLimit, MissingStart) \/ todo' = todo
      BY <1>6 DEF ListStart
    <3>2. MissingStart \subseteq Txs /\ "start" \in Kinds
      BY DEF MissingStart, Kinds
    <3>3. todo' \subseteq Called
      BY <1>c, <3>1, <3>2, ListedAreCallbacks DEF OwedOnly, Called, MissingStart
    <3> QED
      BY <1>6, <1>b, <1>c, <3>3 DEF ListStart, OwedOnly
  <2>4. PostAccounted'
    BY <1>6, <1>a, <1>b, <1>c DEF ListStart, PostAccounted
  <2> QED
    BY <1>a, <2>1, <2>2, <2>3, <2>4 DEF OutboxInv
<1>7. ASSUME ListCompleted
      PROVE  OutboxInv'
  <2>1. SentWasReceived'
    BY <1>7, <1>a, <1>b, <1>c DEF ListCompleted, SentWasReceived
  <2>2. GivenUpAfterAllRetries'
    BY <1>7, <1>a, <1>b, <1>c DEF ListCompleted, GivenUpAfterAllRetries
  <2>3. OwedOnly'
    <3>1. todo' = {"completed"} \X First(ReconcileLimit, MissingCompleted) \/ todo' =
       todo
      BY <1>7 DEF ListCompleted
    <3>2. MissingCompleted \subseteq Txs /\ "completed" \in Kinds
      BY DEF MissingCompleted, Kinds
    <3>3. todo' \subseteq Called
      BY <1>c, <3>1, <3>2, ListedAreCallbacks DEF OwedOnly, Called, MissingCompleted
    <3> QED
      BY <1>7, <1>b, <1>c, <3>3 DEF ListCompleted, OwedOnly
  <2>4. PostAccounted'
    BY <1>7, <1>a, <1>b, <1>c DEF ListCompleted, PostAccounted
  <2> QED
    BY <1>a, <2>1, <2>2, <2>3, <2>4 DEF OutboxInv
<1>8. ASSUME EnqueueMissing
      PROVE  OutboxInv'
  <2>1. SentWasReceived'
    BY <1>8, <1>a, <1>b, <1>c DEF EnqueueMissing, SentWasReceived, Enqueue, TypeOK,
       TableType
  <2>2. GivenUpAfterAllRetries'
    BY <1>8, <1>a, <1>b, <1>c DEF EnqueueMissing, GivenUpAfterAllRetries, Enqueue,
       TypeOK, TableType
  <2>3. OwedOnly'
    BY <1>8, <1>a, <1>b, <1>c DEF EnqueueMissing, OwedOnly, Enqueue, Owed, TypeOK,
       TableType, WorkerType
  <2>4. PostAccounted'
    BY <1>8, <1>a, <1>b, <1>c DEF EnqueueMissing, PostAccounted
  <2> QED
    BY <1>a, <2>1, <2>2, <2>3, <2>4 DEF OutboxInv
<1>9. ASSUME EnqueuedMissing
      PROVE  OutboxInv'
  <2>1. SentWasReceived'
    BY <1>9, <1>a, <1>b, <1>c DEF EnqueuedMissing, SentWasReceived
  <2>2. GivenUpAfterAllRetries'
    BY <1>9, <1>a, <1>b, <1>c DEF EnqueuedMissing, GivenUpAfterAllRetries
  <2>3. OwedOnly'
    BY <1>9, <1>a, <1>b, <1>c DEF EnqueuedMissing, OwedOnly, Goto
  <2>4. PostAccounted'
    BY <1>9, <1>a, <1>b, <1>c DEF EnqueuedMissing, PostAccounted, Goto
  <2> QED
    BY <1>a, <2>1, <2>2, <2>3, <2>4 DEF OutboxInv
<1>10. ASSUME Claim
      PROVE  OutboxInv'
  <2>1. SentWasReceived'
    BY <1>10, <1>a, <1>b, <1>c DEF Claim, SentWasReceived, TypeOK, TableType, Claimable
  <2>2. GivenUpAfterAllRetries'
    BY <1>10, <1>a, <1>b, <1>c DEF Claim, GivenUpAfterAllRetries, TypeOK, TableType,
       Claimable
  <2>3. OwedOnly'
    <3>1. /\ \A k \in Callbacks : status'[k] # "none" => status[k] # "none"
          /\ todo' \subseteq todo \union {k \in Callbacks : status[k] # "none"}
          /\ UNCHANGED inline
      BY <1>10, <1>a DEF Claim, Claimable, TypeOK, TableType
    <3> QED
      BY <1>b, <1>c, <3>1 DEF OwedOnly, Owed
  <2>4. PostAccounted'
    BY <1>10, <1>a, <1>b, <1>c DEF Claim, PostAccounted
  <2> QED
    BY <1>a, <2>1, <2>2, <2>3, <2>4 DEF OutboxInv
<1>11. ASSUME Post
      PROVE  OutboxInv'
  <2>1. SentWasReceived'
    BY <1>11, <1>a, <1>b, <1>c DEF Post, SentWasReceived
  <2>2. GivenUpAfterAllRetries'
    BY <1>11, <1>a, <1>b, <1>c DEF Post, GivenUpAfterAllRetries, TypeOK, TableType,
       WorkerType, OutsideType, InHand
  <2>3. OwedOnly'
    BY <1>11, <1>a, <1>b, <1>c DEF Post, OwedOnly
  <2>4. PostAccounted'
    <3>1. PICK k \in todo :
            /\ task' = k
            /\ \/ reply' = "fatal"
               \/ reply' = "ok" /\ at' = IF k[1] = "start" THEN "limit" ELSE "mark"
               \/ reply' = "error" /\ failed' = [failed EXCEPT ![k] = @ + 1]
      BY <1>11 DEF Post
    <3>2. k \in Callbacks /\ UNCHANGED retries
      BY <1>11, <1>a DEF Post, TypeOK, WorkerType
    <3>3. reply' = "error" => retries'[k] < failed'[k]
      BY <1>a, <1>c, <3>1, <3>2 DEF GivenUpAfterAllRetries, TypeOK, TableType,
         OutsideType
    <3> QED
      BY <3>1, <3>3 DEF PostAccounted
  <2> QED
    BY <1>a, <2>1, <2>2, <2>3, <2>4 DEF OutboxInv
<1>12. ASSUME UpdateMaxKWh
      PROVE  OutboxInv'
  <2>1. SentWasReceived'
    BY <1>12, <1>a, <1>b, <1>c DEF UpdateMaxKWh, SentWasReceived
  <2>2. GivenUpAfterAllRetries'
    BY <1>12, <1>a, <1>b, <1>c DEF UpdateMaxKWh, GivenUpAfterAllRetries, TypeOK,
       TableType, WorkerType, OutsideType, InHand
  <2>3. OwedOnly'
    BY <1>12, <1>a, <1>b, <1>c DEF UpdateMaxKWh, OwedOnly
  <2>4. PostAccounted'
    <3>1. task \in Callbacks /\ task' = task /\ UNCHANGED retries
      BY <1>12, <1>a DEF UpdateMaxKWh, TypeOK, WorkerType, InHand
    <3>2. reply = "ok"
      BY <1>12, <1>a DEF UpdateMaxKWh, TypeOK, InHand
    <3>3. CASE limited' = limited \union {task[2]} /\ UNCHANGED <<reply, failed>>
      BY <3>1, <3>2, <3>3 DEF PostAccounted
    <3>4. CASE reply' = "error" /\ failed' = [failed EXCEPT ![task] = @ + 1]
      <4>1. retries[task] < failed'[task]
        BY <1>a, <1>c, <3>1, <3>4 DEF GivenUpAfterAllRetries, TypeOK, TableType,
           OutsideType
      <4> QED
        BY <3>1, <3>4, <4>1 DEF PostAccounted
    <3> QED
      BY <1>12, <3>3, <3>4 DEF UpdateMaxKWh
  <2> QED
    BY <1>a, <2>1, <2>2, <2>3, <2>4 DEF OutboxInv
<1>13. ASSUME Mark
      PROVE  OutboxInv'
  <2>1. SentWasReceived'
    <3>1. task \in Callbacks /\ at = "mark" /\ UNCHANGED <<limited, outside>>
      BY <1>13, <1>a DEF Mark, TypeOK, WorkerType, InHand
    <3>2. CASE reply = "ok" /\ MarkSent
      BY <1>a, <1>c, <3>1, <3>2 DEF MarkSent, SentWasReceived, PostAccounted,
         TypeOK, TableType, OutsideType, WorkerType, InHand
    <3>3. CASE (reply = "fatal" \/ (reply = "error" /\ Spent(task))) /\ MarkFatal
      BY <1>a, <1>c, <3>1, <3>3 DEF MarkFatal, Spent, SentWasReceived, PostAccounted,
         TypeOK, TableType, OutsideType, WorkerType, InHand
    <3>4. CASE reply = "error" /\ MarkRetry
      BY <1>a, <1>c, <3>1, <3>4 DEF MarkRetry, SentWasReceived, PostAccounted,
         TypeOK, TableType, OutsideType, WorkerType, InHand
    <3>5. CASE UNCHANGED <<status, retries>>
      BY <1>c, <3>1, <3>5 DEF SentWasReceived
    <3> QED
      BY <1>13, <3>2, <3>3, <3>4, <3>5 DEF Mark
  <2>2. GivenUpAfterAllRetries'
    <3>1. task \in Callbacks /\ at = "mark" /\ UNCHANGED <<limited, outside>>
      BY <1>13, <1>a DEF Mark, TypeOK, WorkerType, InHand
    <3>2. CASE reply = "ok" /\ MarkSent
      BY <1>a, <1>c, <3>1, <3>2 DEF MarkSent, GivenUpAfterAllRetries,
         PostAccounted, TypeOK, TableType, OutsideType
    <3>3. CASE (reply = "fatal" \/ (reply = "error" /\ Spent(task))) /\ MarkFatal
      BY <1>a, <1>c, <3>1, <3>3 DEF MarkFatal, Spent, GivenUpAfterAllRetries,
         PostAccounted, TypeOK, TableType, OutsideType, InHand
    <3>4. CASE reply = "error" /\ MarkRetry
      BY <1>a, <1>c, <3>1, <3>4 DEF MarkRetry, GivenUpAfterAllRetries,
         PostAccounted, TypeOK, TableType, OutsideType
    <3>5. CASE UNCHANGED <<status, retries>>
      BY <1>c, <3>1, <3>5 DEF GivenUpAfterAllRetries
    <3> QED
      BY <1>13, <3>2, <3>3, <3>4, <3>5 DEF Mark
  <2>3. OwedOnly'
    BY <1>13, <1>a, <1>b, <1>c DEF Mark, OwedOnly, MarkSent, MarkFatal, MarkRetry,
       Spent, TypeOK, TableType, WorkerType, OutsideType, InHand
  <2>4. PostAccounted'
    BY <1>13, <1>a, <1>b, <1>c DEF Mark, PostAccounted
  <2> QED
    BY <1>a, <2>1, <2>2, <2>3, <2>4 DEF OutboxInv
<1>14. ASSUME NextRound
      PROVE  OutboxInv'
  <2>1. SentWasReceived'
    BY <1>14, <1>a, <1>b, <1>c DEF NextRound, SentWasReceived
  <2>2. GivenUpAfterAllRetries'
    BY <1>14, <1>a, <1>b, <1>c DEF NextRound, GivenUpAfterAllRetries
  <2>3. OwedOnly'
    BY <1>14, <1>a, <1>b, <1>c DEF NextRound, OwedOnly, Goto
  <2>4. PostAccounted'
    BY <1>14, <1>a, <1>b, <1>c DEF NextRound, PostAccounted, Goto
  <2> QED
    BY <1>a, <2>1, <2>2, <2>3, <2>4 DEF OutboxInv
<1>15. ASSUME Crash
      PROVE  OutboxInv'
  <2>1. SentWasReceived'
    BY <1>15, <1>a, <1>b, <1>c DEF Crash, SentWasReceived
  <2>2. GivenUpAfterAllRetries'
    BY <1>15, <1>a, <1>b, <1>c DEF Crash, GivenUpAfterAllRetries
  <2>3. OwedOnly'
    BY <1>15, <1>a, <1>b, <1>c DEF Crash, OwedOnly
  <2>4. PostAccounted'
    BY <1>15, <1>a, <1>b, <1>c DEF Crash, PostAccounted
  <2> QED
    BY <1>a, <2>1, <2>2, <2>3, <2>4 DEF OutboxInv
<1>16. CASE UNCHANGED vars
  BY <1>16, <1>a, <1>c DEF vars, OutboxInv, SentWasReceived, GivenUpAfterAllRetries,
     OwedOnly, PostAccounted, Called, Owed
<1> QED
  BY <1>1, <1>2, <1>3, <1>4, <1>5, <1>6, <1>7, <1>8, <1>9, <1>10, <1>11, <1>12,
     <1>13, <1>14, <1>15, <1>16
     DEF Next, WorkerStep

(* The inductive invariant holds in every state.                           *)
LEMMA OutboxInvariant == Spec => []OutboxInv
  BY OutboxInit, OutboxStep, PTL DEF Spec

(* What the outbox records as sent has been received, and the limit of a   *)
(* start callback is stored (MarkCallbackSent after postTask), for any     *)
(* number of crashes and failing store calls.                              *)
THEOREM SentMeansReceived == Spec => []SentWasReceived
<1>1. OutboxInv => SentWasReceived
  BY DEF OutboxInv
<1> QED
  BY <1>1, OutboxInvariant, PTL

(* Nothing is given up early (processTask).                                *)
THEOREM NeverGivenUpEarly == Spec => []GivenUpAfterAllRetries
<1>1. OutboxInv => GivenUpAfterAllRetries
  BY DEF OutboxInv
<1> QED
  BY <1>1, OutboxInvariant, PTL

-----------------------------------------------------------------------------
(* No step touches a settled callback.                                     *)
Final ==
  \A k \in Callbacks : status[k] \in Settled =>
    status'[k] = status[k] /\ failed'[k] = failed[k] /\ task' # k

(* Nor does it post one again.                                             *)
LEMMA FinalStep == TypeOK /\ [Next]_vars => [Final]_vars
<1> SUFFICES ASSUME TypeOK, Next PROVE Final
  OBVIOUS
<1> USE CallbackPairs DEF Final, Settled, TypeOK, TableType, WorkerType, OutsideType,
                          InHand, tables, worker, outside
<1>1. ASSUME NEW t \in Txs, Create(t)
      PROVE  Final
  BY <1>1 DEF Create
<1>2. ASSUME NEW t \in Txs, Close(t)
      PROVE  Final
  BY <1>2 DEF Close
<1>3. ASSUME NEW k \in Callbacks, EnqueueInline(k)
      PROVE  Final
  BY <1>3 DEF EnqueueInline, Enqueue
<1>4. ASSUME NEW k \in Callbacks, ComesDue(k)
      PROVE  Final
  BY <1>4 DEF ComesDue
<1>5. ASSUME NEW k \in Callbacks, Ages(k)
      PROVE  Final
  BY <1>5 DEF Ages
<1>6. ASSUME ListStart
      PROVE  Final
  BY <1>6 DEF ListStart
<1>7. ASSUME ListCompleted
      PROVE  Final
  BY <1>7 DEF ListCompleted
<1>8. ASSUME EnqueueMissing
      PROVE  Final
  BY <1>8 DEF EnqueueMissing, Enqueue
<1>9. ASSUME EnqueuedMissing
      PROVE  Final
  BY <1>9 DEF EnqueuedMissing, Goto
<1>10. ASSUME Claim
      PROVE  Final
  BY <1>10 DEF Claim, Claimable
<1>11. ASSUME Post
      PROVE  Final
  BY <1>11 DEF Post
<1>12. ASSUME UpdateMaxKWh
      PROVE  Final
  BY <1>12 DEF UpdateMaxKWh
<1>13. ASSUME Mark
      PROVE  Final
  BY <1>13 DEF Mark, MarkSent, MarkFatal, MarkRetry
<1>14. ASSUME NextRound
      PROVE  Final
  BY <1>14 DEF NextRound, Goto
<1>15. ASSUME Crash
      PROVE  Final
  BY <1>15 DEF Crash
<1> QED
  BY <1>1, <1>2, <1>3, <1>4, <1>5, <1>6, <1>7, <1>8, <1>9, <1>10, <1>11, <1>12,
     <1>13, <1>14, <1>15
     DEF Next, WorkerStep

(* A settled callback is final, whoever comes back to it: a handler, the   *)
(* reconciliation or a claim (the dedupe key, ClaimDueCallbacks).          *)
THEOREM SettledStaysSettled == Spec => SettledIsFinal
<1>1. TypeOK /\ [Next]_vars =>
        [\A k \in Callbacks : status[k] \in Settled =>
           status'[k] = status[k] /\ failed'[k] = failed[k] /\ task' # k]_vars
  BY FinalStep DEF Final
<1> QED
  BY <1>1, TypeCorrect, PTL DEF Spec, SettledIsFinal

-----------------------------------------------------------------------------
(* The outbox implements the promise, step by step.                        *)

(* Initially nothing is owed, told or settled.                             *)
LEMMA PromiseInit == Init => Promise!Init
BY CallbackPairs DEF Init, Promise!Init, Owed, Called, SettledCallbacks, Settled

(* A step of the outbox is an Owe, a Deliver, a Settle or invisible.       *)
LEMMA PromiseStep == OutboxInv /\ [Next]_vars => [Promise!Next]_(Promise!vars)
<1> SUFFICES ASSUME OutboxInv, [Next]_vars PROVE [Promise!Next]_(Promise!vars)
  OBVIOUS
<1>a. TypeOK /\ OwedOnly
  BY DEF OutboxInv
<1>b. ASSUME UNCHANGED <<row, told>>, SettledCallbacks' = SettledCallbacks
      PROVE  UNCHANGED Promise!vars
  BY <1>b DEF Promise!vars, Owed, Called
<1>c. ASSUME UNCHANGED status
      PROVE  SettledCallbacks' = SettledCallbacks
  BY <1>c DEF SettledCallbacks
<1> USE CallbackPairs DEF tables, worker, outside
<1>1. ASSUME NEW t \in Txs, Create(t)
      PROVE  [Promise!Next]_(Promise!vars)
  <2> DEFINE new == <<"start", t>>
  <2>1. Called' = Called \union {new} /\ new \notin Called
    <3>1. /\ \A u \in Txs \ {t} : row'[u] = row[u]
          /\ row[t] = "none" /\ row'[t] = "open"
      BY <1>1, <1>a DEF Create, TypeOK, TableType
    <3>2. ASSUME NEW k \in Callbacks
          PROVE  k \in Called' <=> k \in Called \/ k = new
      <4>1. CASE k[2] = t
        BY <3>1, <4>1 DEF Called, Kinds
      <4>2. CASE k[2] # t
        BY <3>1, <4>2 DEF Called
      <4> QED
        BY <4>1, <4>2
    <3>3. new \in Callbacks /\ new \notin Called
      BY <3>1 DEF Called
    <3> QED
      BY <3>2, <3>3 DEF Called
  <2>2. UNCHANGED told /\ SettledCallbacks' = SettledCallbacks
    BY <1>1, <1>c DEF Create
  <2>3. CASE Sendable(new)
    <3>1. Owed' = Owed \union {new} /\ new \notin Owed
      BY <2>1, <2>3 DEF Owed, Sendable
    <3>2. Promise!Owe(new)
      BY <2>2, <3>1 DEF Promise!Owe
    <3> QED
      BY <3>2 DEF Promise!Next
  <2>4. CASE ~Sendable(new)
    <3>1. Owed' = Owed
      BY <2>1, <2>4 DEF Owed, Sendable
    <3> QED
      BY <2>2, <3>1 DEF Promise!vars
  <2> QED
    BY <2>3, <2>4
<1>2. ASSUME NEW t \in Txs, Close(t)
      PROVE  [Promise!Next]_(Promise!vars)
  <2> DEFINE new == <<"completed", t>>
  <2>1. Called' = Called \union {new} /\ new \notin Called
    <3>1. /\ \A u \in Txs \ {t} : row'[u] = row[u]
          /\ row[t] = "open" /\ row'[t] = "closed"
      BY <1>2, <1>a DEF Close, TypeOK, TableType
    <3>2. ASSUME NEW k \in Callbacks
          PROVE  k \in Called' <=> k \in Called \/ k = new
      <4>1. CASE k[2] = t
        BY <3>1, <4>1 DEF Called, Kinds
      <4>2. CASE k[2] # t
        BY <3>1, <4>2 DEF Called
      <4> QED
        BY <4>1, <4>2
    <3>3. new \in Callbacks /\ new \notin Called
      BY <3>1 DEF Called
    <3> QED
      BY <3>2, <3>3 DEF Called
  <2>2. UNCHANGED told /\ SettledCallbacks' = SettledCallbacks
    BY <1>2, <1>c DEF Close
  <2>3. CASE Sendable(new)
    <3>1. Owed' = Owed \union {new} /\ new \notin Owed
      BY <2>1, <2>3 DEF Owed, Sendable
    <3>2. Promise!Owe(new)
      BY <2>2, <3>1 DEF Promise!Owe
    <3> QED
      BY <3>2 DEF Promise!Next
  <2>4. CASE ~Sendable(new)
    <3>1. Owed' = Owed
      BY <2>1, <2>4 DEF Owed, Sendable
    <3> QED
      BY <2>2, <3>1 DEF Promise!vars
  <2> QED
    BY <2>3, <2>4
<1>3. ASSUME NEW k \in Callbacks, EnqueueInline(k)
      PROVE  [Promise!Next]_(Promise!vars)
  <2>1. SettledCallbacks' = SettledCallbacks
    BY <1>3, <1>a DEF EnqueueInline, SettledCallbacks, Settled, TypeOK, TableType,
       Enqueue
  <2> QED
    BY <1>3, <1>b, <2>1 DEF EnqueueInline
<1>4. ASSUME NEW k \in Callbacks, ComesDue(k)
      PROVE  [Promise!Next]_(Promise!vars)
  <2>1. SettledCallbacks' = SettledCallbacks
    BY <1>4, <1>a DEF ComesDue, SettledCallbacks, Settled, TypeOK, TableType
  <2> QED
    BY <1>4, <1>b, <2>1 DEF ComesDue
<1>5. ASSUME NEW k \in Callbacks, Ages(k)
      PROVE  [Promise!Next]_(Promise!vars)
  <2>1. SettledCallbacks' = SettledCallbacks
    BY <1>5, <1>a DEF Ages, SettledCallbacks, Settled, TypeOK, TableType
  <2> QED
    BY <1>5, <1>b, <2>1 DEF Ages
<1>6. ASSUME ListStart
      PROVE  [Promise!Next]_(Promise!vars)
  BY <1>6, <1>b, <1>c DEF ListStart
<1>7. ASSUME ListCompleted
      PROVE  [Promise!Next]_(Promise!vars)
  BY <1>7, <1>b, <1>c DEF ListCompleted
<1>8. ASSUME EnqueueMissing
      PROVE  [Promise!Next]_(Promise!vars)
  <2>1. SettledCallbacks' = SettledCallbacks
    BY <1>8, <1>a DEF EnqueueMissing, SettledCallbacks, Settled, TypeOK, TableType,
       Enqueue
  <2> QED
    BY <1>8, <1>b, <2>1 DEF EnqueueMissing
<1>9. ASSUME EnqueuedMissing
      PROVE  [Promise!Next]_(Promise!vars)
  BY <1>9, <1>b, <1>c DEF EnqueuedMissing
<1>10. ASSUME Claim
      PROVE  [Promise!Next]_(Promise!vars)
  <2>1. SettledCallbacks' = SettledCallbacks
    BY <1>10, <1>a DEF Claim, SettledCallbacks, Settled, TypeOK, TableType, Claimable
  <2> QED
    BY <1>10, <1>b, <2>1 DEF Claim
<1>11. ASSUME Post
      PROVE  [Promise!Next]_(Promise!vars)
  <2>1. PICK k \in todo : told' \in {told, told \union {k}}
    BY <1>11 DEF Post
  <2>2. k \in Callbacks /\ status[k] = "processing"
    BY <1>11, <1>a DEF Post, TypeOK, WorkerType, InHand
  <2>3. k \in Owed \ SettledCallbacks
    BY <1>a, <2>2 DEF OwedOnly, SettledCallbacks, Settled
  <2>4. UNCHANGED <<row, status>>
    BY <1>11 DEF Post
  <2>5. CASE told' = told \union {k}
    <3>1. Promise!Deliver(k)
      BY <1>c, <2>3, <2>4, <2>5 DEF Promise!Deliver, Owed, Called
    <3> QED
      BY <2>2, <3>1 DEF Promise!Next
  <2> QED
    BY <1>b, <1>c, <2>1, <2>4, <2>5
<1>12. ASSUME UpdateMaxKWh
      PROVE  [Promise!Next]_(Promise!vars)
  BY <1>12, <1>b, <1>c DEF UpdateMaxKWh
<1>13. ASSUME Mark
      PROVE  [Promise!Next]_(Promise!vars)
  <2>1. task \in Callbacks /\ status[task] = "processing" /\ UNCHANGED <<row, told>>
    BY <1>13, <1>a DEF Mark, TypeOK, WorkerType, InHand
  <2>2. task \in Owed \ SettledCallbacks
    BY <1>a, <2>1 DEF OwedOnly, SettledCallbacks, Settled
  <2>3. CASE MarkSent \/ MarkFatal
    <3>1. SettledCallbacks' = SettledCallbacks \union {task}
      BY <1>a, <2>1, <2>3 DEF MarkSent, MarkFatal, SettledCallbacks, Settled, TypeOK,
         TableType
    <3>2. Promise!Settle(task)
      BY <2>1, <2>2, <3>1 DEF Promise!Settle, Owed, Called
    <3> QED
      BY <2>1, <3>2 DEF Promise!Next
  <2>4. CASE MarkRetry
    <3>1. SettledCallbacks' = SettledCallbacks
      BY <1>a, <2>1, <2>4 DEF MarkRetry, SettledCallbacks, Settled, TypeOK, TableType
    <3> QED
      BY <1>b, <2>1, <3>1
  <2>5. CASE UNCHANGED status
    BY <1>b, <1>c, <2>1, <2>5
  <2> QED
    BY <1>13, <2>3, <2>4, <2>5 DEF Mark
<1>14. ASSUME NextRound
      PROVE  [Promise!Next]_(Promise!vars)
  BY <1>14, <1>b, <1>c DEF NextRound
<1>15. ASSUME Crash
      PROVE  [Promise!Next]_(Promise!vars)
  BY <1>15, <1>b, <1>c DEF Crash
<1>16. CASE UNCHANGED vars
  BY <1>16, <1>b, <1>c DEF vars
<1> QED
  BY <1>1, <1>2, <1>3, <1>4, <1>5, <1>6, <1>7, <1>8, <1>9, <1>10, <1>11, <1>12,
     <1>13, <1>14, <1>15, <1>16
     DEF Next, WorkerStep

(* The safety part of the promise: what reaches the CMS was owed, nothing  *)
(* is delivered after it has been settled, and nothing is withdrawn, for   *)
(* any number of crashes and failing store calls.  That everything owed is *)
(* settled in the end is left to the model checker (KeepsPromise).         *)
THEOREM OutboxImplementsPromise == Spec => Promise!Init /\
   [][Promise!Next]_(Promise!vars)
  BY PromiseInit, PromiseStep, OutboxInvariant, PTL DEF Spec
=============================================================================
