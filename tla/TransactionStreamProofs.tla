----------------------- MODULE TransactionStreamProofs -----------------------
(***************************************************************************)
(* Proofs about TransactionStream, for any number of transactions, sockets *)
(* and writers: the type invariant, that no published change is lost to a  *)
(* connected socket, that no subscription outlives its handler, and that a *)
(* socket never goes back in time.                                         *)
(***************************************************************************)
EXTENDS TransactionStream, TLAPS

USE StreamAssumption

-----------------------------------------------------------------------------
(* Every variable keeps its type: the type invariant holds initially and   *)
(* every step of the writers and of the handlers preserves it.             *)
LEMMA TypeInit == Init => TypeOK
  BY DEF Init, TypeOK, Locations

(* Every step keeps the types.                                             *)
LEMMA TypeStep == TypeOK /\ [Next]_vars => TypeOK'
<1> SUFFICES ASSUME TypeOK, [Next]_vars PROVE TypeOK'
  OBVIOUS
<1> USE DEF TypeOK, Locations, handlers
<1>1. ASSUME NEW w \in Writers, NEW t \in Txs, WriteRow(w, t)
      PROVE  TypeOK'
  BY <1>1 DEF WriteRow
<1>2. ASSUME NEW w \in Writers, NEW t \in Txs, WriteNothing(w, t)
      PROVE  TypeOK'
  BY <1>2 DEF WriteNothing
<1>3. ASSUME NEW w \in Writers, Publish(w)
      PROVE  TypeOK'
  BY <1>3 DEF Publish
<1>4. ASSUME NEW t \in Txs, WriteUnpublished(t)
      PROVE  TypeOK'
  BY <1>4 DEF WriteUnpublished
<1>5. ASSUME NEW s \in Sockets, NEW t \in Txs, Lookup(s, t)
      PROVE  TypeOK'
  BY <1>5 DEF Lookup
<1>6. ASSUME NEW s \in Sockets, Subscribe(s)
      PROVE  TypeOK'
  BY <1>6 DEF Subscribe
<1>7. ASSUME NEW s \in Sockets, Upgrade(s)
      PROVE  TypeOK'
  BY <1>7 DEF Upgrade
<1>8. ASSUME NEW s \in Sockets, ReadRow(s)
      PROVE  TypeOK'
  BY <1>8 DEF ReadRow
<1>9. ASSUME NEW s \in Sockets, SendRow(s)
      PROVE  TypeOK'
  BY <1>9 DEF SendRow
<1>10. ASSUME NEW s \in Sockets, TakeSignal(s)
       PROVE  TypeOK'
  BY <1>10 DEF TakeSignal
<1>11. ASSUME NEW s \in Sockets, Resync(s)
       PROVE  TypeOK'
  BY <1>11 DEF Resync
<1>12. ASSUME NEW s \in Sockets, Leave(s)
       PROVE  TypeOK'
  BY <1>12 DEF Leave, Listening
<1>13. CASE UNCHANGED vars
  BY <1>13 DEF vars
<1> QED
  BY <1>1, <1>2, <1>3, <1>4, <1>5, <1>6, <1>7, <1>8, <1>9, <1>10, <1>11,
     <1>12, <1>13 DEF Next, WriterStep, HandlerStep

(* Every state of every behaviour is well typed, and a handler is tied to  *)
(* a transaction exactly from its lookup to its return.                    *)
THEOREM TypeCorrect == Spec => []TypeOK
<1>1. QED BY TypeInit, TypeStep, PTL DEF Spec

-----------------------------------------------------------------------------
(* The inductive invariant.  NoLostUpdate alone is not inductive: the      *)
(* handler reaches its select by sending what it read earlier, so one must *)
(* know what a snapshot in hand may miss (NoLostRead), and that a handler  *)
(* which listens is in the subscription table (NoLeakedSubscription).      *)
LEMMA StreamInit == Init => StreamInv
  BY TypeInit DEF Init, StreamInv, VersionsInRange, NoLeakedSubscription,
     NoLostRead, NoLostUpdate, Listening

(* Every step keeps the invariant.                                         *)
LEMMA StreamStep == StreamInv /\ [Next]_vars => StreamInv'
<1> SUFFICES ASSUME StreamInv, [Next]_vars PROVE StreamInv'
  OBVIOUS
<1>0. TypeOK /\ TypeOK'
  BY TypeStep DEF StreamInv
<1> USE <1>0 DEF StreamInv, VersionsInRange, NoLeakedSubscription,
        NoLostRead, NoLostUpdate, TypeOK, Locations, Listening, handlers
<1>1. ASSUME NEW w \in Writers, NEW t \in Txs, WriteRow(w, t)
      PROVE  StreamInv'
  BY <1>1 DEF WriteRow
<1>2. ASSUME NEW w \in Writers, NEW t \in Txs, WriteNothing(w, t)
      PROVE  StreamInv'
  BY <1>2 DEF WriteNothing
<1>3. ASSUME NEW w \in Writers, Publish(w)
      PROVE  StreamInv'
  <2> DEFINE u == wtx[w]
  <2>1. u \in Txs
    BY <1>3 DEF Publish
  <2>2. /\ signal' = [s \in Sockets |-> signal[s] \/ s \in subscribers[u]]
        /\ published' = [published EXCEPT ![u] = row[u]]
        /\ UNCHANGED <<row, subscribers, pc, tx, snap, sent>>
    BY <1>3 DEF Publish
  <2>3. VersionsInRange' /\ NoLeakedSubscription'
    BY <2>1, <2>2
  <2>4. ASSUME NEW s \in Sockets, Listening(s), ~signal'[s]
        PROVE  ~signal[s] /\ published'[tx[s]] = published[tx[s]]
    <3>1. ~signal[s] /\ s \notin subscribers[u]
      BY <2>2, <2>4
    <3>2. tx[s] # u
      BY <2>1, <2>4, <3>1
    <3> QED
      BY <2>2, <3>1, <3>2
  <2>5. NoLostRead' /\ NoLostUpdate'
    BY <2>2, <2>4
  <2> QED
    BY <2>3, <2>5
<1>4. ASSUME NEW t \in Txs, WriteUnpublished(t)
      PROVE  StreamInv'
  BY <1>4 DEF WriteUnpublished
<1>5. ASSUME NEW s \in Sockets, NEW t \in Txs, Lookup(s, t)
      PROVE  StreamInv'
  BY <1>5 DEF Lookup
<1>6. ASSUME NEW s \in Sockets, Subscribe(s)
      PROVE  StreamInv'
  <2>1. pc[s] = "found" /\ tx[s] \in Txs
    BY <1>6 DEF Subscribe
  <2>2. ASSUME NEW r \in Sockets, NEW t \in Txs
        PROVE  r \in subscribers'[t] <=> Listening(r)' /\ tx'[r] = t
    <3>1. subscribers'[t] = IF t = tx[s] THEN subscribers[t] \union {s}
                                        ELSE subscribers[t]
      BY <1>6, <2>1 DEF Subscribe
    <3>2. tx' = tx /\ pc' = [pc EXCEPT ![s] = "subscribed"]
      BY <1>6 DEF Subscribe
    <3>3. CASE r = s
      BY <2>1, <3>1, <3>2, <3>3
    <3>4. CASE r # s
      <4>1. pc'[r] = pc[r]
        BY <3>2, <3>4
      <4> QED BY <3>1, <3>2, <3>4, <4>1
    <3> QED
      BY <3>3, <3>4
  <2>3. /\ UNCHANGED <<row, published, tx, snap, sent>>
        /\ \A r \in Sockets \ {s} : pc'[r] = pc[r] /\ signal'[r] = signal[r]
        /\ pc'[s] = "subscribed"
    BY <1>6 DEF Subscribe
  <2>4. snap[s] \in 0..MaxVersion /\ row[tx[s]] \in 0..MaxVersion
    BY <2>1
  <2>5. VersionsInRange'
    BY <2>1, <2>3, <2>4
  <2>6. NoLostRead' /\ NoLostUpdate'
    BY <2>1, <2>3
  <2> QED
    BY <2>2, <2>5, <2>6
<1>7. ASSUME NEW s \in Sockets, Upgrade(s)
      PROVE  StreamInv'
  BY <1>7 DEF Upgrade
<1>8. ASSUME NEW s \in Sockets, ReadRow(s)
      PROVE  StreamInv'
  BY <1>8 DEF ReadRow
<1>9. ASSUME NEW s \in Sockets, SendRow(s)
      PROVE  StreamInv'
  BY <1>9 DEF SendRow
<1>10. ASSUME NEW s \in Sockets, TakeSignal(s)
       PROVE  StreamInv'
  BY <1>10 DEF TakeSignal
<1>11. ASSUME NEW s \in Sockets, Resync(s)
       PROVE  StreamInv'
  BY <1>11 DEF Resync
<1>12. ASSUME NEW s \in Sockets, Leave(s)
       PROVE  StreamInv'
  BY <1>12 DEF Leave
<1>13. CASE UNCHANGED vars
  BY <1>13 DEF vars
<1> QED
  BY <1>1, <1>2, <1>3, <1>4, <1>5, <1>6, <1>7, <1>8, <1>9, <1>10, <1>11,
     <1>12, <1>13 DEF Next, WriterStep, HandlerStep

(* The inductive invariant of the stream holds in every state.             *)
LEMMA StreamInvariant == Spec => []StreamInv
<1>1. QED BY StreamInit, StreamStep, PTL DEF Spec

(* No published change is lost: whenever a handler waits with an empty     *)
(* channel, its socket has been sent a snapshot at least as recent as the  *)
(* last Publish of its transaction (Subscribe, Publish, sendSnapshot).     *)
THEOREM NothingLost == Spec => []NoLostUpdate
<1>1. StreamInv => NoLostUpdate
  BY DEF StreamInv
<1>2. QED BY <1>1, StreamInvariant, PTL

(* The subscription table holds exactly the handlers that still run        *)
(* (Subscribe and the deferred unsubscribe).                               *)
THEOREM NothingLeaked == Spec => []NoLeakedSubscription
<1>1. StreamInv => NoLeakedSubscription
  BY DEF StreamInv
<1>2. QED BY <1>1, StreamInvariant, PTL

(* The frames of one connection show versions in order (sendSnapshot).     *)
THEOREM FramesInOrder == Spec => SnapshotsMoveForward
<1>1. ASSUME StreamInv, [Next]_vars, NEW s \in Sockets, pc'[s] # "idle"
      PROVE  sent'[s] >= sent[s]
  <2> USE <1>1 DEF StreamInv, TypeOK, handlers
  <2>1. sent[s] \in Nat
    OBVIOUS
  <2>2. ASSUME NEW r \in Sockets, SendRow(r)
        PROVE  sent'[s] >= sent[s]
    BY <2>2, <2>1 DEF SendRow, VersionsInRange, Listening
  <2>3. ASSUME NEW r \in Sockets, Leave(r)
        PROVE  sent'[s] >= sent[s]
    BY <2>3, <2>1 DEF Leave
  <2>4. CASE UNCHANGED sent
    BY <2>4, <2>1
  <2> QED
    BY <2>2, <2>3, <2>4 DEF Next, WriterStep, HandlerStep, WriteRow,
       WriteNothing, WriteUnpublished, Publish, Lookup, Subscribe, Upgrade,
       ReadRow, TakeSignal, Resync, vars
<1>2. StreamInv /\ [Next]_vars
        => (\A s \in Sockets : pc'[s] # "idle" => sent'[s] >= sent[s])
  BY <1>1
<1>3. QED BY <1>2, StreamInvariant, PTL DEF Spec, SnapshotsMoveForward

-----------------------------------------------------------------------------
(* Each step of the stream is a step of the feed, or one that nobody sees. *)
LEMMA FeedInit == Init => Feed!Init
  BY DEF Init, Feed!Init, Watched

(* A step that leaves the pc of every other handler alone changes only     *)
(* what its own socket watches.                                            *)
LEMMA WatchedStep ==
  ASSUME TypeOK, NEW s \in Sockets, NEW l \in Locations, tx' = tx,
         pc' = [pc EXCEPT ![s] = l]
  PROVE  Watched' = [Watched EXCEPT ![s] =
                       IF l \in {"read", "write", "select"} THEN tx[s] ELSE NoTx]
  BY DEF TypeOK, Watched

LEMMA FeedStep == StreamInv /\ [Next]_vars => [Feed!Next]_(Feed!vars)
<1> SUFFICES ASSUME StreamInv, [Next]_vars
             PROVE  [Feed!Next]_(Feed!vars)
  OBVIOUS
<1>t. TypeOK /\ VersionsInRange
  BY DEF StreamInv
<1>w. Watched \in [Sockets -> Txs \union {NoTx}]
  BY <1>t DEF TypeOK, Watched
<1>1. ASSUME NEW w \in Writers, NEW t \in Txs, WriteRow(w, t)
      PROVE  Feed!Change(t)
  <2>1. row[t] + 1 \in 0..MaxVersion
    BY <1>1, <1>t DEF WriteRow, TypeOK
  <2> QED
    BY <1>1, <2>1 DEF WriteRow, Feed!Change, Watched, handlers
<1>2. ASSUME NEW t \in Txs, WriteUnpublished(t)
      PROVE  Feed!Change(t)
  <2>1. row[t] + 1 \in 0..MaxVersion
    BY <1>2, <1>t DEF WriteUnpublished, TypeOK
  <2> QED
    BY <1>2, <2>1 DEF WriteUnpublished, Feed!Change, Watched, handlers
<1>3. ASSUME NEW w \in Writers, Publish(w)
      PROVE  Feed!Publish(wtx[w]) /\ wtx[w] \in Txs
  BY <1>3, <1>t DEF Publish, TypeOK, Feed!Publish, Watched
<1>4. ASSUME NEW s \in Sockets, Upgrade(s)
      PROVE  Feed!Watch(s, tx[s]) /\ tx[s] \in Txs
  <2>1. Watched' = [Watched EXCEPT ![s] = tx[s]]
    BY <1>4, <1>t, WatchedStep DEF Upgrade, Locations
  <2>2. Watched[s] = NoTx /\ tx[s] \in Txs
    BY <1>4, <1>t DEF Upgrade, Watched, VersionsInRange, Listening
  <2>3. row[tx[s]] > 0
    BY <1>4, <1>t DEF Upgrade, VersionsInRange
  <2> QED
    BY <1>4, <2>1, <2>2, <2>3 DEF Upgrade, Feed!Watch, Feed!Watching
<1>5. ASSUME NEW s \in Sockets, SendRow(s)
      PROVE  Feed!Show(s, snap[s]) /\ snap[s] \in 0..MaxVersion
  <2>1. Watched' = Watched
    BY <1>5, <1>t DEF SendRow, Watched, TypeOK
  <2>2. Watched[s] = tx[s] /\ tx[s] \in Txs
    BY <1>5, <1>t DEF SendRow, Watched, VersionsInRange, Listening
  <2>3. sent[s] <= snap[s] /\ snap[s] <= row[tx[s]]
    BY <1>5, <1>t DEF SendRow, VersionsInRange, Listening
  <2> QED
    BY <1>5, <1>t, <2>1, <2>2, <2>3
       DEF SendRow, TypeOK, Feed!Show, Feed!Watching, StreamAssumption
<1>6. ASSUME NEW s \in Sockets, Leave(s)
      PROVE  Feed!Quit(s) \/ UNCHANGED Feed!vars
  <2>1. Watched' = [Watched EXCEPT ![s] = NoTx]
    BY <1>6, <1>t DEF Leave, Watched, TypeOK
  <2>2. CASE pc[s] = "subscribed"
    <3>1. sent[s] = 0 /\ Watched[s] = NoTx
      BY <1>t, <2>2 DEF VersionsInRange, Watched
    <3> QED
      BY <1>6, <1>t, <1>w, <2>1, <3>1 DEF Leave, TypeOK, Feed!vars
  <2>3. CASE pc[s] # "subscribed"
    <3>1. Watched[s] # NoTx
      BY <1>6, <1>t, <2>3 DEF Leave, Listening, Watched, VersionsInRange
    <3> QED
      BY <1>6, <2>1, <3>1 DEF Leave, Feed!Quit, Feed!Watching
  <2> QED
    BY <2>2, <2>3
<1>7. ASSUME NEW s \in Sockets,
             \/ \E t \in Txs : Lookup(s, t)
             \/ Subscribe(s) \/ ReadRow(s) \/ TakeSignal(s) \/ Resync(s)
      PROVE  UNCHANGED Feed!vars
  <2>1. Watched' = Watched
    BY <1>7, <1>t DEF Lookup, Subscribe, ReadRow, TakeSignal, Resync, Watched, TypeOK
  <2> QED
    BY <1>7, <2>1 DEF Lookup, Subscribe, ReadRow, TakeSignal, Resync, Feed!vars
<1>8. ASSUME NEW w \in Writers, NEW t \in Txs, WriteNothing(w, t)
      PROVE  UNCHANGED Feed!vars
  BY <1>8 DEF WriteNothing, handlers, Feed!vars, Watched
<1>9. CASE UNCHANGED vars
  BY <1>9 DEF vars, Feed!vars, Watched
<1> QED
  BY <1>1, <1>2, <1>3, <1>4, <1>5, <1>6, <1>7, <1>8, <1>9
     DEF Next, WriterStep, HandlerStep, Feed!Next

(* The safety part of the feed: a client is shown only versions that its   *)
(* transaction has had, in order, whatever publications are coalesced and  *)
(* wherever handlers return.  That it catches up with what is published is *)
(* left to the model checker (ImplementsFeed).                             *)
THEOREM StreamIsAFeed == Spec => Feed!Init /\ [][Feed!Next]_(Feed!vars)
  BY FeedInit, FeedStep, StreamInvariant, PTL DEF Spec
=============================================================================
