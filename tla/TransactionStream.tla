-------------------------- MODULE TransactionStream --------------------------
(***************************************************************************)
(* The live transaction stream: every successful write of the observable   *)
(* store is followed by Publish, which puts a signal in the one-place      *)
(* channel of each socket subscribed to that transaction; the handler of   *)
(* a socket re-reads the store for every signal it takes and sends the     *)
(* row.  A row is abstracted to a version number that grows at every       *)
(* change (0: no such row): what matters is how recent a snapshot is.      *)
(*                                                                         *)
(* Code: internal/store/transaction_updates.go and                         *)
(* internal/httpapi/frontend_transaction_ws.go.                            *)
(***************************************************************************)
EXTENDS Naturals

CONSTANTS Txs,          \* transaction ids
          Sockets,      \* websocket handlers
          Writers,      \* goroutines that write through the observable store
          NoTx,         \* a handler or a writer that works for no transaction
          MaxVersion    \* bound on the changes of one row

ASSUME StreamAssumption == /\ NoTx \notin Txs
                           /\ MaxVersion \in Nat

VARIABLES row,          \* version of each persisted row
          published,    \* version of the row when Publish last ran for it
          wtx,          \* transaction a writer has changed and not yet published
          subscribers,  \* u.subscribers: the sockets subscribed to a transaction
          signal,       \* the channel of a socket holds a signal
          pc,           \* where a handler is
          tx,           \* transaction a handler serves
          snap,         \* version a handler has read and not yet sent
          sent          \* version of the last snapshot sent on the socket

vars == <<row, published, wtx, subscribers, signal, pc, tx, snap, sent>>
handlers == <<subscribers, signal, pc, tx, snap, sent>>

Locations == {"idle", "found", "subscribed", "read", "write", "select"}

(* The handler has subscribed and its deferred unsubscribe has not run.    *)
Listening(s) == pc[s] \in {"subscribed", "read", "write", "select"}

(* The handler serves an upgraded connection.                              *)
Streaming(s, t) == pc[s] \in {"read", "write", "select"} /\ tx[s] = t

Max2(m, n) == IF m > n THEN m ELSE n

(* Every variable has its type, and a handler is tied to a transaction     *)
(* from its lookup until it returns.                                       *)
TypeOK ==
  /\ row \in [Txs -> 0..MaxVersion]
  /\ published \in [Txs -> 0..MaxVersion]
  /\ wtx \in [Writers -> Txs \union {NoTx}]
  /\ subscribers \in [Txs -> SUBSET Sockets]
  /\ signal \in [Sockets -> BOOLEAN]
  /\ pc \in [Sockets -> Locations]
  /\ tx \in [Sockets -> Txs \union {NoTx}]
  /\ snap \in [Sockets -> 0..MaxVersion]
  /\ sent \in [Sockets -> 0..MaxVersion]
  /\ \A s \in Sockets : tx[s] = NoTx <=> pc[s] = "idle"

Init ==
  /\ row = [t \in Txs |-> 0]
  /\ published = [t \in Txs |-> 0]
  /\ wtx = [w \in Writers |-> NoTx]
  /\ subscribers = [t \in Txs |-> {}]
  /\ signal = [s \in Sockets |-> FALSE]
  /\ pc = [s \in Sockets |-> "idle"]
  /\ tx = [s \in Sockets |-> NoTx]
  /\ snap = [s \in Sockets |-> 0]
  /\ sent = [s \in Sockets |-> 0]

-----------------------------------------------------------------------------
(* Writers: each wrapper method writes through the inner store and         *)
(* publishes only when the write reported success.                         *)

(* CreateTransaction, UpdateLiveMeter, StopTransaction and the others:     *)
(* the row has changed and the call returned no error.                     *)
WriteRow(w, t) ==
  /\ wtx[w] = NoTx
  /\ row[t] < MaxVersion
  /\ row' = [row EXCEPT ![t] = @ + 1]
  /\ wtx' = [wtx EXCEPT ![w] = t]
  /\ UNCHANGED <<published, handlers>>

(* A repeated StopTransaction, or ReleaseLimitStopRequest on a stopped     *)
(* row: success without a change, published all the same.                  *)
WriteNothing(w, t) ==
  /\ wtx[w] = NoTx
  /\ row[t] > 0
  /\ wtx' = [wtx EXCEPT ![w] = t]
  /\ UNCHANGED <<row, published, handlers>>

(* The database committed the change but the call returned an error, or    *)
(* the row was repaired by hand: nobody publishes.                         *)
WriteUnpublished(t) ==
  /\ row[t] < MaxVersion
  /\ row' = [row EXCEPT ![t] = @ + 1]
  /\ UNCHANGED <<published, wtx, handlers>>

(* Mutant: the send stops at the first subscriber whose channel is full.   *)
PublishToOne(w) ==
  /\ wtx[w] # NoTx
  /\ \E s \in Sockets :
       /\ s \in subscribers[wtx[w]] \/ subscribers[wtx[w]] = {}
       /\ signal' = [signal EXCEPT ![s] = @ \/ s \in subscribers[wtx[w]]]
  /\ published' = [published EXCEPT ![wtx[w]] = row[wtx[w]]]
  /\ wtx' = [wtx EXCEPT ![w] = NoTx]
  /\ UNCHANGED <<row, subscribers, pc, tx, snap, sent>>

(* Publish: under u.mu, a non-blocking send to every subscriber.           *)
Publish(w) ==
  /\ wtx[w] # NoTx
  /\ signal' = [s \in Sockets |-> signal[s] \/ s \in subscribers[wtx[w]]]
  /\ published' = [published EXCEPT ![wtx[w]] = row[wtx[w]]]
  /\ wtx' = [wtx EXCEPT ![w] = NoTx]
  /\ UNCHANGED <<row, subscribers, pc, tx, snap, sent>>

-----------------------------------------------------------------------------
(* A websocket handler.                                                    *)

(* GetByTransactionIDAndIDTag finds the row; a missing row is a 404 and    *)
(* leaves the handler idle.                                                *)
Lookup(s, t) ==
  /\ pc[s] = "idle"
  /\ row[t] > 0
  /\ pc' = [pc EXCEPT ![s] = "found"]
  /\ tx' = [tx EXCEPT ![s] = t]
  /\ UNCHANGED <<row, published, wtx, subscribers, signal, snap, sent>>

Subscribe(s) ==
  /\ pc[s] = "found"
  /\ subscribers' = [subscribers EXCEPT ![tx[s]] = @ \union {s}]
  /\ signal' = [signal EXCEPT ![s] = FALSE]
  /\ pc' = [pc EXCEPT ![s] = "subscribed"]
  /\ UNCHANGED <<row, published, wtx, tx, snap, sent>>

(* Mutant: the handler waits for signals without the snapshot after the    *)
(* upgrade, trusting the row its lookup found.                             *)
UpgradeWithoutReread(s) ==
  /\ pc[s] = "subscribed"
  /\ pc' = [pc EXCEPT ![s] = "select"]
  /\ UNCHANGED <<row, published, wtx, subscribers, signal, tx, snap, sent>>

(* The connection is upgraded; the handler goes on to its first snapshot.  *)
Upgrade(s) ==
  /\ pc[s] = "subscribed"
  /\ pc' = [pc EXCEPT ![s] = "read"]
  /\ UNCHANGED <<row, published, wtx, subscribers, signal, tx, snap, sent>>

(* Mutant: the frame shows any version the notification may have carried,  *)
(* instead of the row read now.                                            *)
ReadAnyVersion(s) ==
  /\ pc[s] = "read"
  /\ \E v \in 1..row[tx[s]] : snap' = [snap EXCEPT ![s] = v]
  /\ pc' = [pc EXCEPT ![s] = "write"]
  /\ UNCHANGED <<row, published, wtx, subscribers, signal, tx, sent>>

(* sendSnapshot, first half: re-read the durable row.                      *)
ReadRow(s) ==
  /\ pc[s] = "read"
  /\ snap' = [snap EXCEPT ![s] = row[tx[s]]]
  /\ pc' = [pc EXCEPT ![s] = "write"]
  /\ UNCHANGED <<row, published, wtx, subscribers, signal, tx, sent>>

(* Mutant: the signal is drained after the read instead of before it.      *)
SendRowAndDrain(s) ==
  /\ pc[s] = "write"
  /\ sent' = [sent EXCEPT ![s] = snap[s]]
  /\ signal' = [signal EXCEPT ![s] = FALSE]
  /\ pc' = [pc EXCEPT ![s] = "select"]
  /\ UNCHANGED <<row, published, wtx, subscribers, tx, snap>>

(* sendSnapshot, second half: WriteJSON.                                   *)
SendRow(s) ==
  /\ pc[s] = "write"
  /\ sent' = [sent EXCEPT ![s] = snap[s]]
  /\ pc' = [pc EXCEPT ![s] = "select"]
  /\ UNCHANGED <<row, published, wtx, subscribers, signal, tx, snap>>

(* The select receives from the updates channel.                           *)
TakeSignal(s) ==
  /\ pc[s] = "select"
  /\ signal[s]
  /\ signal' = [signal EXCEPT ![s] = FALSE]
  /\ pc' = [pc EXCEPT ![s] = "read"]
  /\ UNCHANGED <<row, published, wtx, subscribers, tx, snap, sent>>

(* Mutant: the ticker case does not send.                                  *)
ResyncWithoutSend(s) ==
  /\ pc[s] = "select"
  /\ signal[s]
  /\ UNCHANGED vars

(* The select receives from the 30-second resync ticker.                   *)
Resync(s) ==
  /\ pc[s] = "select"
  /\ pc' = [pc EXCEPT ![s] = "read"]
  /\ UNCHANGED <<row, published, wtx, subscribers, signal, tx, snap, sent>>

(* Mutant: a return without the deferred unsubscribe.                      *)
LeaveSubscribed(s) ==
  /\ Listening(s)
  /\ pc' = [pc EXCEPT ![s] = "idle"]
  /\ tx' = [tx EXCEPT ![s] = NoTx]
  /\ snap' = [snap EXCEPT ![s] = 0]
  /\ sent' = [sent EXCEPT ![s] = 0]
  /\ UNCHANGED <<row, published, wtx, subscribers, signal>>

(* Mutant: a return that leaves the transaction on the handler.            *)
LeaveWithTransaction(s) ==
  /\ Listening(s)
  /\ subscribers' = [subscribers EXCEPT ![tx[s]] = @ \ {s}]
  /\ pc' = [pc EXCEPT ![s] = "idle"]
  /\ UNCHANGED <<row, published, wtx, signal, tx, snap, sent>>

(* The handler returns: the upgrade, a read or a write failed, the client  *)
(* went away or the request was cancelled.  The deferred calls run.        *)
Leave(s) ==
  /\ Listening(s)
  /\ subscribers' = [subscribers EXCEPT ![tx[s]] = @ \ {s}]
  /\ signal' = [signal EXCEPT ![s] = FALSE]
  /\ pc' = [pc EXCEPT ![s] = "idle"]
  /\ tx' = [tx EXCEPT ![s] = NoTx]
  /\ snap' = [snap EXCEPT ![s] = 0]
  /\ sent' = [sent EXCEPT ![s] = 0]
  /\ UNCHANGED <<row, published, wtx>>

-----------------------------------------------------------------------------
WriterStep(w) == \/ \E t \in Txs : WriteRow(w, t) \/ WriteNothing(w, t)
                 \/ Publish(w)

HandlerStep(s) == \/ \E t \in Txs : Lookup(s, t)
                  \/ Subscribe(s) \/ Upgrade(s) \/ ReadRow(s) \/ SendRow(s)
                  \/ TakeSignal(s) \/ Resync(s) \/ Leave(s)

Next == \/ \E w \in Writers : WriterStep(w)
        \/ \E t \in Txs : WriteUnpublished(t)
        \/ \E s \in Sockets : HandlerStep(s)

Spec == Init /\ [][Next]_vars

(* A goroutine that has written goes on to publish, and a handler that is  *)
(* not waiting in its select goes on; a signal in the channel is taken.    *)
EventFairness ==
  /\ \A w \in Writers : WF_vars(Publish(w))
  /\ \A s \in Sockets :
       /\ WF_vars(Subscribe(s)) /\ WF_vars(Upgrade(s))
       /\ WF_vars(ReadRow(s)) /\ WF_vars(SendRow(s))
       /\ WF_vars(TakeSignal(s))

EventSpec == Spec /\ EventFairness

-----------------------------------------------------------------------------
(* Coalescing loses nothing: a handler that waits in its select with an    *)
(* empty channel has sent a snapshot at least as recent as the last        *)
(* Publish of its transaction, whatever happened between its lookup, its   *)
(* subscription, its reads and the publications (frontend_transaction_ws.go*)
(* 115: "an update between validation and upgrade cannot be missed";       *)
(* transaction_updates.go 60: signals "can be coalesced safely").          *)
NoLostUpdate ==
  \A s \in Sockets :
    pc[s] = "select" /\ ~signal[s] => sent[s] >= published[tx[s]]

(* The subscription table holds exactly the handlers that still run: a     *)
(* handler that ended by any path has left the table of its transaction,   *)
(* and a running one is in no other (Subscribe and its deferred cancel).   *)
NoLeakedSubscription ==
  \A s \in Sockets, t \in Txs :
    s \in subscribers[t] <=> Listening(s) /\ tx[s] = t

(* A socket never goes back in time: two snapshots of one connection are   *)
(* sent in the order of the versions they show, although signals, resync   *)
(* ticks and writers interleave (sendSnapshot re-reads for every frame).   *)
SnapshotsMoveForward ==
  [][\A s \in Sockets : pc'[s] # "idle" => sent'[s] >= sent[s]]_vars

(* The ticker repairs what nobody published: every version of the row, of  *)
(* a write that reported an error or of an external repair too, reaches    *)
(* every socket that stays connected (the resync case of the select).      *)
EveryVersionIsDelivered ==
  (\A s \in Sockets : WF_vars(Resync(s))) =>
    \A s \in Sockets, t \in Txs : \A v \in 1..MaxVersion :
      (Streaming(s, t) /\ row[t] >= v)
        ~> (~Streaming(s, t) \/ sent[s] >= v)

(* What a client has in its hands: a socket watches from its upgrade on.   *)
Watched == [s \in Sockets |-> IF pc[s] \in {"read", "write", "select"}
                              THEN tx[s] ELSE NoTx]

Feed == INSTANCE LiveFeed WITH Watchers <- Sockets, Versions <- 0..MaxVersion,
                               current <- row, watched <- Watched, shown <- sent

(* The stream implements the feed: subscription, coalesced signals, reads  *)
(* and sends amount to versions shown in order, each of the transaction    *)
(* asked for, and signals alone, with no help of the ticker, deliver each  *)
(* that is published or a later one to every socket that stays connected   *)
(* (frontendTransactionWebSocket, Publish).                                *)
ImplementsFeed == Feed!Spec

-----------------------------------------------------------------------------
(* The inductive invariant behind NoLostUpdate.                            *)

(* A published version is a version the row had, a handler serves a row    *)
(* that is there, and a snapshot in hand or sent is no newer than it.      *)
VersionsInRange ==
  /\ \A t \in Txs : published[t] <= row[t]
  /\ \A s \in Sockets : Listening(s) =>
       snap[s] <= row[tx[s]] /\ sent[s] <= snap[s]
  /\ \A s \in Sockets : pc[s] # "idle" => tx[s] \in Txs /\ row[tx[s]] > 0
  /\ \A s \in Sockets : pc[s] \in {"idle", "found", "subscribed"} =>
       snap[s] = 0 /\ sent[s] = 0

(* Between the read and the send, a publication the snapshot does not show *)
(* has left a signal.                                                      *)
NoLostRead ==
  \A s \in Sockets :
    pc[s] = "write" /\ ~signal[s] => snap[s] >= published[tx[s]]

StreamInv == /\ TypeOK
             /\ VersionsInRange
             /\ NoLeakedSubscription
             /\ NoLostRead
             /\ NoLostUpdate
=============================================================================
