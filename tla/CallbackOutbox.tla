---------------------------- MODULE CallbackOutbox ----------------------------
(***************************************************************************)
(* The callback outbox: handlers that enqueue a callback after they have   *)
(* written a transaction, and the worker that repairs missing rows, claims *)
(* due ones, posts them to the CMS one after the other and records how     *)
(* each post ended.  The process may crash between any two steps, which    *)
(* keeps the tables and loses what the handlers and the worker were doing. *)
(*                                                                         *)
(* Code: internal/hooks/manager.go, internal/store/outbox_postgres.go and  *)
(* callback_reconcile_postgres.go.                                         *)
(***************************************************************************)
EXTENDS Naturals, FiniteSets

CONSTANTS Txs,             \* rows of the transaction table, by their id
          Poison,          \* those that close with a total below zero
          Malformed,       \* callbacks no request can be built for
          ReconcileLimit,  \* rows listed by one reconciliation
          ClaimLimit,      \* callbacks claimed at once
          MaxRetries,      \* posts of a callback, by its kind
          MaxFaults,       \* bound on crashes and failing store calls
          NoTask

Kinds == {"start", "completed"}
Callbacks == Kinds \X Txs

ASSUME OutboxAssumption ==
  /\ Txs \subseteq Nat /\ Poison \subseteq Txs
  /\ Malformed \subseteq Callbacks
  /\ {ReconcileLimit, ClaimLimit} \subseteq Nat \ {0}
  /\ MaxRetries \in [Kinds -> Nat \ {0}]
  /\ MaxFaults \in Nat
  /\ NoTask \notin Callbacks

VARIABLES
  (* tables *)
  row,         \* transactions: "none", "open" or "closed"
  limited,     \* transactions whose max_kwh is set
  status,      \* callback_outbox: the status of a callback's row
  retries,     \*                  its retries
  (* memory *)
  inline,      \* callbacks that a handler is about to enqueue
  at,          \* where the worker is
  todo,        \* what it has listed or claimed and not yet handled
  task, reply, \* the callback being posted and how the post ended
  (* outside, and bookkeeping of the specification *)
  told,        \* callbacks the CMS has received
  failed,      \* posts of a callback that ended in an error
  faults

tables == <<row, limited, status, retries>>
worker == <<at, todo, task, reply>>
outside == <<told, failed>>
vars == <<tables, inline, worker, outside, faults>>

(* "waiting" is pending with next_retry_at ahead, "pending" is due; "aged" *)
(* is processing with updated_at two minutes ago.                          *)
Statuses == {"none", "waiting", "pending", "processing", "aged", "sent", "fatal"}
Settled == {"sent", "fatal"}

Places == {"listStart", "queueStart", "listCompleted", "queueCompleted",
           "claim", "post", "limit", "mark"}

TableType == /\ row \in [Txs -> {"none", "open", "closed"}]
             /\ limited \subseteq Txs
             /\ status \in [Callbacks -> Statuses]
             /\ retries \in [Callbacks -> Nat]

WorkerType == /\ inline \subseteq Callbacks
              /\ at \in Places
              /\ todo \subseteq Callbacks
              /\ task \in Callbacks \union {NoTask}
              /\ reply \in {"none", "ok", "error", "fatal"}

OutsideType == /\ told \subseteq Callbacks
               /\ failed \in [Callbacks -> Nat]
               /\ faults \in 0..MaxFaults

(* What the worker has in hand it has claimed, and nothing else touches it.*)
InHand ==
  /\ at \in {"limit", "mark"} <=> task # NoTask
  /\ at = "limit" => task[1] = "start" /\ reply = "ok"
  /\ reply = "ok" => task \in told
  /\ reply = "fatal" => task \in Malformed
  /\ at \in {"post", "limit", "mark"} =>
       \A k \in todo \union ({task} \ {NoTask}) : status[k] = "processing"
  /\ task \notin todo

TypeOK == TableType /\ WorkerType /\ OutsideType /\ InHand

Init ==
  /\ row = [t \in Txs |-> "none"] /\ limited = {}
  /\ status = [k \in Callbacks |-> "none"]
  /\ retries = [k \in Callbacks |-> 0]
  /\ inline = {}
  /\ at = "listStart" /\ todo = {} /\ task = NoTask /\ reply = "none"
  /\ told = {} /\ failed = [k \in Callbacks |-> 0]
  /\ faults = 0

(* A store call fails, or the process dies.                                *)
Fault == faults < MaxFaults /\ faults' = faults + 1
NoFault == UNCHANGED faults

-----------------------------------------------------------------------------
(* Enqueueing.                                                             *)

(* EnqueueCompletedTransaction refuses a total below zero.                 *)
Sendable(k) == ~(k[1] = "completed" /\ k[2] \in Poison)

(* Mutant: an existing row is overwritten (ON CONFLICT DO UPDATE).         *)
EnqueueOver(k) ==
  status' = IF Sendable(k) THEN [status EXCEPT ![k] = "pending"] ELSE status

(* ON CONFLICT (dedupe_key) DO NOTHING.                                    *)
Enqueue(k) ==
  status' = IF Sendable(k) /\ status[k] = "none"
            THEN [status EXCEPT ![k] = "pending"] ELSE status

(* OnStartTransaction and OnStopTransaction write the row ...              *)
Create(t) ==
  /\ row[t] = "none"
  /\ \A u \in Txs : u < t => row[u] # "none"
  /\ row' = [row EXCEPT ![t] = "open"]
  /\ inline' = inline \union {<<"start", t>>}
  /\ UNCHANGED <<limited, status, retries, worker, outside, faults>>

Close(t) ==
  /\ row[t] = "open"
  /\ row' = [row EXCEPT ![t] = "closed"]
  /\ inline' = inline \union {<<"completed", t>>}
  /\ UNCHANGED <<limited, status, retries, worker, outside, faults>>

(* ... and enqueue its callback, if the store lets them.                   *)
EnqueueInline(k) ==
  /\ k \in inline
  /\ inline' = inline \ {k}
  /\ \/ Enqueue(k) /\ NoFault
     \/ Fault /\ UNCHANGED status
  /\ UNCHANGED <<row, limited, retries, worker, outside>>

-----------------------------------------------------------------------------
(* reconcileMissingCallbacks.                                              *)

MissingStart == {t \in Txs : row[t] # "none" /\ status[<<"start", t>>] = "none"}
MissingCompleted ==
  {t \in Txs : row[t] = "closed" /\ status[<<"completed", t>>] = "none"}

(* ORDER BY t.id LIMIT n.                                                  *)
First(n, S) == {t \in S : Cardinality({u \in S : u < t}) < n}

Goto(place) == at' = place /\ UNCHANGED <<todo, task, reply>>

ListStart ==
  /\ at = "listStart"
  /\ \/ /\ at' = "queueStart"
        /\ todo' = {"start"} \X First(ReconcileLimit, MissingStart)
        /\ NoFault
     \/ at' = "listCompleted" /\ UNCHANGED todo /\ Fault
  /\ UNCHANGED <<tables, inline, task, reply, outside>>

(* Mutant: only the start callbacks are repaired.                          *)
SkipCompleted ==
  /\ at = "listCompleted"
  /\ Goto("claim")
  /\ NoFault
  /\ UNCHANGED <<tables, inline, outside>>

ListCompleted ==
  /\ at = "listCompleted"
  /\ \/ /\ at' = "queueCompleted"
        /\ todo' = {"completed"} \X First(ReconcileLimit, MissingCompleted)
        /\ NoFault
     \/ at' = "claim" /\ UNCHANGED todo /\ Fault
  /\ UNCHANGED <<tables, inline, task, reply, outside>>

(* An error is logged and the next transaction follows.                    *)
EnqueueMissing ==
  /\ at \in {"queueStart", "queueCompleted"}
  /\ \E k \in todo :
       /\ todo' = todo \ {k}
       /\ \/ Enqueue(k) /\ NoFault
          \/ Fault /\ UNCHANGED status
  /\ UNCHANGED <<row, limited, retries, inline, at, task, reply, outside>>

EnqueuedMissing ==
  /\ at \in {"queueStart", "queueCompleted"} /\ todo = {}
  /\ Goto(IF at = "queueStart" THEN "listCompleted" ELSE "claim")
  /\ UNCHANGED <<tables, inline, outside, faults>>

-----------------------------------------------------------------------------
(* Claiming and posting.                                                   *)

Claimable == {k \in Callbacks : status[k] \in {"pending", "aged"}}

(* Mutant: the claimed rows are not marked.                                *)
ClaimUnmarked ==
  /\ at = "claim"
  /\ \E batch \in SUBSET Claimable :
       /\ batch = Claimable \/ Cardinality(batch) = ClaimLimit
       /\ todo' = batch
  /\ at' = "post"
  /\ UNCHANGED <<tables, inline, task, reply, outside, faults>>

(* ClaimDueCallbacks is one database transaction.  Which of the due rows   *)
(* it takes when there are too many makes no difference to what follows.   *)
Claim ==
  /\ at = "claim"
  /\ \/ \E batch \in SUBSET Claimable :
          /\ \/ batch = Claimable /\ Cardinality(batch) <= ClaimLimit
             \/ Cardinality(batch) = ClaimLimit
          /\ status' = [k \in Callbacks |-> IF k \in batch THEN "processing"
                                                           ELSE status[k]]
          /\ todo' = batch
          /\ at' = "post"
          /\ NoFault
     \/ at' = "listStart" /\ Fault /\ UNCHANGED <<status, todo>>
  /\ UNCHANGED <<row, limited, retries, inline, task, reply, outside>>

(* postTask: a payload or a URL that does not parse is fatal; otherwise    *)
(* the CMS answers with a limit, or the post ends in an error, which does  *)
(* not mean that the CMS has not received it.                              *)
Post ==
  /\ at = "post"
  /\ \E k \in todo :
       /\ todo' = todo \ {k}
       /\ task' = k
       /\ \/ /\ k \in Malformed
             /\ reply' = "fatal"
             /\ at' = "mark"
             /\ UNCHANGED <<told, failed>>
          \/ /\ k \notin Malformed
             /\ reply' = "ok"
             /\ at' = IF k[1] = "start" THEN "limit" ELSE "mark"
             /\ told' = told \union {k}
             /\ UNCHANGED failed
          \/ /\ k \notin Malformed
             /\ reply' = "error"
             /\ at' = "mark"
             /\ told' \in {told, told \union {k}}
             /\ failed' = [failed EXCEPT ![k] = @ + 1]
  /\ UNCHANGED <<tables, inline, faults>>

(* Mutant: the error of UpdateTransactionMaxKWh is ignored.                *)
UpdateMaxKWhOrNot ==
  /\ at = "limit"
  /\ at' = "mark"
  /\ \/ limited' = limited \union {task[2]} /\ NoFault
     \/ Fault /\ UNCHANGED limited
  /\ UNCHANGED <<row, status, retries, inline, todo, task, reply, outside>>

(* UpdateTransactionMaxKWh; its error makes the post one that failed.      *)
UpdateMaxKWh ==
  /\ at = "limit"
  /\ at' = "mark"
  /\ \/ /\ limited' = limited \union {task[2]}
        /\ NoFault
        /\ UNCHANGED <<reply, failed>>
     \/ /\ reply' = "error"
        /\ failed' = [failed EXCEPT ![task] = @ + 1]
        /\ Fault
        /\ UNCHANGED limited
  /\ UNCHANGED <<row, status, retries, inline, todo, task, told>>

(* Mutant: the retry under way is counted twice.                           *)
SpentEarly(k) == retries[k] + 2 >= MaxRetries[k[1]]

Spent(k) == retries[k] + 1 >= MaxRetries[k[1]]

MarkSent == /\ status' = [status EXCEPT ![task] = "sent"]
            /\ UNCHANGED retries
MarkFatal == /\ status' = [status EXCEPT ![task] = "fatal"]
             /\ UNCHANGED retries
MarkRetry == /\ status' = [status EXCEPT ![task] = "waiting"]
             /\ retries' = [retries EXCEPT ![task] = @ + 1]

(* processTask after the post; the row stays as it is when the store does  *)
(* not take the mark.                                                      *)
Mark ==
  /\ at = "mark"
  /\ \/ /\ \/ reply = "ok" /\ MarkSent
           \/ reply = "fatal" /\ MarkFatal
           \/ reply = "error" /\ Spent(task) /\ MarkFatal
           \/ reply = "error" /\ ~Spent(task) /\ MarkRetry
        /\ NoFault
     \/ Fault /\ UNCHANGED <<status, retries>>
  /\ at' = "post" /\ task' = NoTask /\ reply' = "none"
  /\ UNCHANGED <<row, limited, inline, todo, outside>>

(* The batch is done and the ticker starts the next round.                 *)
NextRound ==
  /\ at = "post" /\ todo = {}
  /\ Goto("listStart")
  /\ UNCHANGED <<tables, inline, outside, faults>>

-----------------------------------------------------------------------------
(* Time and failures.                                                      *)

ComesDue(k) ==
  /\ status[k] = "waiting"
  /\ status' = [status EXCEPT ![k] = "pending"]
  /\ UNCHANGED <<row, limited, retries, inline, worker, outside, faults>>

(* A round of the worker is over in less than two minutes.                 *)
Ages(k) ==
  /\ status[k] = "processing"
  /\ k \notin todo \union {task}
  /\ status' = [status EXCEPT ![k] = "aged"]
  /\ UNCHANGED <<row, limited, retries, inline, worker, outside, faults>>

Crash ==
  /\ Fault
  /\ inline' = {}
  /\ at' = "listStart" /\ todo' = {} /\ task' = NoTask /\ reply' = "none"
  /\ UNCHANGED <<tables, outside>>

WorkerStep ==
  \/ ListStart \/ ListCompleted \/ EnqueueMissing \/ EnqueuedMissing
  \/ Claim \/ Post \/ UpdateMaxKWh \/ Mark \/ NextRound

Next ==
  \/ \E t \in Txs : Create(t) \/ Close(t)
  \/ \E k \in Callbacks : EnqueueInline(k) \/ ComesDue(k) \/ Ages(k)
  \/ WorkerStep
  \/ Crash

Spec == Init /\ [][Next]_vars

(* The worker runs and its clock advances.                                 *)
FairSpec == /\ Spec
            /\ WF_vars(WorkerStep)
            /\ \A k \in Callbacks : WF_vars(ComesDue(k)) /\ WF_vars(Ages(k))

-----------------------------------------------------------------------------
(* A callback marked sent was received by the CMS, and a start callback    *)
(* has left its limit in the transaction: the row is marked after postTask *)
(* has come to its end, whatever was retried or lost on the way.           *)
SentWasReceived ==
  \A k \in Callbacks : status[k] = "sent" =>
     k \in told /\ (k[1] = "start" => k[2] \in limited)

(* A callback that can be posted is given up after MaxRetries posts that   *)
(* failed, never before; a crash or a lost mark may cost further posts, no *)
(* fewer (processTask).                                                    *)
GivenUpAfterAllRetries ==
  \A k \in Callbacks :
     /\ retries[k] <= failed[k]
     /\ status[k] = "fatal" => k \in Malformed \/ failed[k] >= MaxRetries[k[1]]

(* A settled callback stays settled and is not posted again, although a    *)
(* handler, the reconciliation and a claim may all come back to it (the    *)
(* dedupe key and the states ClaimDueCallbacks takes).                     *)
SettledIsFinal ==
  [][\A k \in Callbacks : status[k] \in Settled =>
       status'[k] = status[k] /\ failed'[k] = failed[k] /\ task' # k]_vars

(* What is owed: a start callback of each transaction, a completed one of  *)
(* each that is closed, if it can be reported.                             *)
Called == {k \in Callbacks : \/ k[1] = "start" /\ row[k[2]] # "none"
                             \/ k[1] = "completed" /\ row[k[2]] = "closed"}

Owed == {k \in Called : Sendable(k)}

SettledCallbacks == {k \in Callbacks : status[k] \in Settled}

Promise == INSTANCE CallbackPromise WITH owed <- Owed, settled <- SettledCallbacks

(* The outbox keeps its promise: every callback that is owed is settled,   *)
(* whichever enqueue, post or mark was lost on the way, provided that      *)
(* fewer rows than one reconciliation lists can never be reported.         *)
KeepsPromise == Promise!Spec

-----------------------------------------------------------------------------
(* The inductive invariant behind the safety properties: nobody enqueues a *)
(* callback that is not owed, and what the worker is about to mark is true.*)
OwedOnly ==
  /\ \A k \in Callbacks : status[k] # "none" => k \in Owed
  /\ inline \union todo \subseteq Called

PostAccounted ==
  /\ at = "mark" /\ reply = "ok" /\ task[1] = "start" => task[2] \in limited
  /\ at = "mark" /\ reply = "error" => retries[task] < failed[task]

OutboxInv == /\ TypeOK
             /\ SentWasReceived /\ GivenUpAfterAllRetries
             /\ OwedOnly /\ PostAccounted
=============================================================================
