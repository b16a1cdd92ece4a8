# OCPPHAL Go: TLA+ models, checks and proofs

OCPPHAL Go is an OCPP 1.6 central system.  Chargers hold websockets to it, a CMS
starts and stops charging over HTTP and is told of started and completed
transactions by callbacks, frontends watch transactions live.  The state that
must survive a restart is in PostgreSQL: the `transactions` table and the
`callback_outbox`.  Everything else is in memory: a registry of what chargers
report, a tracker of their sockets, pending flags, caches, subscriptions, and
goroutines, which is where most of what can go wrong is.

The modules here model those parts at the granularity of one critical section or
one store call per step.  TLC checks them on small instances, and TLAPS proves
every safety property of the passing runs for every value of the constants.

    tlc -config LimitStop.cfg MCLimitStop.tla      # one run
    tlapm LimitStopProofs.tla                      # one proof module

`PROJECT.json` lists the runs, the mutants that show that each property can
fail, the source lines of each definition, the hazards and the theorems.

## The system

| component | state | operations | spoken to by |
|---|---|---|---|
| transaction handlers (`hal.go`) | rows of `transactions`, the registry | OnStartTransaction, OnMeterValues, OnStopTransaction, OnStatusNotification | OCPP library, one goroutine per message |
| boot recovery (`recovery.go`) | `bootRecoveryRunning`, a snapshot of open transactions | on BootNotification: wait, judge, force-close or RemoteStop + Unlock with retries | OnBootNotification |
| limit stop (`limit_stop.go`) | `limit_stop_requested`, `max_kwh` in the row; a goroutine per claim | claim, RemoteStop with back-off, release | OnMeterValues, the callback worker |
| callback outbox (`hooks/manager.go`, `store/outbox_*`, `store/callback_reconcile_*`) | rows of `callback_outbox` | enqueue, reconcile, claim, post, mark | transaction handlers, recovery, one worker goroutine |
| transaction stream (`transaction_updates.go`, `frontend_transaction_ws.go`) | subscriptions and one-place channels | Publish after every write; subscribe, read, send, leave | every store write; frontends |
| connection tracker and online flag (`connections.go`, `registry.go`, `inactivity.go`) | generation and key of the active socket; `Online`, `LastMessageTime` | register, unregisterIfCurrent, Touch, MarkOffline, CheckInactivity | OCPP library, HTTP API |
| remote start (`single_session.go`, `hal.go`, `server.go`) | `pendingRemoteStartSingleSessions`, a channel per request | record, send, wait or time out, clear, consume | HTTP API, OnStartTransaction |
| charger directory (`chargerdir/service.go`) | cached ids, `expiresAt` | lookup, fetch | connection validation, `/api/status` |
| registry, rest (`registry.go`) | connector status, errors, readings | Apply..., Snapshot | handlers, HTTP API, status websocket |
| other commands (`extra.go`, `remote_only.go`, HTTP routes) | `remoteOnlySyncOnce` | one OCPP call each | HTTP API |
| analytics, configuration, start-up | none of their own | read-only queries, wiring | HTTP API |
| software charger (`cmd/cpconsole`) | status, transaction, register, pending remote commands; `opsMu` over operations, `mu` over data | start, stop, meter, status by command; remote start and stop, availability, reset, trigger by request | people at a console, the central system |
| smoke clients, hook mock (`cmd/`) | none that outlives them | test scripts | people |

What makes the behaviour hard:

* a handler takes several store calls and registry calls, each atomic, none
  together; two messages of one charger are handled concurrently;
* a restart or a lost reply may fall between any two of them, and an error may be
  reported for a write that was committed;
* durable flags are owned by goroutines that are not durable (limit stop);
* lists are read and worked through later (recovery, reconciliation, claims);
* OCPP calls are answered late, after their HTTP request has timed out;
* signals are coalesced, caches overwritten by whoever comes last;
* the charger's goroutines read its data before they get the lock of its
  operations, and what it and the central system know parts when a call is lost.

`PROJECT.json` has these, line by line, under `hazards`.

What makes the components correct, in a sentence each: what a charger was told
is in the tables; what is billed is what the table says, once; a connector
carries one transaction; recovery closes only what it should and ends; a limit
that is crossed is noticed and pursued by one stopper; an owed callback is
delivered or given up after all its retries, and then left alone; a watcher ends
up with the last version and never goes back; the newest socket is the one
registered; a single-session flag routes one transaction and nobody waits for
ever; an answer of the directory was true not long ago; the charger and the
central system agree on what is being charged.

## Modules

Each component has a module, an `MC` module with one or more `.cfg` files, and a
`Proofs` module; CallbackPromise, SessionLedger and LiveFeed are specifications that
a component implements, and SessionReconciliation composes two.  Operators carry the names of the Go
functions where these are one step; a function that takes several locks or store
calls is split at them, and its parts are named for what they do.

### ChargingSession, implementing SessionLedger

Transactions of one charger.  `tx`, `queued` and `billed` are the tables (rows,
start callbacks, the reading in completed callbacks), `registry` is in memory,
`pc`/`req` are the handlers, `rpc`, `todo`, `rtx`, `rmeter` the recovery
goroutine.  OnStartTransaction is `ListOpen`, `Create`, `StartApply`,
`StartQueue`; OnMeterValues is `Resolve`, `MeterApply`, `UpdateLiveMeter`;
OnStopTransaction is `StopRow`, `StopQueue`, `StopApply`; `GiveUp` is the error
return of each store call.  Recovery is `Boot` to `Unlock`, and `Deadline`.
`Restart` drops memory and keeps tables.  A store call that reports an error may
have been committed.  Readings are compared, never added.

The properties name two windows that the code leaves open: `late` (a meter value
stored after the stop: `UpdateLiveMeter` has no `stop_time IS NULL`) and `raced`
(`ForceCloseTransaction` does not look at the rows it changed).  `overlapped` is
the third: two starts of a connector handled at once both pass the check.  A start
that finds another open on its connector is refused (Blocked), or taken for a retry
when tag and reading are the same (hal.go:544-575); it replaces nothing.

SessionLedger is what all of this amounts to for a session: it is opened once,
its id is granted only with its announcement to the CMS, it is closed once,
billed once for the reading in its row (or, in dispute, another) and confirmed
after that.  The refinement mapping reads the ledger off the tables: `session` is
`tx`, `announced` the start callbacks, `bill` the completed ones, `disputed` the
two windows.

### SessionReconciliation, of ChargingSession and the callback worker

The worker does not only deliver what handlers enqueue: it lists the transactions
whose callback is missing and enqueues them itself, from a copy of the row
(`listed`), while a handler or the recovery is about to enqueue the same.
SessionReconciliation adds these two steps (`ListMissing`, `EnqueueMissing`) to
ChargingSession; the properties and the ledger are ChargingSession's.

### LimitStop

`max_kwh` of one transaction.  The MeterValues handlers write the consumption and
check; the callback worker writes the limit and checks; whoever sets
`limit_stop_requested` starts a stopper that asks the charger up to
`MaxAttempts` times and then releases the claim.  Faults (bounded) are lost
replies, store errors and restarts.  The worker is started before it is given the
limit stopper (`wired`, main.go:44 and :48): what it stores until then is checked
by the next MeterValues only.

### CallbackOutbox, implementing CallbackPromise

The two tables, the handlers that enqueue (`inline`), and the worker:
`ListStart`, `ListCompleted`, `EnqueueMissing` (reconciliation), `Claim`,
`Post`, `UpdateMaxKWh`, `Mark`.  `Poison` rows close with a negative total and
can never be reported; `Malformed` callbacks can never be posted.  `Crash` loses
the worker and the handlers.  CallbackPromise is the specification: a callback
that is owed is delivered any number of times and then settled, in the end.  The
refinement mapping counts as owed what the transaction table calls for and the
enqueue accepts, and as settled what is `sent` or `fatal`.

### TransactionStream, implementing LiveFeed

A row is a version number.  Writers change and publish in two steps, or change
and do not publish; a websocket handler looks up, subscribes, upgrades, reads,
sends and selects, and may leave at any point.  LiveFeed is what this amounts to for
a client: versions of the transaction it asked for, shown in order, and with each
published version caught up in the end.  The refinement mapping has a socket watch
from its upgrade on; subscriptions, signals and reads are not seen.

### ConnectionTracker

The sockets of one charger, numbered, with the place of their handlers; the
tracker's record; the registry's flag.  The disconnect handler is `Unregister`
then `MarkOffline`, the connect handler `Register` then `ConnectTouch`; messages
are touched in goroutines of their own.

### RemoteStart

HTTP requests with their flag, OCPP call, callback and channel, the charger's
decision, and the StartTransactions that consume a flag, those of a charger that
reports connector 0 included.

### ChargerDirectory

Lookups of one charger id by several callers, in ticks of time: the cache is
valid for `TTL` ticks, a request for `FetchTimeout`.  Nothing prevents concurrent
fetches, and the last to end is the one cached.  A reply may be of a shape
`extractIDs` does not walk: an empty list (`unreadable`), cached like any other.

### VirtualCharger

The software charger of `cmd/cpconsole` together with the central system as it
sees it, one step per call.  `sim` is its data, `opsMu` its operations lock,
`task` what each goroutine is doing: an operation is its checks and the lock
(`Start`, `Stop`, `Meter`), its call (`StartCall`, `StopCall`, `MeterCall`, each
with a lost answer or an error), and the store of what came back (`Started`,
`Stopped`, `Target`); `setStatus` is `Notify` then `Noted`.  Remote requests
(`OnRemoteStart` ... `TriggerMessage`) leave a goroutine that acts later.  `rows`
and `registry` are what the central system keeps of it.  `recovery` is its boot
recovery, which holds no lock from one step to the next: it reads a row
(`RecoveryPicks`), judges by the registry (`Judge`), and closes the row with the
reading it has read (`ForceClose`) and clears the connector (`RecoveryApplyStop`),
or shows the transaction in the registry in two calls (`Hydrate`, `HydrateMeter`);
the charger's starts, readings and stops fall in between.  The register is in half
Wh, because readings are sent rounded by MeterValues and truncated by start and
stop; `MeterStart` is what it shows when the process starts.  `Total` is the
consumption the store computes with `DeltaWh` at every write, over a register that
turns after `Rollover`.  History variables name what has parted the two sides:
`orphans` (transactions the charger never learnt of or forgot), `lost` (closed
without its being told), `muddled` (a status crossed another or was not sent),
`overtaken` (recovery has shown a transaction that had ended, or cleared one that
had begun; the next start, reading or stop puts that right).  Policies, configuration, diagnostics, firmware
and the parsing of commands are left out; a request that a policy refuses does
nothing.

### How they fit

SessionReconciliation has the handlers, the recovery and the worker's reconciliation
on the same tables.  The other modules share operations, not variables:
ChargingSession has the outbox as two variables whose rows only appear, which is
what CallbackOutbox's callers (`EnqueueInline`, `Enqueue`) do to it; LimitStop has one row of the transaction
table and the part of the callback worker that writes `max_kwh`, which is
CallbackOutbox's `UpdateMaxKWh`; TransactionStream takes any write of any of them
as a new version; ConnectionTracker has the registry's online flag, and
ChargingSession its transactions.

## Runs

| run | instance | shows |
|---|---|---|
| `session_accounting` | 2 handlers, 1 transaction, 2 readings, recovery, reconciliation, restarts | ToldIsDurable, BilledAsStored, KeepsLedger (the refinement), TypeOK |
| `session_recovery` | 1 handler, 2 transactions, fairness | OneOpenPerConnector, RecoverySparesNewSessions, RecoveryEnds |
| `session_late_meter` | 1 handler, 1 transaction | TableAndOutboxAgree fails |
| `limit_stop` | 2 handlers, 2 stoppers, limits 1 and 2, meter to 2, 2 attempts, 1 fault | OneStopper, NoMissedCrossing, OrphanedByFault, LimitEnforcedUnlessOrphaned |
| `limit_stop_restart` | 1 handler, 1 fault | LimitEnforced fails |
| `callback_outbox` | 2 transactions (1 poison), 1 malformed callback, 1 fault | sent, given up, settled; KeepsPromise (the refinement) |
| `transaction_stream` | 1 transaction, 2 sockets, 2 writers, 3 versions | nothing lost, leaked or sent backwards; ImplementsFeed (the refinement); with the ticker every written version is delivered |
| `connection_tracker` | 4 sockets, 2 messages in handlers | NewestIsRegistered, ConnectedIsShownOnline |
| `connection_stale_disconnect` | 2 sockets, 1 message | StaleDisconnectIsHarmless fails |
| `remote_start` | 2 requests, 1 connector, 2 tags, 1 local start | flags, routing, nobody waits |
| `charger_directory` | 2 callers, TTL 2, timeout 2 | AnswersWereTrue, EveryLookupEnds |
| `virtual_charger` | console and 1 goroutine, recovery; 2 transactions, a register from 3 to 5 half Wh, or 1 fault | SessionsAgree, PendingIsCurrent, RegistryFollows, ReadingsAscend, BilledForward |

Why the bounds are enough.  The races are between two parties: two handlers of a
transaction, a handler and recovery, a handler and the worker, an old and a new
socket, two fetches.  Two of each, and a third and fourth socket so that a
superseded one can be superseded again, give all of them.  One row is enough
where rows do not interact (accounting, limit, stream); two where they do
(a connector's next transaction, the reconciliation's head of line, the
recovery's list).  One fault separates what holds without from what holds with
one, and the proofs cover any number.  Two attempts separate the last from the
others; a meter and a limit of 2 give a limit raised, met and exceeded.  The
software charger's one goroutine beside the console is enough for any two that
meet at the lock, its second transaction for a command or a recovery that outlives
the first.  A register from 3 to 5 half Wh is odd or even, with room for two
readings between the start and the stop, and the start is not at 0: a reading
rounded up before it is truncated, and one that recovery writes back two Wh below
the last, both occur.  `Rollover` is 7, beyond its readings, so a turn billed by
mistake shows.  The run takes the second transaction, the register that moves, and
faults or crossed statuses one at a time (the constraint OneAtATime of
MCVirtualCharger), for their product is beyond a few minutes; the theorems have all
of it at once.
The theorems below lift these bounds for every safety property of the passing runs;
the liveness properties stay bounded.

`session_recovery` has one handler, so starts do not overlap there; with more
handlers OneOpenPerConnector rests on its theorem.

`CHECK_DEADLOCK FALSE` is set where the instance really stops: no meter value
after the transaction is closed, no socket beyond `MaxSockets`, all requests
answered.

### Disagreements with the documents

Three runs are expected to fail; each quotes a sentence of the documents in
`PROJECT.json` under `findings`: a limit-stop claim orphaned by a restart
(README.md:15), a meter value that overwrites a closed row
(DEVELOPMENT_PLAN.md:14), and a stale disconnect between two locks (README.md:18).

Two more were met while modelling and have no run of their own:

* docs/USER_FRONTEND_LIVE_TRANSACTION_INTEGRATION.md:47 has a 200 reply to a remote
  start mean that the request was accepted.  single_session.go:31 drops the error
  of a call that is not for a single session, and the reply is a 200 with an empty
  status (`Fail` in RemoteStart).
* docs/SOFTWARE_CHARGER.md:147: "The energy register is monotonic and is transmitted
  in Wh."  MeterValues rounds it (main.go:512, `%.0f`) and
  StopTransaction truncates it (main.go:541), so the last reading can be one Wh
  below the one before, which the registry takes for a rollover (registry.go:162,
  against the last reading).  ReadingsAscend allows this step back; the store
  measures from the start of the session, and BilledForward shows that it is not
  misled.

ReadingsAscend allows one more step back, which no document speaks of: boot recovery
closes a session with the reading it read before (recovery.go:110), although a
MeterValues may have come since (postgres.go:318 writes what it is given).  That
reading may be any number of Wh back, and the energy between the two is not billed.

### Fairness

* LimitStop: goroutines go on and main comes to SetLimitStopper; strong fairness that the charger does not refuse a
  RemoteStop for ever; having accepted one it stops.  The transaction is enforced
  only as long as no claim is orphaned.
* ChargingSession: recovery's calls have timeouts, so its steps are fair; the loop
  looks at its deadline each round, so the deadline is taken under strong fairness.
  Nothing is assumed of handlers or charger.
* CallbackOutbox: the worker loop runs (its HTTP client has a timeout) and its
  clock advances; faults are finite.
* TransactionStream: handlers and publishers go on.  The ticker is assumed only for
  EveryVersionIsDelivered, as a premise of the property.
* ConnectionTracker: handlers run; a connected charger sends heartbeats.
* RemoteStart: handlers and callbacks run, and a request that waits times out; the
  charger may stay silent.
* ChargerDirectory: goroutines run, the client's timer fires, the clock goes on; the
  CMS may stay silent.

## Proofs

Each theorem is `Spec => []Inv` or `Spec => [][A]_vars` by an inductive
invariant, named in the module that defines the properties.

* **TransactionStream**, `StreamInv`.  NoLostUpdate is about handlers that wait;
  it needs NoLostRead (between the read and the send, a publication that the
  snapshot does not show has left a signal) and VersionsInRange (a snapshot is no
  newer than the row).  StreamIsAFeed is the safety half of the refinement: a row
  once found stays, a snapshot in hand is between what was shown and the row.
* **LimitStop**, `LimitInv`.  OneStopper holds because a claim can be taken only
  when it is free: that an active stopper holds the claim is part of it, and a
  release is by the one stopper.  NoMissedCrossing is
  inductive once each writer is in its check after its write.
* **ChargingSession**: TypeOK needs KnownRows (who is past the step that finds a
  row knows a row).  Durability and billing need StopsKnown (the reading in a
  handler's hand is that of the closed row it read, unless late or raced).
  OneOpenPerConnector needs StartsAlone (without overlap, a start that has passed
  the check is the only one of its connector).  RecoverySparesNewSessions needs
  RecoversBootOnly.  LedgerKept proves KeepsLedger: from the same invariant, each
  action is one action of SessionLedger or changes nothing it sees.
* **SessionReconciliation**, `TogetherInv`: the invariants of ChargingSession and
  ListedRows.  A step of ChargingSession keeps its own by the lemmas above, and
  ListedRows by TablesKept, what any step does to a row; a repair writes to the
  outbox only, what ListedRows says is still true.  All five safety theorems of
  ChargingSession carry over (`...Together`).
* **CallbackOutbox**, `OutboxInv`.  TypeOK says that the worker alone holds what it
  has claimed; PostAccounted that what it is about to mark is true; OwedOnly that
  nobody enqueues what is not owed.  OutboxImplementsPromise is the safety half of
  the refinement.
* **ConnectionTracker**, `TrackerInv`.  NewestIsRegistered needs NewestConnects: the
  connect handler that runs is the newest socket's.
* **RemoteStart**, `StartInv`.  FlagsCounted counts transactions routed as single
  and flags still pending against the requests that recorded one (a cardinality
  argument: Record adds one to either side, a start moves one, Fail takes one).
  RoutedAsAsked is about requests that do not fail, have the only request of their
  tag and meet no start at the charger, of whatever tag.  It needs FlagIsKept (the
  flag of such a request is there from Record to Start, since every other start is of
  a request with another tag) and
  CallsUnderWay (a charger starts what it was called for, once).
* **VirtualCharger**, `ChargerInv`.  LockGivenBack needs that a status change on
  the way to StartTransaction is inside the lock too (LockIsHeld, Starting).
  SessionsAgree and PendingIsCurrent need OperationsAreAlone: from its checks to
  its last step an operation's transaction is the charger's, because only the
  holder of the lock changes it.  Most actions belong to bystanders, which leave the
  operation alone (Bystanders).  RegistryFollows needs StatusIsUnderWay (a status the
  central system does not show is on its way to it), ShownIsKnown (unless overtaken by
  recovery, it shows a session that is open, or one that was lost on the way) and
  OneIsOpen.  ReadingsAscend and BilledForward need RegisterStands (the reading an
  operation will send is the register's, which does not move under the lock),
  MetersInOrder (start, last reading and register are in order, but for the
  rounding) and RecoveredInOrder (the reading in recovery's hand is between the start
  and the register, whatever has come since).  RecoveryStep has one step per action of
  recovery; what all of them leave alone is in RecoveryFrame and RecoveryRows.  DeltaAcrossTurn is about `DeltaWh` alone: for any
  counter read modulo `Rollover + 1` it returns what was counted, up to one turn less
  one; a remainder lemma is all it needs.
* **ChargerDirectory**, `DirectoryInv`.  A reply disagrees with the CMS no longer than
  its request has run (RepliesAreYoung); the age of a cache's disagreement and the
  ticks to its expiry together never exceed the TTL and one request
  (CacheIsYoung), also when a slow fetch overwrites a newer list.

Assumptions of the proofs are the `ASSUME`s of the modules: numbers are naturals
(attempts, retries, limits and the timeout positive where the code's constants
are), and the null values are none of the values they stand beside.

Only model-checked: every liveness property (EveryVersionIsDelivered,
LimitEnforcedUnlessOrphaned, RecoveryEnds, NobodyWaitsForever,
ConnectedIsShownOnline, EveryLookupEnds, and the fairness half of ImplementsFeed and
of KeepsPromise, which holds only while fewer rows than one reconciliation lists can
never be reported), because the proof system does not reason about ENABLED.

## What the models take for granted

* The store's calls are atomic, as single statements or transactions of PostgreSQL.
* One process works on the database.  A worker's round (10 callbacks of at most 10 s)
  is over before its claims are two minutes old.
* The hook URLs are configured.  Without one the enqueue fails and the handler
  returns its error each time.
* The connect handler of a socket has ended before its disconnect handler, and
  before the charger's next connect handler, starts.
* The OCPP library calls back once for each call that it took.
* The charger directory is configured; without `APICHARGERDATA` every charger is known.
  The CMS's list is read at one moment between the request and the end of its reply.
* In VirtualCharger the central system handles a call of the charger whole, as one
  step; what happens inside is ChargingSession's.  Its recovery is not whole: its steps
  fall between the calls.  The central system itself is not restarted there.  The
  software charger's library answers one call at a time, and a charger has one
  connector, as cpconsole has.

## Not modelled

* The in-memory outbox: used without a database; it never reclaims a callback in
  processing, and nothing survives to be reclaimed.
* The status websocket and the analytics: they read, and keep nothing.
* Configuration and start-up, but for the order of the worker and SetLimitStopper.
* The OCPP commands that are one call and its answer (`extra.go`, `remote_only.go`,
  most HTTP routes): RemoteStart has the pattern they share.  `remote_only.go`
  sends its configuration once per process and charger whether or not it is taken.
* The charger-level Status and error fields of the registry: they are shown, and
  nothing is decided by them.  CheckInactivity leaves Status at Offline after a
  later Touch, and HasError is that of the connector that reported last.
* `DeltaWh` in floating point, and the consumption the registry keeps since the last
  reading: VirtualCharger has it over whole Wh and from the start of a session;
  elsewhere readings are only compared.
* The smoke clients and the hook mock, which are test scripts.

## Plan

The order so far: ChargingSession, LimitStop and CallbackOutbox, which carry what is
billed; TransactionStream and ConnectionTracker; RemoteStart; ChargerDirectory;
VirtualCharger; the ledger that ChargingSession implements; every safety property a
theorem, the feed that TransactionStream implements, and the reconciling worker
beside the handlers.

What would come next: the registry's charger-level status and error fields; a
recovery step that falls inside a handler of VirtualCharger; the analytics over the stored consumption; an
interface of the two tables that SessionReconciliation and CallbackOutbox both
implement; a register with bounded staleness that ChargerDirectory implements.
