--------------------------- MODULE ChargerDirectory ---------------------------
(***************************************************************************)
(* The charger directory: whether the CMS lists a charger, asked for each  *)
(* incoming connection and each status request, answered from a cache that *)
(* is filled from one HTTP request of the charger-data endpoint.  Nothing  *)
(* keeps two callers from fetching at once, and the answer to arrive last  *)
(* is the one cached.  One charger stands for all: their entries come and  *)
(* expire together.                                                        *)
(*                                                                         *)
(* Time passes in ticks.  A step of the code takes none; the CMS takes as  *)
(* long as the client lets it.                                             *)
(*                                                                         *)
(* Code: internal/chargerdir/service.go, internal/httpapi/server.go,       *)
(* internal/httpapi/charger_directory.go,                                  *)
(* internal/ocpp16hal/charger_validation.go.                               *)
(***************************************************************************)
EXTENDS Naturals

CONSTANTS Callers,      \* goroutines that ask
          TTL,          \* CHARGER_DATA_CACHE_TTL_SECONDS, in ticks
          FetchTimeout, \* http.Client.Timeout, in ticks
          MaxSince      \* bound on the ticks counted since the listing changed

ASSUME DirectoryAssumption ==
  /\ TTL \in Nat
  /\ FetchTimeout \in Nat \ {0}
  /\ MaxSince \in Nat

VARIABLES
  listed,      \* the CMS lists the charger
  since,       \* ticks since that last changed
  pc,          \* where a caller is
  age,         \* ticks since it sent its request
  reply,       \* what the endpoint said to it
  answer,      \* what IsKnownCharger returned to it
  cached,      \* what the cached ids say of the charger
  ttl          \* ticks to expiresAt

cms == <<listed, since>>
cache == <<cached, ttl>>
vars == <<cms, pc, age, reply, answer, cache>>

(* What a set of ids says of the charger; "unreadable" is the empty set    *)
(* taken from a reply whose JSON has no part that extractIDs walks.        *)
Listings == {"listed", "missing", "unreadable"}
Answers == {"known", "unknown", "error"}

Requesting(c) == pc[c] \in {"fetch", "read"}

TypeOK ==
  /\ listed \in BOOLEAN /\ since \in 0..MaxSince
  /\ pc \in [Callers -> {"idle", "lookup", "fetch", "read"}]
  /\ age \in [Callers -> 0..FetchTimeout]
  /\ reply \in [Callers -> Listings]
  /\ answer \in [Callers -> Answers \union {"none"}]
  /\ cached \in Listings /\ ttl \in 0..TTL
  /\ \A c \in Callers : pc[c] # "idle" <=> answer[c] = "none"

Init ==
  /\ listed \in BOOLEAN /\ since = 0
  /\ pc = [c \in Callers |-> "idle"]
  /\ age = [c \in Callers |-> 0]
  /\ reply = [c \in Callers |-> "missing"]
  /\ answer = [c \in Callers |-> "error"]
  /\ cached = "missing" /\ ttl = 0

Listing == IF listed THEN "listed" ELSE "missing"
Known(ids) == IF ids = "listed" THEN "known" ELSE "unknown"

Move(c, p) == pc' = [pc EXCEPT ![c] = p]
Answer(c, a) == Move(c, "idle") /\ answer' = [answer EXCEPT ![c] = a]

(* A caller asks (validateIncomingCharger, status).                        *)
IsKnownCharger(c) ==
  /\ pc[c] = "idle"
  /\ Move(c, "lookup")
  /\ answer' = [answer EXCEPT ![c] = "none"]
  /\ UNCHANGED <<cms, age, reply, cache>>

Fresh == ttl > 0

(* Mutant: a lookup prolongs the cache.                                    *)
HitProlongs(c) ==
  /\ pc[c] = "lookup" /\ ttl > 0
  /\ Answer(c, Known(cached))
  /\ ttl' = TTL
  /\ UNCHANGED <<cms, age, reply, cached>>

(* getIDs under the lock: the cached ids, until they expire ...            *)
Hit(c) ==
  /\ pc[c] = "lookup" /\ Fresh
  /\ Answer(c, Known(cached))
  /\ UNCHANGED <<cms, age, reply, cache>>

(* ... and after that a request, sent without the lock.                    *)
Fetch(c) ==
  /\ pc[c] = "lookup" /\ ~Fresh
  /\ Move(c, "fetch")
  /\ age' = [age EXCEPT ![c] = 0]
  /\ UNCHANGED <<cms, reply, answer, cache>>

(* The CMS reads its list, now or never, and replies.                      *)
Respond(c) ==
  /\ pc[c] = "fetch"
  /\ Move(c, "read")
  /\ \E r \in {Listing, "unreadable"} : reply' = [reply EXCEPT ![c] = r]
  /\ UNCHANGED <<cms, age, answer, cache>>

(* Mutant: one tick more.                                                  *)
ExpiresInMore == TTL + 1
ExpiresIn == TTL

(* The body has arrived: cache what it says, whoever else has meanwhile,   *)
(* and answer from it.                                                     *)
Store(c) ==
  /\ pc[c] = "read"
  /\ cached' = reply[c]
  /\ ttl' = ExpiresIn
  /\ Answer(c, Known(reply[c]))
  /\ UNCHANGED <<cms, age, reply>>

(* No connection, a status other than 2xx, a body that is no JSON, or a    *)
(* caller that has gone: the cache stays as it is and the caller refuses   *)
(* the charger (or replies 500).                                           *)
Fail(c) ==
  /\ Requesting(c)
  /\ Answer(c, "error")
  /\ UNCHANGED <<cms, age, reply, cache>>

(* Mutant: a client without a timeout.                                     *)
NeverTimedOut(c) == FALSE
TimedOut(c) == Requesting(c) /\ age[c] = FetchTimeout
Timeout(c) == TimedOut(c) /\ Fail(c)

(* An operator adds the charger to the CMS, or removes it (external).      *)
Edit ==
  /\ listed' = ~listed /\ since' = 0
  /\ UNCHANGED <<pc, age, reply, answer, cache>>

Older(n, bound) == IF n < bound THEN n + 1 ELSE n

Tick ==
  /\ \A c \in Callers : ~TimedOut(c)
  /\ since' = Older(since, MaxSince)
  /\ age' = [c \in Callers |-> IF Requesting(c) THEN Older(age[c], FetchTimeout)
                                                ELSE age[c]]
  /\ ttl' = IF Fresh THEN ttl - 1 ELSE 0
  /\ UNCHANGED <<listed, pc, reply, answer, cached>>

Next ==
  \/ \E c \in Callers :
       \/ IsKnownCharger(c) \/ Hit(c) \/ Fetch(c) \/ Respond(c) \/ Store(c)
       \/ Fail(c) \/ Timeout(c)
  \/ Edit \/ Tick

Spec == Init /\ [][Next]_vars

(* A runnable goroutine runs, the client's timer fires and the clock goes  *)
(* on; nothing is asked of the CMS.                                        *)
FairSpec ==
  /\ Spec
  /\ WF_vars(Tick)
  /\ \A c \in Callers :
       WF_vars(Hit(c) \/ Fetch(c)) /\ WF_vars(Store(c)) /\ WF_vars(Timeout(c))
-----------------------------------------------------------------------------
(* The ids a caller that is answered now is answered from.                 *)
Source(c) == IF pc[c] = "lookup" THEN cached ELSE reply[c]
Answered(c, a) == answer[c] = "none" /\ answer'[c] = a

MaxLag == TTL + FetchTimeout

(* A charger is let in only if the CMS lists it, or did so no longer ago   *)
(* than the TTL and one request, and refused as unknown only if the CMS    *)
(* does not list it, or did not in that period, or replied with JSON of    *)
(* another shape, in which extractIDs finds no charger at all.  Not even a *)
(* slow request that overwrites a newer list stretches that (getIDs,       *)
(* fetchAndCache).                                                         *)
AnswersWereTrue ==
  [][\A c \in Callers :
       /\ Answered(c, "known") => listed \/ since <= MaxLag
       /\ Answered(c, "unknown") =>
            ~listed \/ since <= MaxLag \/ Source(c) = "unreadable"]_vars

(* Every caller gets an answer, even if the CMS never replies: the client  *)
(* has a timeout (NewService).                                             *)
EveryLookupEnds ==
  \A c \in Callers : pc[c] = "lookup" ~> pc[c] = "idle"

-----------------------------------------------------------------------------
(* What a list says was true when the CMS read it: after the request was   *)
(* sent, for a reply, and within the request before expiresAt - TTL, for   *)
(* the cache.                                                              *)
Agrees(ids) == ids \in {Listing, "unreadable"}

RepliesAreYoung ==
  \A c \in Callers : pc[c] = "read" => Agrees(reply[c]) \/ since <= age[c]

CacheIsYoung == Fresh => Agrees(cached) \/ since + ttl <= MaxLag

DirectoryInv == TypeOK /\ RepliesAreYoung /\ CacheIsYoung
=============================================================================
