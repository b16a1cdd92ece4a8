------------------------------ MODULE RemoteStart ------------------------------
(***************************************************************************)
(* Remote starts of one charger: HTTP requests that record a pending       *)
(* single-session flag, send RemoteStartTransaction and wait for its       *)
(* answer or their timeout, and the StartTransactions that follow and      *)
(* consume the flags.  The OCPP library (external) calls back once for     *)
(* each call that it took, with the charger's answer or an error.          *)
(*                                                                         *)
(* Code: internal/ocpp16hal/single_session.go and hal.go,                  *)
(* internal/httpapi/server.go.                                             *)
(***************************************************************************)
EXTENDS Naturals, FiniteSets

CONSTANTS Requests, Connectors, Tags,
          NoConnector,    \* the connector 0 of a charger that names none
          MaxLocal,       \* bound on the transactions started at the charger
          NoRequest

Keys == Connectors \X Tags

ASSUME StartAssumption ==
  /\ IsFiniteSet(Requests)
  /\ NoConnector \notin Connectors
  /\ MaxLocal \in Nat
  /\ NoRequest \notin [conn : Connectors, tag : Tags, single : BOOLEAN]

VARIABLES
  request,   \* what each request asks for
  pc,        \* where its HTTP handler is
  response,  \* the HTTP response: an error, or 200 with a status
  call,      \* the callback of its OCPP call
  answer,    \* the value the callback has to hand over
  channel,   \* the result channel, of capacity 1
  pending,   \* pendingRemoteStartSingleSessions
  plug,      \* what the charger makes of the request
  routed,    \* the transaction of the request: single session or not
  local,     \* transactions started at the charger
  stolen     \* of these, the ones that were taken for single sessions

handlers == <<request, pc, response>>
calls == <<call, answer, channel>>
charger == <<plug, routed, local, stolen>>
vars == <<handlers, calls, pending, charger>>

Values == {"Accepted", "Rejected", "error"}

RequestType == [conn : Connectors, tag : Tags, single : BOOLEAN]

HandlerType ==
  /\ request \in [Requests -> RequestType \union {NoRequest}]
  /\ pc \in [Requests -> {"idle", "record", "send", "wait", "failed", "done"}]
  /\ \A r \in Requests : pc[r] # "idle" => request[r] \in RequestType
  /\ response \in [Requests -> {"none", "Accepted", "Rejected", "empty", "error"}]

CallType ==
  /\ call \in [Requests -> {"none", "sent", "calling", "over"}]
  /\ answer \in [Requests -> Values \union {"none"}]
  /\ channel \in [Requests -> Values \union {"none"}]
  /\ \A r \in Requests : call[r] = "calling" <=> answer[r] # "none"
  /\ \A r \in Requests : call[r] # "over" => channel[r] = "none"

ChargerType ==
  /\ pending \subseteq Keys
  /\ plug \in [Requests -> {"none", "starts", "started"}]
  /\ routed \in [Requests -> {"none", "single", "normal"}]
  /\ local \in 0..MaxLocal
  /\ stolen \in 0..local

TypeOK == HandlerType /\ CallType /\ ChargerType

Init ==
  /\ request = [r \in Requests |-> NoRequest]
  /\ pc = [r \in Requests |-> "idle"]
  /\ response = [r \in Requests |-> "none"]
  /\ call = [r \in Requests |-> "none"]
  /\ answer = [r \in Requests |-> "none"]
  /\ channel = [r \in Requests |-> "none"]
  /\ pending = {}
  /\ plug = [r \in Requests |-> "none"]
  /\ routed = [r \in Requests |-> "none"]
  /\ local = 0 /\ stolen = 0

Key(r) == <<request[r].conn, request[r].tag>>
Goto(r, place) == pc' = [pc EXCEPT ![r] = place]
Respond(r, status) == /\ Goto(r, "done")
                      /\ response' = [response EXCEPT ![r] = status]

-----------------------------------------------------------------------------
(* Mutant: the flag of the request is not recorded.                        *)
IssueUnflagged(r, q) ==
  /\ pc[r] = "idle"
  /\ request' = [request EXCEPT ![r] = q]
  /\ Goto(r, "send")
  /\ UNCHANGED <<response, calls, pending, charger>>

(* POST /api/start_transaction and RemoteStartTransactionWithOptions.         *)
Issue(r, q) ==
  /\ pc[r] = "idle"
  /\ request' = [request EXCEPT ![r] = q]
  /\ Goto(r, IF q.single THEN "record" ELSE "send")
  /\ UNCHANGED <<response, calls, pending, charger>>

(* recordPendingSingleSession.                                             *)
Record(r) ==
  /\ pc[r] = "record"
  /\ pending' = pending \union {Key(r)}
  /\ Goto(r, "send")
  /\ UNCHANGED <<request, response, calls, charger>>

(* The library takes the call, or refuses it: the charger is unknown.      *)
Send(r) ==
  /\ pc[r] = "send"
  /\ \/ Goto(r, "wait") /\ call' = [call EXCEPT ![r] = "sent"]
     \/ Goto(r, "failed") /\ UNCHANGED call
  /\ UNCHANGED <<request, response, answer, channel, pending, charger>>

(* The select of RemoteStartTransaction: the result comes first ...        *)
Receive(r) ==
  /\ pc[r] = "wait" /\ channel[r] # "none"
  /\ channel' = [channel EXCEPT ![r] = "none"]
  /\ IF channel[r] = "error" THEN Goto(r, "failed") /\ UNCHANGED response
                             ELSE Respond(r, channel[r])
  /\ UNCHANGED <<request, call, answer, pending, charger>>

(* Mutant: the call is repeated over the same channel.                     *)
TimeoutRetries(r) ==
  /\ pc[r] = "wait"
  /\ Goto(r, "send")
  /\ UNCHANGED <<request, response, calls, pending, charger>>

(* ... or the context is over.                                             *)
Timeout(r) ==
  /\ pc[r] = "wait"
  /\ Goto(r, "failed")
  /\ UNCHANGED <<request, response, calls, pending, charger>>

(* Mutant: the flag of a failed request stays.                             *)
FailKeepingFlag(r) ==
  /\ pc[r] = "failed"
  /\ Respond(r, IF request[r].single THEN "error" ELSE "empty")
  /\ UNCHANGED <<request, calls, pending, charger>>

(* A single-session request clears its flag and returns the error; of any  *)
(* other one the error is dropped and the empty status is returned.        *)
Fail(r) ==
  /\ pc[r] = "failed"
  /\ IF request[r].single
     THEN pending' = pending \ {Key(r)} /\ Respond(r, "error")
     ELSE UNCHANGED pending /\ Respond(r, "empty")
  /\ UNCHANGED <<request, calls, charger>>

-----------------------------------------------------------------------------
(* The charger answers the call, or the library gives it up; a charger     *)
(* that accepted starts the transaction later, also when its answer was    *)
(* lost.                                                                   *)
Answer(r, v) ==
  /\ call[r] = "sent"
  /\ call' = [call EXCEPT ![r] = "calling"]
  /\ answer' = [answer EXCEPT ![r] = v]
  /\ \/ v # "Rejected" /\ plug' = [plug EXCEPT ![r] = "starts"]
     \/ v # "Accepted" /\ UNCHANGED plug
  /\ UNCHANGED <<handlers, channel, pending, routed, local, stolen>>

(* Mutant: the channel has no buffer.                                      *)
WhenReceived(r) == pc[r] = "wait"

(* The callback can hand over its result.                                  *)
HasRoom(r) == channel[r] = "none"

CallBack(r) ==
  /\ call[r] = "calling" /\ HasRoom(r)
  /\ channel' = [channel EXCEPT ![r] = answer[r]]
  /\ answer' = [answer EXCEPT ![r] = "none"]
  /\ call' = [call EXCEPT ![r] = "over"]
  /\ UNCHANGED <<handlers, pending, charger>>

-----------------------------------------------------------------------------
(* The flag a StartTransaction takes: that of its connector and tag, or    *)
(* else any of its tag.                                                    *)
Flags(c, g) == IF <<c, g>> \in pending THEN {<<c, g>>}
                                       ELSE {k \in pending : k[2] = g}

(* Mutant: the flag is read and not deleted.                               *)
PeekPending(c, g, kind) == /\ kind = IF Flags(c, g) = {} THEN "normal" ELSE "single"
                           /\ UNCHANGED pending

(* consumePendingSingleSession.                                            *)
ConsumePending(c, g, kind) ==
  \/ Flags(c, g) = {} /\ kind = "normal" /\ UNCHANGED pending
  \/ \E k \in Flags(c, g) : kind = "single" /\ pending' = pending \ {k}

(* OnStartTransaction of the accepted request, on its connector or on      *)
(* none; when CreateTransaction fails there is no transaction, and the     *)
(* flag is gone all the same.                                              *)
Start(r) ==
  /\ plug[r] = "starts"
  /\ plug' = [plug EXCEPT ![r] = "started"]
  /\ \E c \in {request[r].conn, NoConnector}, kind \in {"single", "normal"} :
       /\ ConsumePending(c, request[r].tag, kind)
       /\ routed' \in {routed, [routed EXCEPT ![r] = kind]}
  /\ UNCHANGED <<handlers, calls, local, stolen>>

(* OnStartTransaction of a start at the charger, with a tag of its own.    *)
LocalStart(c, g) ==
  /\ local < MaxLocal
  /\ local' = local + 1
  /\ \E kind \in {"single", "normal"} :
       /\ ConsumePending(c, g, kind)
       /\ stolen' = IF kind = "single" THEN stolen + 1 ELSE stolen
  /\ UNCHANGED <<handlers, calls, plug, routed>>

HandlerStep(r) == Record(r) \/ Send(r) \/ Receive(r) \/ Timeout(r) \/ Fail(r)

Next ==
  \/ \E r \in Requests : \/ \E q \in RequestType : Issue(r, q)
                         \/ HandlerStep(r)
                         \/ \E v \in Values : Answer(r, v)
                         \/ CallBack(r) \/ Start(r)
  \/ \E c \in Connectors, g \in Tags : LocalStart(c, g)

Spec == Init /\ [][Next]_vars

(* Handlers and callbacks run, and a context ends.                         *)
FairSpec == /\ Spec
            /\ \A r \in Requests : WF_vars(HandlerStep(r)) /\ WF_vars(CallBack(r))

-----------------------------------------------------------------------------
Single(r) == pc[r] # "idle" /\ request[r].single

(* No more sessions are routed as single ones than were asked for, counting*)
(* the flags still pending: one request flags at most one transaction,     *)
(* whoever takes the flag (consumePendingSingleSession deletes it).        *)
OneSessionPerFlag ==
  Cardinality({r \in Requests : routed[r] = "single"}) + stolen + Cardinality(pending)
    <= Cardinality({r \in Requests : Single(r)})

(* A pending flag belongs to a request that is under way or was answered   *)
(* by the charger: no request that failed leaves one behind.               *)
FlagHasRequest ==
  \A k \in pending : \E r \in Requests :
     /\ Single(r) /\ Key(r) = k
     /\ pc[r] \in {"send", "wait", "failed"} \/ response[r] \in {"Accepted", "Rejected"}

(* The transaction of a single-session request is routed as such, unless   *)
(* the request failed, a transaction was started at the charger, of        *)
(* whatever tag, or another request has its tag: the flag is recorded      *)
(* before the call is sent.                                                *)
Undisturbed(r) ==
  /\ pc[r] # "failed" /\ response[r] # "error"
  /\ local = 0
  /\ \A o \in Requests \ {r} : pc[o] # "idle" => request[o].tag # request[r].tag

RoutedAsAsked ==
  \A r \in Requests : Single(r) /\ Undisturbed(r) => routed[r] # "normal"

(* Every request is answered, and no callback is held up by a request that *)
(* no longer waits (the select on ctx.Done, the buffered channel).         *)
NobodyWaitsForever ==
  \A r \in Requests : /\ pc[r] # "idle" ~> pc[r] = "done"
                      /\ call[r] = "calling" ~> call[r] = "over"

-----------------------------------------------------------------------------
(* Why these hold: only single-session requests record a flag, a charger   *)
(* starts only what it was called for, once, and a recorded flag stays     *)
(* until somebody takes it or the request fails.                           *)
CallsUnderWay ==
  \A r \in Requests :
    /\ pc[r] = "record" => request[r].single
    /\ pc[r] # "done" => response[r] = "none"
    /\ call[r] # "none" => pc[r] \in {"wait", "failed", "done"}
    /\ plug[r] # "none" => call[r] \in {"calling", "over"}
    /\ plug[r] # "started" => routed[r] = "none"

Recorded == {r \in Requests : Single(r) /\ pc[r] # "record"}
RoutedSingle == {r \in Requests : routed[r] = "single"}

FlagsCounted ==
  /\ IsFiniteSet(pending)
  /\ Cardinality(RoutedSingle) + stolen + Cardinality(pending) <= Cardinality(Recorded)

FlagIsKept ==
  \A r \in Recorded :
    Undisturbed(r) /\ plug[r] # "started" => Key(r) \in pending

StartInv ==
  /\ TypeOK /\ CallsUnderWay
  /\ FlagsCounted /\ FlagHasRequest
  /\ FlagIsKept /\ RoutedAsAsked
=============================================================================
