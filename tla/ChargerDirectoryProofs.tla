------------------------ MODULE ChargerDirectoryProofs ------------------------
(***************************************************************************)
(* Proofs about ChargerDirectory, for any number of callers, any TTL and   *)
(* any timeout.                                                            *)
(***************************************************************************)
EXTENDS ChargerDirectory, TLAPS

USE DirectoryAssumption

(* Nothing is cached and nobody has asked.                                 *)
LEMMA DirectoryInit == Init => DirectoryInv
  BY DEF Init, DirectoryInv, TypeOK, Listings, Answers, RepliesAreYoung,
         CacheIsYoung, Fresh, cms, cache

(* Every step keeps the types: a request is given up at its timeout, and   *)
(* the cache never outlives the TTL.                                       *)
LEMMA TypeStep == TypeOK /\ [Next]_vars => TypeOK'
<1> SUFFICES ASSUME TypeOK, [Next]_vars PROVE TypeOK'
  OBVIOUS
<1> USE DEF TypeOK, Listings, Answers, Move, Answer, Requesting, cms, cache
<1>1. ASSUME NEW c \in Callers, IsKnownCharger(c)
      PROVE  TypeOK'
  BY <1>1 DEF IsKnownCharger
<1>2. ASSUME NEW c \in Callers, Hit(c)
      PROVE  TypeOK'
  BY <1>2 DEF Hit, Known
<1>3. ASSUME NEW c \in Callers, Fetch(c)
      PROVE  TypeOK'
  BY <1>3 DEF Fetch
<1>4. ASSUME NEW c \in Callers, Respond(c)
      PROVE  TypeOK'
  BY <1>4 DEF Respond, Listing
<1>5. ASSUME NEW c \in Callers, Store(c)
      PROVE  TypeOK'
  BY <1>5 DEF Store, Known, ExpiresIn
<1>6. ASSUME NEW c \in Callers, Fail(c)
      PROVE  TypeOK'
  BY <1>6 DEF Fail
<1>7. CASE Edit
  BY <1>7 DEF Edit
<1>8. CASE Tick
  BY <1>8 DEF Tick, TimedOut, Older, Fresh
<1>9. CASE UNCHANGED vars
  BY <1>9 DEF vars
<1> QED
  BY <1>1, <1>2, <1>3, <1>4, <1>5, <1>6, <1>7, <1>8, <1>9 DEF Next, Timeout

(* A reply was true after its request was sent: it is read off the list,   *)
(* and it and the time since a change age together.                        *)
LEMMA ReplyStep ==
  TypeOK /\ RepliesAreYoung /\ [Next]_vars => RepliesAreYoung'
<1> SUFFICES ASSUME TypeOK, RepliesAreYoung, [Next]_vars,
                    NEW d \in Callers, pc'[d] = "read"
             PROVE  Agrees(reply[d])' \/ since' <= age'[d]
  BY DEF RepliesAreYoung
<1> USE DEF TypeOK, RepliesAreYoung, Agrees, Listing, cms, cache, Move, Answer
<1>1. ASSUME NEW c \in Callers, Respond(c)
      PROVE  Agrees(reply[d])' \/ since' <= age'[d]
  BY <1>1 DEF Respond
<1>2. ASSUME NEW c \in Callers,
             IsKnownCharger(c) \/ Hit(c) \/ Fetch(c) \/ Store(c) \/ Fail(c)
      PROVE  Agrees(reply[d])' \/ since' <= age'[d]
  <2>1. pc[d] = "read" /\ age'[d] = age[d] /\ UNCHANGED <<cms, reply>>
    BY <1>2 DEF IsKnownCharger, Hit, Fetch, Store, Fail
  <2> QED
    BY <2>1
<1>3. CASE Edit
  BY <1>3 DEF Edit
<1>4. CASE Tick
  BY <1>4 DEF Tick, TimedOut, Requesting, Older
<1>5. CASE UNCHANGED vars
  BY <1>5 DEF vars
<1> QED
  BY <1>1, <1>2, <1>3, <1>4, <1>5 DEF Next, Timeout

(* The cache was true within a request before it was stored; every tick    *)
(* brings its end a tick nearer.                                           *)
LEMMA CacheStep == DirectoryInv /\ [Next]_vars => CacheIsYoung'
<1> SUFFICES ASSUME DirectoryInv, [Next]_vars PROVE CacheIsYoung'
  OBVIOUS
<1> USE DEF DirectoryInv, TypeOK, CacheIsYoung, Agrees, Listing, Fresh, MaxLag,
            cms, cache
<1>1. ASSUME NEW c \in Callers, Store(c)
      PROVE  CacheIsYoung'
  <2>1. Agrees(reply[c]) \/ since <= age[c]
    BY <1>1 DEF Store, RepliesAreYoung
  <2>2. age[c] <= FetchTimeout /\ since \in Nat /\ age[c] \in Nat
    OBVIOUS
  <2> QED
    BY <1>1, <2>1, <2>2 DEF Store, ExpiresIn
<1>2. ASSUME NEW c \in Callers,
             IsKnownCharger(c) \/ Hit(c) \/ Fetch(c) \/ Respond(c) \/ Fail(c)
      PROVE  CacheIsYoung'
  BY <1>2 DEF IsKnownCharger, Hit, Fetch, Respond, Fail
<1>3. CASE Edit
  BY <1>3 DEF Edit
<1>4. CASE Tick
  BY <1>4 DEF Tick, Older
<1>5. CASE UNCHANGED vars
  BY <1>5 DEF vars
<1> QED
  BY <1>1, <1>2, <1>3, <1>4, <1>5 DEF Next, Timeout

THEOREM DirectoryInvariant == Spec => []DirectoryInv
<1>1. DirectoryInv /\ [Next]_vars => DirectoryInv'
  BY TypeStep, ReplyStep, CacheStep DEF DirectoryInv
<1> QED
  BY DirectoryInit, <1>1, PTL DEF Spec

(* The states are typed: no request outlives the client's timeout and the  *)
(* cache never outlives the TTL.                                           *)
THEOREM TypeCorrect == Spec => []TypeOK
  BY DirectoryInvariant, PTL DEF DirectoryInv

(* Whoever is answered is answered from a list that was true within the    *)
(* TTL and one request (getIDs, fetchAndCache).                            *)
LEMMA AnswersAreRecent ==
  ASSUME DirectoryInv, [Next]_vars, NEW c \in Callers,
         NEW a \in {"known", "unknown"}, Answered(c, a)
  PROVE  /\ a = Known(Source(c))
         /\ Agrees(Source(c)) \/ since <= MaxLag
<1> USE DEF DirectoryInv, TypeOK, Answered, Source, MaxLag
<1>1. (Hit(c) /\ a = Known(cached)) \/ (Store(c) /\ a = Known(reply[c]))
  <2>1. ASSUME NEW b \in Callers,
               IsKnownCharger(b) \/ Fetch(b) \/ Respond(b) \/ Fail(b)
        PROVE  FALSE
    BY <2>1 DEF IsKnownCharger, Fetch, Respond, Fail, Answer, Move
  <2>2. CASE Edit \/ Tick \/ UNCHANGED vars
    BY <2>2 DEF Edit, Tick, vars
  <2>3. ASSUME NEW b \in Callers, Hit(b) \/ Store(b)
        PROVE  <1>1!1 \/ <1>1!2
    BY <2>3 DEF Hit, Store, Answer
  <2> QED
    BY <2>1, <2>2, <2>3 DEF Next, Timeout
<1>2. CASE Hit(c)
  BY <1>1, <1>2 DEF Hit, Store, CacheIsYoung, Fresh
<1>3. CASE Store(c)
  <2>1. Agrees(reply[c]) \/ since <= age[c]
    BY <1>3 DEF Store, RepliesAreYoung
  <2> QED
    BY <1>1, <1>3, <2>1 DEF Hit, Store
<1> QED
  BY <1>1, <1>2, <1>3

(* A charger that is let in was on the CMS's list within the TTL and one   *)
(* request, and one that is refused was missing from it within that time,  *)
(* or the reply was of a shape extractIDs does not know                    *)
(* (validateIncomingCharger).                                              *)
THEOREM AnswersAreTrue == Spec => AnswersWereTrue
<1>1. DirectoryInv /\ [Next]_vars =>
        [\A c \in Callers :
           /\ Answered(c, "known") => listed \/ since <= MaxLag
           /\ Answered(c, "unknown") =>
                ~listed \/ since <= MaxLag \/ Source(c) = "unreadable"]_vars
  BY AnswersAreRecent DEF Agrees, Listing, Known
<1> QED
  BY DirectoryInvariant, <1>1, PTL DEF Spec, AnswersWereTrue
=============================================================================
