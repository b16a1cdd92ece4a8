--------------------------- MODULE RemoteStartProofs ---------------------------
(***************************************************************************)
(* Proofs about RemoteStart, for any number of requests, connectors and    *)
(* cards.  The flags are counted against the requests that recorded one;   *)
(* that a transaction is routed as asked follows from FlagIsKept, which    *)
(* says when the flag of a request is still there for it.                  *)
(***************************************************************************)
EXTENDS RemoteStart, FiniteSetTheorems, TLAPS

USE StartAssumption

(* Nothing is requested and nothing pending.                               *)
LEMMA TypeInit == Init => TypeOK /\ CallsUnderWay
  BY DEF Init, TypeOK, HandlerType, CallType, ChargerType, Keys, Values, CallsUnderWay

(* Every step keeps the types.                                             *)
LEMMA TypeStep == TypeOK /\ CallsUnderWay /\ [Next]_vars => TypeOK'
<1> SUFFICES ASSUME TypeOK, CallsUnderWay, [Next]_vars PROVE TypeOK'
  OBVIOUS
<1> USE DEF TypeOK, HandlerType, CallType, ChargerType, Values, handlers, calls,
            charger, Goto, Respond
<1>1. ASSUME NEW r \in Requests, NEW q \in RequestType, Issue(r, q)
      PROVE  TypeOK'
  BY <1>1 DEF Issue
<1>2. ASSUME NEW r \in Requests, Record(r)
      PROVE  TypeOK'
  <2>1. Key(r) \in Keys
    BY <1>2 DEF Record, Key, Keys, RequestType
  <2> QED
    BY <1>2, <2>1 DEF Record
<1>3. ASSUME NEW r \in Requests, Send(r)
      PROVE  TypeOK'
  BY <1>3 DEF Send, CallsUnderWay
<1>4. ASSUME NEW r \in Requests, Receive(r)
      PROVE  TypeOK'
  BY <1>4 DEF Receive
<1>5. ASSUME NEW r \in Requests, Timeout(r)
      PROVE  TypeOK'
  BY <1>5 DEF Timeout
<1>6. ASSUME NEW r \in Requests, Fail(r)
      PROVE  TypeOK'
  BY <1>6 DEF Fail
<1>7. ASSUME NEW r \in Requests, NEW v \in Values, Answer(r, v)
      PROVE  TypeOK'
  BY <1>7 DEF Answer
<1>8. ASSUME NEW r \in Requests, CallBack(r)
      PROVE  TypeOK'
  BY <1>8 DEF CallBack, HasRoom
<1>9. ASSUME NEW r \in Requests, Start(r)
      PROVE  TypeOK'
  BY <1>9 DEF Start, ConsumePending
<1>10. ASSUME NEW c \in Connectors, NEW g \in Tags, LocalStart(c, g)
       PROVE  TypeOK'
  BY <1>10 DEF LocalStart, ConsumePending
<1>11. CASE UNCHANGED vars
  BY <1>11 DEF vars
<1> QED
  BY <1>1, <1>2, <1>3, <1>4, <1>5, <1>6, <1>7, <1>8, <1>9, <1>10, <1>11
     DEF Next, HandlerStep

-----------------------------------------------------------------------------
(* A charger starts only what it was called for, and once.                 *)
LEMMA CallsStep ==
  TypeOK /\ CallsUnderWay /\ [Next]_vars => CallsUnderWay'
<1> SUFFICES ASSUME TypeOK, CallsUnderWay, [Next]_vars, NEW r \in Requests
             PROVE  /\ pc'[r] = "record" => request'[r].single
                    /\ pc'[r] # "done" => response'[r] = "none"
                    /\ call'[r] # "none" => pc'[r] \in {"wait", "failed", "done"}
                    /\ plug'[r] # "none" => call'[r] \in {"calling", "over"}
                    /\ plug'[r] # "started" => routed'[r] = "none"
  BY DEF CallsUnderWay
<1> DEFINE Calls == /\ pc'[r] = "record" => request'[r].single
                    /\ pc'[r] # "done" => response'[r] = "none"
                    /\ call'[r] # "none" => pc'[r] \in {"wait", "failed", "done"}
                    /\ plug'[r] # "none" => call'[r] \in {"calling", "over"}
                    /\ plug'[r] # "started" => routed'[r] = "none"
<1> USE DEF TypeOK, HandlerType, CallType, ChargerType, CallsUnderWay, handlers,
            calls, charger, Goto, Respond
<1>1. ASSUME NEW o \in Requests, NEW q \in RequestType, Issue(o, q)
      PROVE  Calls
  BY <1>1 DEF Issue
<1>2. ASSUME NEW o \in Requests, HandlerStep(o)
      PROVE  Calls
  BY <1>2 DEF HandlerStep, Record, Send, Receive, Timeout, Fail
<1>3. ASSUME NEW o \in Requests, NEW v \in Values, Answer(o, v)
      PROVE  Calls
  BY <1>3 DEF Answer
<1>4. ASSUME NEW o \in Requests, CallBack(o)
      PROVE  Calls
  BY <1>4 DEF CallBack
<1>5. ASSUME NEW o \in Requests, Start(o)
      PROVE  Calls
  BY <1>5 DEF Start
<1>6. ASSUME NEW c \in Connectors, NEW g \in Tags, LocalStart(c, g)
      PROVE  Calls
  BY <1>6 DEF LocalStart
<1>7. CASE UNCHANGED vars
  BY <1>7 DEF vars
<1> QED
  BY <1>1, <1>2, <1>3, <1>4, <1>5, <1>6, <1>7 DEF Next

(* The states are typed: the callback of a call runs once and finds the    *)
(* channel empty (RemoteStartTransaction).                                 *)
THEOREM TypeCorrect == Spec => []TypeOK
  BY TypeInit, TypeStep, CallsStep, PTL DEF Spec

-----------------------------------------------------------------------------
(* A request that has recorded its flag is still one of them after a step, *)
(* and only Record adds one.                                               *)
LEMMA RecordedKept ==
  ASSUME TypeOK, [Next]_vars
  PROVE  /\ Recorded \subseteq Recorded'
         /\ \A r \in Requests : pc[r] # "idle" => pc'[r] # "idle" /\ request'[r] = request[r]
<1> USE DEF TypeOK, HandlerType, RequestType, Recorded, Single, handlers, calls, charger,
            Goto, Respond
<1>1. ASSUME NEW o \in Requests, NEW q \in RequestType, Issue(o, q)
      PROVE  \A r \in Requests : pc[r] # "idle" => pc'[r] = pc[r] /\ request'[r] = request[r]
  BY <1>1 DEF Issue
<1>2. ASSUME NEW o \in Requests, HandlerStep(o)
      PROVE  /\ request' = request
             /\ \A r \in Requests : pc[r] \notin {"idle", "record"}
                                      => pc'[r] \notin {"idle", "record"}
             /\ \A r \in Requests : pc[r] # "idle" => pc'[r] # "idle"
  BY <1>2 DEF HandlerStep, Record, Send, Receive, Timeout, Fail
<1>3. ASSUME \/ UNCHANGED vars
             \/ \E o \in Requests : CallBack(o) \/ Start(o) \/ \E v \in Values : Answer(o, v)
             \/ \E c \in Connectors, g \in Tags : LocalStart(c, g)
      PROVE  UNCHANGED <<pc, request>>
  BY <1>3 DEF vars, CallBack, Start, Answer, LocalStart
<1>4. \/ \E o \in Requests, q \in RequestType : Issue(o, q)
      \/ \E o \in Requests : HandlerStep(o)
      \/ UNCHANGED <<pc, request>>
  BY <1>3 DEF Next
<1> QED
  BY <1>1, <1>2, <1>4

(* A start takes flags away and adds none.                                 *)
LEMMA ConsumeTakes ==
  ASSUME NEW c, NEW g, NEW kind, ConsumePending(c, g, kind)
  PROVE  pending' \subseteq pending
  BY DEF ConsumePending

(* Sets of requests are finite.                                            *)
LEMMA RequestsFinite ==
  ASSUME NEW R \in SUBSET Requests
  PROVE  IsFiniteSet(R) /\ Cardinality(R) \in Nat
  BY FS_Subset, FS_CardinalityType

(* A flag more, and a flag less.                                           *)
LEMMA AnElement ==
  ASSUME NEW S, IsFiniteSet(S), NEW x
  PROVE  /\ IsFiniteSet(S \union {x}) /\ Cardinality(S \union {x}) <= Cardinality(S) + 1
         /\ IsFiniteSet(S \ {x}) /\ Cardinality(S \ {x}) <= Cardinality(S)
<1>1. Cardinality(S) \in Nat
  BY FS_CardinalityType
<1>2. /\ IsFiniteSet(S \union {x})
      /\ Cardinality(S \union {x}) \in {Cardinality(S), Cardinality(S) + 1}
  BY FS_AddElement
<1>3. /\ IsFiniteSet(S \ {x})
      /\ Cardinality(S \ {x}) \in {Cardinality(S), Cardinality(S) - 1}
  BY FS_RemoveElement
<1> QED
  BY <1>1, <1>2, <1>3

(* Taking a flag from the pending ones.                                    *)
LEMMA TakeFlag ==
  ASSUME IsFiniteSet(pending), NEW c, NEW g, NEW kind, ConsumePending(c, g, kind)
  PROVE  /\ IsFiniteSet(pending') /\ kind \in {"single", "normal"}
         /\ Cardinality(pending) \in Nat
         /\ Cardinality(pending') = IF kind = "single" THEN Cardinality(pending) - 1
                                                       ELSE Cardinality(pending)
<1>1. Flags(c, g) \subseteq pending
  BY DEF Flags
<1>2. Cardinality(pending) \in Nat
  BY FS_CardinalityType
<1>3. CASE kind = "normal" /\ pending' = pending
  BY <1>2, <1>3
<1>4. ASSUME NEW k \in Flags(c, g), kind = "single", pending' = pending \ {k}
      PROVE  IsFiniteSet(pending') /\ Cardinality(pending') = Cardinality(pending) - 1
  BY <1>1, <1>4, FS_RemoveElement
<1> QED
  BY <1>2, <1>3, <1>4 DEF ConsumePending

(* Flags are not multiplied: Record adds one for its request, a start      *)
(* takes one for a transaction.                                            *)
LEMMA CountStep ==
  TypeOK /\ TypeOK' /\ CallsUnderWay /\ FlagsCounted /\ [Next]_vars => FlagsCounted'
<1> SUFFICES ASSUME TypeOK, TypeOK', CallsUnderWay, FlagsCounted, [Next]_vars
             PROVE  FlagsCounted'
  OBVIOUS
<1>a. /\ RoutedSingle \in SUBSET Requests /\ RoutedSingle' \in SUBSET Requests
      /\ Recorded \in SUBSET Requests /\ Recorded' \in SUBSET Requests
  BY DEF RoutedSingle, Recorded
<1>b. /\ Cardinality(RoutedSingle) \in Nat /\ Cardinality(RoutedSingle') \in Nat
      /\ Cardinality(Recorded) \in Nat /\ Cardinality(Recorded') \in Nat
  BY <1>a, RequestsFinite
<1>c. Cardinality(Recorded) <= Cardinality(Recorded')
  <2>1. Recorded \in SUBSET Recorded'
    BY RecordedKept
  <2>2. IsFiniteSet(Recorded')
    BY <1>a, RequestsFinite
  <2> QED
    BY <2>1, <2>2, FS_Subset
<1>d. stolen \in Nat /\ stolen' \in Nat
  BY DEF TypeOK, ChargerType
<1>e. IsFiniteSet(pending) /\ Cardinality(pending) \in Nat
  BY FS_CardinalityType DEF FlagsCounted
<1>f. ASSUME IsFiniteSet(pending'), UNCHANGED <<routed, stolen>>,
             Cardinality(pending') <= Cardinality(pending)
      PROVE  FlagsCounted'
  <2>1. RoutedSingle' = RoutedSingle
    BY <1>f DEF RoutedSingle
  <2>2. Cardinality(pending') \in Nat
    BY <1>f, FS_CardinalityType
  <2> QED
    BY <1>b, <1>c, <1>d, <1>e, <1>f, <2>1, <2>2 DEF FlagsCounted
<1> USE DEF handlers, calls, charger
<1>1. ASSUME NEW r \in Requests, NEW q \in RequestType, Issue(r, q)
      PROVE  FlagsCounted'
  BY <1>1, <1>e, <1>f DEF Issue
<1>2. ASSUME NEW r \in Requests, Record(r)
      PROVE  FlagsCounted'
  <2>1. Recorded' = Recorded \union {r} /\ r \notin Recorded
    BY <1>2 DEF Record, Recorded, Single, Goto, TypeOK, HandlerType, CallsUnderWay
  <2>2. Cardinality(Recorded') = Cardinality(Recorded) + 1
    BY <1>a, <2>1, RequestsFinite, FS_AddElement
  <2>3. IsFiniteSet(pending') /\ Cardinality(pending') <= Cardinality(pending) + 1
    BY <1>2, <1>e, AnElement DEF Record
  <2>4. Cardinality(pending') \in Nat
    BY <2>3, FS_CardinalityType
  <2>5. RoutedSingle' = RoutedSingle /\ stolen' = stolen
    BY <1>2 DEF Record, RoutedSingle
  <2> QED
    BY <1>b, <1>d, <1>e, <2>2, <2>3, <2>4, <2>5 DEF FlagsCounted
<1>3. ASSUME NEW r \in Requests, Send(r) \/ Receive(r) \/ Timeout(r)
      PROVE  FlagsCounted'
  BY <1>3, <1>e, <1>f DEF Send, Receive, Timeout
<1>4. ASSUME NEW r \in Requests, Fail(r)
      PROVE  FlagsCounted'
  <2>1. UNCHANGED <<routed, stolen>>
    BY <1>4 DEF Fail
  <2>2. pending' = pending \ {Key(r)} \/ pending' = pending
    BY <1>4 DEF Fail
  <2>3. /\ IsFiniteSet(pending \ {Key(r)})
        /\ Cardinality(pending \ {Key(r)}) <= Cardinality(pending)
    BY <1>e, AnElement
  <2>4. IsFiniteSet(pending') /\ Cardinality(pending') <= Cardinality(pending)
    BY <1>e, <2>2, <2>3
  <2> QED
    BY <1>f, <2>1, <2>4
<1>5. ASSUME NEW r \in Requests, CallBack(r) \/ \E v \in Values : Answer(r, v)
      PROVE  FlagsCounted'
  BY <1>5, <1>e, <1>f DEF CallBack, Answer
<1>6. ASSUME NEW r \in Requests, Start(r)
      PROVE  FlagsCounted'
  <2>1. PICK c \in {request[r].conn, NoConnector}, kind \in {"single", "normal"} :
          /\ ConsumePending(c, request[r].tag, kind)
          /\ routed' \in {routed, [routed EXCEPT ![r] = kind]}
    BY <1>6 DEF Start
  <2>2. /\ IsFiniteSet(pending')
        /\ Cardinality(pending') = IF kind = "single" THEN Cardinality(pending) - 1
                                                      ELSE Cardinality(pending)
    BY <1>e, <2>1, TakeFlag
  <2>3. Cardinality(pending') \in Nat
    BY <2>2, FS_CardinalityType
  <2>4. r \notin RoutedSingle
    BY <1>6 DEF Start, CallsUnderWay, RoutedSingle
  <2>5. \/ RoutedSingle' = RoutedSingle
        \/ kind = "single" /\ RoutedSingle' = RoutedSingle \union {r}
    BY <2>1, <2>4 DEF RoutedSingle, TypeOK, ChargerType
  <2>6. \/ Cardinality(RoutedSingle') = Cardinality(RoutedSingle)
        \/ kind = "single" /\ Cardinality(RoutedSingle') = Cardinality(RoutedSingle) + 1
    BY <1>a, <2>4, <2>5, RequestsFinite, FS_AddElement
  <2>7. stolen' = stolen
    BY <1>6 DEF Start
  <2> QED
    BY <1>b, <1>c, <1>d, <1>e, <2>2, <2>3, <2>6, <2>7 DEF FlagsCounted
<1>7. ASSUME NEW c \in Connectors, NEW g \in Tags, LocalStart(c, g)
      PROVE  FlagsCounted'
  <2>1. PICK kind \in {"single", "normal"} :
          /\ ConsumePending(c, g, kind)
          /\ stolen' = IF kind = "single" THEN stolen + 1 ELSE stolen
    BY <1>7 DEF LocalStart
  <2>2. /\ IsFiniteSet(pending')
        /\ Cardinality(pending') = IF kind = "single" THEN Cardinality(pending) - 1
                                                      ELSE Cardinality(pending)
    BY <1>e, <2>1, TakeFlag
  <2>3. Cardinality(pending') \in Nat
    BY <2>2, FS_CardinalityType
  <2>4. RoutedSingle' = RoutedSingle
    BY <1>7 DEF LocalStart, RoutedSingle
  <2> QED
    BY <1>b, <1>c, <1>d, <1>e, <2>1, <2>2, <2>3, <2>4 DEF FlagsCounted
<1>8. CASE UNCHANGED vars
  BY <1>8, <1>e, <1>f DEF vars
<1> QED
  BY <1>1, <1>2, <1>3, <1>4, <1>5, <1>6, <1>7, <1>8 DEF Next, HandlerStep

-----------------------------------------------------------------------------
(* A pending flag keeps its request: one that fails clears the flag.       *)
LEMMA HasRequestStep ==
  TypeOK /\ CallsUnderWay /\ FlagHasRequest /\ [Next]_vars => FlagHasRequest'
<1> DEFINE Has(r, k) ==
      /\ Single(r) /\ Key(r) = k
      /\ pc[r] \in {"send", "wait", "failed"} \/ response[r] \in {"Accepted", "Rejected"}
<1> SUFFICES ASSUME TypeOK, CallsUnderWay, FlagHasRequest, [Next]_vars,
                    NEW k \in pending'
             PROVE  \E r \in Requests : Has(r, k)'
  BY DEF FlagHasRequest
<1> USE DEF Single, Key, TypeOK, HandlerType, CallType, RequestType, Values, handlers,
            calls, charger, Goto, Respond
<1>a. ASSUME k \in pending
      PROVE  \E r \in Requests : Has(r, k)
  BY <1>a DEF FlagHasRequest
<1>1. ASSUME NEW o \in Requests, NEW q \in RequestType, Issue(o, q)
      PROVE  \E r \in Requests : Has(r, k)'
  <2>1. PICK r \in Requests : Has(r, k)
    BY <1>1, <1>a DEF Issue
  <2>2. r # o \/ response[r] \in {"Accepted", "Rejected"}
    BY <1>1, <2>1 DEF Issue
  <2>3. pc[o] = "idle" /\ UNCHANGED response
    BY <1>1 DEF Issue
  <2> QED
    BY <1>1, <2>1, <2>2, <2>3 DEF Issue
<1>2. ASSUME NEW o \in Requests, Record(o)
      PROVE  \E r \in Requests : Has(r, k)'
  <2>1. CASE k = Key(o)
    <3>1. Has(o, k)'
      BY <1>2, <2>1 DEF Record, CallsUnderWay
    <3> QED
      BY <3>1
  <2>2. CASE k # Key(o)
    <3>1. PICK r \in Requests : Has(r, k)
      BY <1>2, <1>a, <2>2 DEF Record
    <3>2. Has(r, k)'
      BY <1>2, <2>2, <3>1 DEF Record
    <3> QED
      BY <3>2
  <2> QED
    BY <2>1, <2>2
<1>3. ASSUME NEW o \in Requests, Send(o) \/ Receive(o) \/ Timeout(o)
      PROVE  \E r \in Requests : Has(r, k)'
  <2>1. PICK r \in Requests : Has(r, k)
    BY <1>3, <1>a DEF Send, Receive, Timeout
  <2>2. Has(r, k)'
    BY <1>3, <2>1 DEF Send, Receive, Timeout
  <2> QED
    BY <2>2
<1>4. ASSUME NEW o \in Requests, Fail(o)
      PROVE  \E r \in Requests : Has(r, k)'
  <2>1. k \in pending /\ ~(request[o].single /\ k = Key(o))
    BY <1>4 DEF Fail
  <2>2. PICK r \in Requests : Has(r, k)
    BY <1>a, <2>1
  <2>3. r # o
    BY <2>1, <2>2
  <2>4. Has(r, k)'
    BY <1>4, <2>2, <2>3 DEF Fail
  <2> QED
    BY <2>4
<1>5. ASSUME \/ UNCHANGED vars
             \/ \E o \in Requests : CallBack(o) \/ Start(o) \/ \E v \in Values : Answer(o, v)
             \/ \E c \in Connectors, g \in Tags : LocalStart(c, g)
      PROVE  \E r \in Requests : Has(r, k)'
  <2>1. pending' \subseteq pending /\ UNCHANGED handlers
    BY <1>5, ConsumeTakes DEF vars, CallBack, Answer, Start, LocalStart
  <2>2. PICK r \in Requests : Has(r, k)
    BY <1>a, <2>1
  <2> QED
    BY <2>1, <2>2
<1> QED
  BY <1>1, <1>2, <1>3, <1>4, <1>5 DEF Next, HandlerStep

-----------------------------------------------------------------------------
(* What disturbs a request goes on disturbing it.                          *)
LEMMA UndisturbedBefore ==
  ASSUME TypeOK, CallsUnderWay, [Next]_vars, NEW r \in Requests, pc[r] # "idle",
         request[r].single, Undisturbed(r)'
  PROVE  Undisturbed(r)
<1> USE DEF TypeOK, HandlerType, ChargerType, RequestType, handlers, calls, charger,
            Goto, Respond
<1>1. local = 0
  <2>1. local' = local \/ local' = local + 1
    BY DEF Next, vars, Issue, HandlerStep, Record, Send, Receive, Timeout, Fail, Answer,
           CallBack, Start, LocalStart
  <2> QED
    BY <2>1 DEF Undisturbed
<1>2. \A o \in Requests \ {r} : pc[o] # "idle" => request[o].tag # request[r].tag
  BY RecordedKept DEF Undisturbed
<1>3. pc[r] # "failed" /\ response[r] # "error"
  <2>1. ASSUME NEW o \in Requests, NEW q \in RequestType, Issue(o, q)
        PROVE  pc[r] # "failed" /\ response[r] # "error"
    BY <2>1 DEF Issue, Undisturbed
  <2>2. ASSUME NEW o \in Requests, HandlerStep(o)
        PROVE  pc[r] # "failed" /\ response[r] # "error"
    <3>1. CASE o # r
      <4>1. pc'[r] = pc[r] /\ response'[r] = response[r]
        BY <2>2, <3>1 DEF HandlerStep, Record, Send, Receive, Timeout, Fail
      <4> QED
        BY <4>1 DEF Undisturbed
    <3>2. CASE o = r
      BY <2>2, <3>2 DEF HandlerStep, Record, Send, Receive, Timeout, Fail, Undisturbed,
                        CallType, Values, CallsUnderWay
    <3> QED
      BY <3>1, <3>2
  <2>3. ASSUME UNCHANGED <<pc, response>>
        PROVE  pc[r] # "failed" /\ response[r] # "error"
    BY <2>3 DEF Undisturbed
  <2> QED
    BY <2>1, <2>2, <2>3 DEF Next, vars, CallBack, Answer, Start, LocalStart
<1> QED
  BY <1>1, <1>2, <1>3 DEF Undisturbed

-----------------------------------------------------------------------------
(* The flag of an undisturbed request is there from Record to Start: a     *)
(* start that could take it has another tag.                               *)
LEMMA KeptStep ==
  TypeOK /\ CallsUnderWay /\ FlagIsKept /\ [Next]_vars => FlagIsKept'
<1> SUFFICES ASSUME TypeOK, CallsUnderWay, FlagIsKept, [Next]_vars,
                    NEW r \in Recorded', Undisturbed(r)', plug'[r] # "started"
             PROVE  Key(r)' \in pending'
  BY DEF FlagIsKept
<1> USE DEF TypeOK, HandlerType, ChargerType, RequestType, handlers, calls, charger,
            Goto, Respond
<1>a. r \in Requests /\ pc'[r] \notin {"idle", "record"} /\ request'[r].single
  BY DEF Recorded, Single
<1>b. ASSUME r \in Recorded
      PROVE  Undisturbed(r) /\ Key(r)' = Key(r)
  <2>1. pc[r] # "idle" /\ request[r].single
    BY <1>b DEF Recorded, Single
  <2> QED
    BY <1>a, <2>1, UndisturbedBefore, RecordedKept DEF Key
<1>c. ASSUME r \in Recorded, plug[r] # "started"
      PROVE  Key(r) \in pending
  BY <1>b, <1>c DEF FlagIsKept
<1>d. ASSUME NEW o \in Requests \ {r}, pc'[o] # "idle"
      PROVE  request'[o].tag # request'[r].tag
  BY <1>d DEF Undisturbed
<1>e. ASSUME NEW o \in Requests, Record(o)
      PROVE  Key(r)' \in pending'
  <2>1. CASE o = r
    BY <1>e, <2>1 DEF Record, Key
  <2>2. CASE o # r
    <3>1. r \in Recorded /\ plug[r] # "started"
      BY <1>a, <1>e, <2>2 DEF Record, Recorded, Single
    <3> QED
      BY <1>b, <1>c, <1>e, <3>1 DEF Record
  <2> QED
    BY <2>1, <2>2
<1>f. ASSUME NEW o \in Requests, Fail(o)
      PROVE  Key(r)' \in pending'
  <2>1. o # r
    BY <1>a, <1>f DEF Fail, Undisturbed
  <2>2. r \in Recorded /\ plug[r] # "started"
    BY <1>a, <1>f, <2>1 DEF Fail, Recorded, Single
  <2>3. Key(o) # Key(r)
    BY <1>a, <1>d, <1>f, <2>1 DEF Fail, Key
  <2> QED
    BY <1>b, <1>c, <1>f, <2>2, <2>3 DEF Fail
<1>g. ASSUME NEW o \in Requests, Start(o)
      PROVE  Key(r)' \in pending'
  <2>1. o # r
    BY <1>g DEF Start
  <2>2. r \in Recorded /\ plug[r] # "started"
    BY <1>a, <1>g, <2>1 DEF Start, Recorded, Single
  <2>3. request[o].tag # request[r].tag
    <3>1. pc[o] # "idle" /\ UNCHANGED <<pc, request>>
      BY <1>g DEF Start, CallsUnderWay
    <3> QED
      BY <1>d, <2>1, <3>1
  <2>4. Key(r) \in pending /\ Key(r)[2] = request[r].tag
    BY <1>c, <2>2 DEF Key
  <2>5. Key(r) \in pending'
    BY <1>g, <2>3, <2>4 DEF Start, ConsumePending, Flags
  <2> QED
    BY <1>b, <2>2, <2>5
<1>h. ASSUME NEW c \in Connectors, NEW g \in Tags, LocalStart(c, g)
      PROVE  FALSE
  BY <1>h DEF LocalStart, Undisturbed
<1>i. ASSUME \/ \E o \in Requests, q \in RequestType : Issue(o, q)
             \/ \E o \in Requests : Send(o) \/ Receive(o) \/ Timeout(o)
      PROVE  r \in Recorded /\ plug[r] # "started" /\ pending' = pending
  BY <1>a, <1>i DEF Issue, Send, Receive, Timeout, Recorded, Single
<1>j. ASSUME \/ UNCHANGED vars
             \/ \E o \in Requests : CallBack(o) \/ \E v \in Values : Answer(o, v)
      PROVE  r \in Recorded /\ plug[r] # "started" /\ pending' = pending
  <2>1. UNCHANGED <<handlers, pending>>
    BY <1>j DEF vars, CallBack, Answer
  <2>2. r \in Recorded
    BY <1>a, <2>1 DEF Recorded, Single
  <2>3. plug[r] # "started"
    BY <1>a, <1>j DEF vars, CallBack, Answer, CallsUnderWay, CallType
  <2> QED
    BY <2>1, <2>2, <2>3
<1> QED
  BY <1>b, <1>c, <1>e, <1>f, <1>g, <1>h, <1>i, <1>j DEF Next, HandlerStep

(* The start of an undisturbed request finds its flag.                     *)
LEMMA RoutedStep ==
  TypeOK /\ CallsUnderWay /\ FlagIsKept /\ RoutedAsAsked /\ [Next]_vars => RoutedAsAsked'
<1> SUFFICES ASSUME TypeOK, CallsUnderWay, FlagIsKept, RoutedAsAsked, [Next]_vars,
                    NEW r \in Requests, Single(r)', Undisturbed(r)',
                    routed'[r] = "normal"
             PROVE  FALSE
  BY DEF RoutedAsAsked
<1> USE DEF TypeOK, HandlerType, ChargerType, RequestType, handlers, calls, charger,
            Goto, Respond
<1>1. ASSUME Start(r)
      PROVE  FALSE
  <2>1. r \in Recorded /\ pc[r] # "idle" /\ request[r].single
    BY <1>1 DEF Start, CallsUnderWay, Recorded, Single
  <2>2. Key(r) \in pending
    BY <1>1, <2>1, UndisturbedBefore DEF FlagIsKept, Start
  <2>3. PICK c \in {request[r].conn, NoConnector}, kind \in {"single", "normal"} :
          /\ ConsumePending(c, request[r].tag, kind)
          /\ routed' \in {routed, [routed EXCEPT ![r] = kind]}
    BY <1>1 DEF Start
  <2>4. Flags(c, request[r].tag) # {}
    BY <2>2 DEF Flags, Key
  <2>5. kind = "single"
    BY <2>3, <2>4 DEF ConsumePending
  <2>6. routed[r] = "none"
    BY <1>1 DEF Start, CallsUnderWay
  <2> QED
    BY <2>3, <2>5, <2>6
<1>2. ASSUME routed'[r] = routed[r]
      PROVE  FALSE
  <2>1. plug[r] = "started"
    BY <1>2 DEF CallsUnderWay
  <2>2. pc[r] # "idle"
    BY <2>1 DEF CallsUnderWay
  <2>3. request[r].single
    BY <2>2, RecordedKept DEF Single
  <2> QED
    BY <1>2, <2>2, <2>3, UndisturbedBefore DEF RoutedAsAsked, Single
<1>3. Start(r) \/ routed'[r] = routed[r]
  BY DEF Next, vars, Issue, HandlerStep, Record, Send, Receive, Timeout, Fail, Answer,
         CallBack, Start, LocalStart
<1> QED
  BY <1>1, <1>2, <1>3

-----------------------------------------------------------------------------
(* StartInv is inductive.                                                  *)
LEMMA Invariant == Spec => []StartInv
<1>1. Init => StartInv
  <2> SUFFICES ASSUME Init PROVE StartInv
    OBVIOUS
  <2>1. TypeOK /\ CallsUnderWay
    BY TypeInit
  <2>2. Recorded = {} /\ RoutedSingle = {} /\ pending = {} /\ stolen = 0
    BY DEF Init, Recorded, RoutedSingle, Single
  <2>3. FlagsCounted
    BY <2>2, FS_EmptySet DEF FlagsCounted
  <2>4. FlagHasRequest /\ FlagIsKept
    BY <2>2 DEF FlagHasRequest, FlagIsKept
  <2>5. RoutedAsAsked
    BY DEF Init, RoutedAsAsked
  <2> QED
    BY <2>1, <2>3, <2>4, <2>5 DEF StartInv
<1>2. StartInv /\ [Next]_vars => StartInv'
  BY TypeStep, CallsStep, CountStep, HasRequestStep, KeptStep, RoutedStep DEF StartInv
<1> QED
  BY <1>1, <1>2, PTL DEF Spec

(* One request flags at most one transaction, whoever takes the flag       *)
(* (consumePendingSingleSession deletes it).                               *)
THEOREM FlagsAreUsedOnce == Spec => []OneSessionPerFlag
<1>1. StartInv => OneSessionPerFlag
  <2> SUFFICES ASSUME StartInv PROVE OneSessionPerFlag
    OBVIOUS
  <2> DEFINE Singles == {r \in Requests : Single(r)}
  <2>1. /\ Recorded \subseteq Singles
        /\ Singles \in SUBSET Requests /\ Recorded \in SUBSET Requests
    BY DEF Recorded
  <2>a. RoutedSingle \in SUBSET Requests
    BY DEF RoutedSingle
  <2>2. Cardinality(Recorded) <= Cardinality(Singles)
    BY <2>1, RequestsFinite, FS_Subset
  <2>3. Cardinality(Recorded) \in Nat /\ Cardinality(Singles) \in Nat
        /\ Cardinality(RoutedSingle) \in Nat
    BY <2>1, <2>a, RequestsFinite
  <2>4. Cardinality(pending) \in Nat /\ stolen \in Nat
    BY FS_CardinalityType DEF StartInv, FlagsCounted, TypeOK, ChargerType
  <2>5. Cardinality(RoutedSingle) + stolen + Cardinality(pending) <= Cardinality(Singles)
    BY <2>2, <2>3, <2>4 DEF StartInv, FlagsCounted
  <2> QED
    BY <2>5 DEF OneSessionPerFlag, RoutedSingle
<1> QED
  BY Invariant, <1>1, PTL

(* No request that failed leaves its flag behind                           *)
(* (clearPendingSingleSession).                                            *)
THEOREM FlagsHaveRequests == Spec => []FlagHasRequest
<1>1. StartInv => FlagHasRequest
  BY DEF StartInv
<1> QED
  BY Invariant, <1>1, PTL

(* The transaction of an undisturbed single-session request is routed as   *)
(* one (RemoteStartTransactionWithOptions, OnStartTransaction).            *)
THEOREM StartsAreRouted == Spec => []RoutedAsAsked
<1>1. StartInv => RoutedAsAsked
  BY DEF StartInv
<1> QED
  BY Invariant, <1>1, PTL
=============================================================================
