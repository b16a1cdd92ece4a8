------------------------ MODULE ConnectionTrackerProofs ------------------------
(***************************************************************************)
(* Proofs about ConnectionTracker, for any number of sockets and messages. *)
(***************************************************************************)
EXTENDS ConnectionTracker, TLAPS

USE TrackerAssumption

(* No socket has been opened and nothing is registered.                    *)
LEMMA TrackerInit == Init => TrackerInv
<1> SUFFICES ASSUME Init PROVE TrackerInv
  OBVIOUS
<1>1. TypeOK
  <2>1. SocketType
    BY DEF Init, SocketType, Places, Sockets, NoSocket
  <2>2. FlagType
    BY DEF Init, FlagType
  <2> QED
    BY <2>1, <2>2 DEF TypeOK
<1>2. NewestConnects /\ NewestIsRegistered
  BY DEF Init, NewestConnects, NewestIsRegistered
<1> QED
  BY <1>1, <1>2 DEF TrackerInv

(* Every step keeps the invariant: a handler that registers is the one of  *)
(* the newest socket, and only its own disconnect unregisters it.          *)
LEMMA TrackerStep == TrackerInv /\ [Next]_vars => TrackerInv'
<1> SUFFICES ASSUME TrackerInv, [Next]_vars PROVE TrackerInv'
  OBVIOUS
<1>a. FlagType'
  <2>1. \/ UNCHANGED registry \/ Touch
        \/ \E s \in Sockets : MarkOffline(s)
        \/ Quiet \/ CheckInactivity
    BY DEF vars, Next, HandlerStep, Connect, Register, ConnectTouch, Unregister,
           Disconnect, Message, Handle
  <2>2. FlagType
    BY DEF TrackerInv, TypeOK
  <2>3. CASE UNCHANGED registry
    BY <2>2, <2>3 DEF FlagType, registry
  <2>4. CASE Touch
    BY <2>4 DEF FlagType, Touch
  <2>5. ASSUME NEW s \in Sockets, MarkOffline(s)
        PROVE  FlagType'
    BY <2>2, <2>5, Zenon DEF FlagType, MarkOffline
  <2>6. CASE Quiet \/ CheckInactivity
    BY <2>2, <2>6, Zenon DEF FlagType, Quiet, CheckInactivity
  <2> QED
    BY <2>1, <2>3, <2>4, <2>5, <2>6
<1>b. ASSUME SocketType', NewestConnects', NewestIsRegistered'
      PROVE  TrackerInv'
  BY <1>a, <1>b DEF TrackerInv, TypeOK
<1>c. SocketType /\ NewestConnects /\ NewestIsRegistered
  BY DEF TrackerInv, TypeOK
<1> USE <1>b, <1>c DEF SocketType, NewestConnects, NewestIsRegistered, Sockets, NoSocket,
                       Places, Registered, Move, registry
<1>1. ASSUME Connect
      PROVE  TrackerInv'
  BY <1>1 DEF Connect
<1>2. ASSUME NEW s \in Sockets, Register(s)
      PROVE  TrackerInv'
  BY <1>2 DEF Register
<1>3. ASSUME NEW s \in Sockets, ConnectTouch(s)
      PROVE  TrackerInv'
  BY <1>3 DEF ConnectTouch
<1>4. ASSUME NEW s \in Sockets, Unregister(s)
      PROVE  TrackerInv'
  BY <1>4 DEF Unregister
<1>5. ASSUME NEW s \in Sockets, MarkOffline(s)
      PROVE  TrackerInv'
  BY <1>5 DEF MarkOffline
<1>6. ASSUME NEW s \in Sockets, Disconnect(s)
      PROVE  TrackerInv'
  BY <1>6 DEF Disconnect
<1>7. ASSUME NEW s \in Sockets, Message(s)
      PROVE  TrackerInv'
  BY <1>7 DEF Message
<1>8. ASSUME Handle
      PROVE  TrackerInv'
  BY <1>8 DEF Handle
<1>9. ASSUME Quiet
      PROVE  TrackerInv'
  BY <1>9 DEF Quiet
<1>10. ASSUME CheckInactivity
      PROVE  TrackerInv'
  BY <1>10 DEF CheckInactivity
<1>11. CASE UNCHANGED vars
  BY <1>11 DEF vars
<1> QED
  BY <1>1, <1>2, <1>3, <1>4, <1>5, <1>6, <1>7, <1>8, <1>9, <1>10, <1>11
     DEF Next, HandlerStep

(* The inductive invariant holds in every state.                           *)
LEMMA TrackerInvariant == Spec => []TrackerInv
  BY TrackerInit, TrackerStep, PTL DEF Spec

(* The tracker holds a socket that is registered and not yet unregistered, *)
(* and the charger it shows online is known.                               *)
THEOREM TypeCorrect == Spec => []TypeOK
<1>1. TrackerInv => TypeOK
  BY DEF TrackerInv
<1> QED
  BY <1>1, TrackerInvariant, PTL

(* The newest open socket is the registered one, in whatever order the     *)
(* disconnects of the sockets before it are handled (unregisterIfCurrent). *)
THEOREM StaleDisconnectKeepsSocket == Spec => []NewestIsRegistered
<1>1. TrackerInv => NewestIsRegistered
  BY DEF TrackerInv
<1> QED
  BY <1>1, TrackerInvariant, PTL

(* When every socket is gone, the tracker is empty (unregisterIfCurrent).  *)
THEOREM TrackerEmpties == Spec => []NothingStaysRegistered
<1>1. TrackerInv => NothingStaysRegistered
  BY DEF TrackerInv, TypeOK, SocketType, NothingStaysRegistered, NoSocket
<1> QED
  BY <1>1, TrackerInvariant, PTL
=============================================================================
