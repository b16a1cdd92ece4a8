--------------------------- MODULE ConnectionTracker ---------------------------
(***************************************************************************)
(* The connections of one charger and its online flag.  The OCPP library   *)
(* (external) calls the new-connection handler and the disconnect handler  *)
(* of each socket and a handler for each message, all in goroutines of     *)
(* their own; the tracker and the registry have a lock each, and a handler *)
(* takes them one after the other.                                         *)
(*                                                                         *)
(* Code: internal/ocpp16hal/connections.go and hal.go,                     *)
(* internal/state/registry.go and inactivity.go.                           *)
(***************************************************************************)
EXTENDS Naturals

CONSTANTS MaxSockets,   \* bound on the sockets of the charger, numbered in order
          MaxMessages   \* bound on the messages in handlers at one time

ASSUME TrackerAssumption == MaxSockets \in Nat \ {0} /\ MaxMessages \in Nat \ {0}

Sockets == 1..MaxSockets
NoSocket == 0

VARIABLES
  last,        \* the newest socket; 0 before the first
  place,       \* where the handlers of each socket are
  handling,    \* messages whose handler has not yet touched the registry
  active,      \* the tracker: the socket registered for the charger
  known,       \* registry: the charger has an entry
  online,      \* registry: its online flag
  quiet        \* registry: last_message_time is 120 seconds ago

registry == <<known, online, quiet>>
vars == <<last, place, handling, active, registry>>

Places == {"unused", "register", "touch", "open", "unregister", "markOffline",
           "gone"}

(* The socket is up as far as the charger and the library can tell.        *)
Up(s) == place[s] \in {"register", "touch", "open"}
Registered(s) == place[s] \in {"touch", "open"}

(* The tracker only holds a socket whose handlers have registered it and   *)
(* not yet unregistered it; sockets are used in order.                     *)
SocketType ==
  /\ last \in 0..MaxSockets
  /\ place \in [Sockets -> Places]
  /\ \A s \in Sockets : place[s] = "unused" <=> s > last
  /\ handling \in 0..MaxMessages
  /\ active \in Sockets \union {NoSocket}
  /\ active # NoSocket => place[active] \in {"touch", "open", "unregister"}

FlagType ==
  /\ known \in BOOLEAN /\ online \in BOOLEAN /\ quiet \in BOOLEAN
  /\ online => known

TypeOK == SocketType /\ FlagType

Init ==
  /\ last = 0
  /\ place = [s \in Sockets |-> "unused"]
  /\ handling = 0
  /\ active = NoSocket
  /\ known = FALSE /\ online = FALSE /\ quiet = FALSE

Move(s, p) == place' = [place EXCEPT ![s] = p]

(* Touch creates the entry when there is none.                             *)
Touch == known' = TRUE /\ online' = TRUE /\ quiet' = FALSE

-----------------------------------------------------------------------------
(* The charger connects, once the library has given up its last socket or  *)
(* while it has not noticed that it is dead; the handler of the connection *)
(* before has ended.                                                       *)
Connect ==
  /\ last < MaxSockets
  /\ last # 0 => place[last] \notin {"register", "touch"}
  /\ last' = last + 1
  /\ place' = [place EXCEPT ![last + 1] = "register"]
  /\ UNCHANGED <<handling, active, registry>>

(* Mutant: a charger that is registered keeps its first socket.            *)
RegisterFirst(s) ==
  /\ place[s] = "register"
  /\ active' = IF active = NoSocket THEN s ELSE active
  /\ Move(s, "touch")
  /\ UNCHANGED <<last, handling, registry>>

(* SetNewChargePointHandler: register, which supersedes what is there ...  *)
Register(s) ==
  /\ place[s] = "register"
  /\ active' = s
  /\ Move(s, "touch")
  /\ UNCHANGED <<last, handling, registry>>

(* ... and Touch.                                                          *)
ConnectTouch(s) ==
  /\ place[s] = "touch"
  /\ Touch
  /\ Move(s, "open")
  /\ UNCHANGED <<last, handling, active>>

(* The library notices that the socket is closed.                          *)
Disconnect(s) ==
  /\ place[s] = "open"
  /\ Move(s, "unregister")
  /\ UNCHANGED <<last, handling, active, registry>>

(* Mutant: the connection is not compared with the registered one.         *)
UnregisterAny(s) ==
  /\ place[s] = "unregister"
  /\ active' = NoSocket
  /\ Move(s, IF active # NoSocket THEN "markOffline" ELSE "gone")
  /\ UNCHANGED <<last, handling, registry>>

(* Mutant: the charger is marked offline and stays registered.             *)
UnregisterNot(s) ==
  /\ place[s] = "unregister"
  /\ Move(s, IF active = s THEN "markOffline" ELSE "gone")
  /\ UNCHANGED <<last, handling, active, registry>>

(* SetChargePointDisconnectedHandler: unregisterIfCurrent, which ignores a *)
(* connection that has been superseded ...                                 *)
Unregister(s) ==
  /\ place[s] = "unregister"
  /\ IF active = s THEN active' = NoSocket /\ Move(s, "markOffline")
                   ELSE Move(s, "gone") /\ UNCHANGED active
  /\ UNCHANGED <<last, handling, registry>>

(* ... and MarkOffline, which sets last_message_time like Touch does.      *)
MarkOffline(s) ==
  /\ place[s] = "markOffline"
  /\ online' = FALSE /\ quiet' = FALSE
  /\ Move(s, "gone")
  /\ UNCHANGED <<last, handling, active, known>>

-----------------------------------------------------------------------------
(* A message of the charger is read from a socket and given to a handler.  *)
Message(s) ==
  /\ Up(s)
  /\ handling < MaxMessages
  /\ handling' = handling + 1
  /\ UNCHANGED <<last, place, active, registry>>

(* Mutant: a message does not put the charger online again.                *)
HandleQuietly ==
  /\ handling > 0
  /\ handling' = handling - 1
  /\ quiet' = FALSE
  /\ UNCHANGED <<last, place, active, known, online>>

(* Every OnXxx handler touches the registry before anything else.          *)
Handle ==
  /\ handling > 0
  /\ handling' = handling - 1
  /\ Touch
  /\ UNCHANGED <<last, place, active>>

(* 120 seconds without a message.                                          *)
Quiet ==
  /\ known /\ ~quiet
  /\ quiet' = TRUE
  /\ UNCHANGED <<last, place, handling, active, known, online>>

(* POST /api/check_charger_inactivity: CheckInactivity with 120 seconds.   *)
CheckInactivity ==
  /\ known /\ online /\ quiet
  /\ online' = FALSE
  /\ UNCHANGED <<last, place, handling, active, known, quiet>>

HandlerStep(s) == Register(s) \/ ConnectTouch(s) \/ Unregister(s) \/ MarkOffline(s)

Next ==
  \/ Connect
  \/ \E s \in Sockets : HandlerStep(s) \/ Disconnect(s) \/ Message(s)
  \/ Handle \/ Quiet \/ CheckInactivity

Spec == Init /\ [][Next]_vars

(* Handlers run, and a connected charger keeps sending its heartbeats.     *)
FairSpec == /\ Spec
            /\ \A s \in Sockets : WF_vars(HandlerStep(s))
            /\ WF_vars(Handle)
            /\ \A s \in Sockets : WF_vars(Message(s))

-----------------------------------------------------------------------------
(* The newest socket stays registered as long as it is open, however late  *)
(* the disconnects of the sockets before it are handled (the key that      *)
(* unregisterIfCurrent compares).                                          *)
NewestIsRegistered ==
  last # 0 /\ Registered(last) => active = last

(* When the handlers of every socket have ended nothing is registered: no  *)
(* order of connects and disconnects leaves a connection behind.           *)
NothingStaysRegistered ==
  (\A s \in Sockets : place[s] \in {"unused", "gone"}) => active = NoSocket

(* README.md 18: a stale disconnect does not mark a reconnected charger    *)
(* offline: while a registered socket is open, only inactivity does.       *)
StaleDisconnectIsHarmless ==
  [][active # NoSocket /\ place[active] = "open" /\ online /\ ~online' => quiet]_vars

(* A charger that is connected and keeps sending is shown online again,    *)
(* whatever was marked offline meanwhile (Touch in every handler).         *)
ConnectedIsShownOnline ==
  \A s \in Sockets : (s = last /\ Up(s)) ~> (online \/ ~Up(s))

-----------------------------------------------------------------------------
(* The inductive invariant behind the first two: the handler of a new      *)
(* connection works for the newest socket.                                 *)
NewestConnects == \A s \in Sockets : place[s] \in {"register", "touch"} => s = last

TrackerInv == TypeOK /\ NewestConnects /\ NewestIsRegistered
=============================================================================
