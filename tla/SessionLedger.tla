----------------------------- MODULE SessionLedger -----------------------------
(***************************************************************************)
(* What the central system promises about a charging session, whichever    *)
(* handler or recovery has a hand in it and however often it restarts: a   *)
(* session is opened once, its id is given to the charger only after it    *)
(* has been announced to the CMS, it is closed once, billed once and       *)
(* confirmed after that; its identity is fixed, and it is billed for the   *)
(* reading in its row unless that is disputed.                             *)
(***************************************************************************)
CONSTANTS Sessions, Connectors, Tags, StartReadings, Readings,
          NoSession, NoValue

VARIABLES session,    \* the row of each session
          announced,  \* sessions with a start callback
          granted,    \* sessions whose id the charger was given
          bill,       \* the reading a session was billed for
          confirmed,  \* sessions whose end was confirmed to the charger
          disputed    \* closed sessions of which two readings are known

vars == <<session, announced, granted, bill, confirmed, disputed>>

Closed(s) == session[s].state = "closed"

Init ==
  /\ session = [s \in Sessions |-> NoSession]
  /\ bill = [s \in Sessions |-> NoValue]
  /\ announced = {} /\ granted = {} /\ confirmed = {} /\ disputed = {}

Open(s, c, g, m) ==
  /\ session[s] = NoSession
  /\ session' = [session EXCEPT ![s] = [state |-> "open", conn |-> c, tag |-> g,
                                        start |-> m, stop |-> NoValue]]
  /\ UNCHANGED <<announced, granted, bill, confirmed, disputed>>

(* To the CMS, and to the charger if it gets the answer.                   *)
Announce(s) ==
  /\ session[s] # NoSession
  /\ announced' = announced \union {s}
  /\ granted' \in {granted, granted \union {s}}
  /\ UNCHANGED <<session, bill, confirmed, disputed>>

(* A reading of a session that is closed already puts it in dispute.       *)
Amend(s, m) ==
  /\ session[s] # NoSession
  /\ session' = [session EXCEPT ![s].stop = m]
  /\ disputed' = IF Closed(s) THEN disputed \union {s} ELSE disputed
  /\ UNCHANGED <<announced, granted, bill, confirmed>>

Close(s, m) ==
  /\ session[s].state = "open"
  /\ session' = [session EXCEPT ![s].state = "closed", ![s].stop = m]
  /\ UNCHANGED <<announced, granted, bill, confirmed, disputed>>

(* A second attempt to close a session, with a reading of its own.         *)
Dispute(s) ==
  /\ Closed(s)
  /\ disputed' = disputed \union {s}
  /\ UNCHANGED <<session, announced, granted, bill, confirmed>>

Bill(s, m) ==
  /\ Closed(s) /\ bill[s] = NoValue
  /\ m = session[s].stop \/ s \in disputed
  /\ bill' = [bill EXCEPT ![s] = m]
  /\ UNCHANGED <<session, announced, granted, confirmed, disputed>>

Confirm(s) ==
  /\ bill[s] # NoValue
  /\ confirmed' = confirmed \union {s}
  /\ UNCHANGED <<session, announced, granted, bill, disputed>>

Next ==
  \E s \in Sessions :
    \/ \E c \in Connectors, g \in Tags, m \in StartReadings : Open(s, c, g, m)
    \/ \E m \in Readings : Amend(s, m) \/ Close(s, m) \/ Bill(s, m)
    \/ Announce(s) \/ Dispute(s) \/ Confirm(s)

Spec == Init /\ [][Next]_vars
=============================================================================
