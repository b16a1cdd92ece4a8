---------------------------- MODULE CallbackPromise ----------------------------
(***************************************************************************)
(* What the callback outbox promises the CMS: a callback that is owed is   *)
(* delivered or given up, in the end; it may be delivered more than once   *)
(* until it is settled and never afterwards.                               *)
(***************************************************************************)
CONSTANT Callbacks

VARIABLES owed,      \* callbacks the transaction table calls for
          told,      \* callbacks the CMS has received
          settled    \* callbacks that are sent or given up

vars == <<owed, told, settled>>

Init == owed = {} /\ told = {} /\ settled = {}

Owe(k) == /\ k \notin owed
          /\ owed' = owed \union {k}
          /\ UNCHANGED <<told, settled>>

Deliver(k) == /\ k \in owed \ settled
              /\ told' = told \union {k}
              /\ UNCHANGED <<owed, settled>>

Settle(k) == /\ k \in owed \ settled
             /\ settled' = settled \union {k}
             /\ UNCHANGED <<owed, told>>

Next == \E k \in Callbacks : Owe(k) \/ Deliver(k) \/ Settle(k)

Spec == Init /\ [][Next]_vars /\ \A k \in Callbacks : WF_vars(Settle(k))
=============================================================================
