------------------------------- MODULE LiveFeed -------------------------------
(***************************************************************************)
(* What the live transaction stream promises those who watch: a watcher is *)
(* shown versions that its transaction has had, each no older than the one *)
(* before, perhaps not all of them, but one at least as new as any that is *)
(* published while it watches.                                             *)
(***************************************************************************)
EXTENDS Naturals

CONSTANTS Txs, Watchers, Versions, NoTx

VARIABLES current,    \* the version of each transaction, 0 before it has one
          published,  \* the last that was announced
          watched,    \* the transaction of each watcher
          shown       \* the last version that it was shown, 0 before the first

vars == <<current, published, watched, shown>>

Watching(w) == watched[w] # NoTx

Init ==
  /\ current = [t \in Txs |-> 0] /\ published = [t \in Txs |-> 0]
  /\ watched = [w \in Watchers |-> NoTx] /\ shown = [w \in Watchers |-> 0]

Change(t) == /\ current[t] + 1 \in Versions
             /\ current' = [current EXCEPT ![t] = @ + 1]
             /\ UNCHANGED <<published, watched, shown>>

Publish(t) == /\ published' = [published EXCEPT ![t] = current[t]]
              /\ UNCHANGED <<current, watched, shown>>

Watch(w, t) == /\ ~Watching(w) /\ current[t] > 0
               /\ watched' = [watched EXCEPT ![w] = t]
               /\ UNCHANGED <<current, published, shown>>

Show(w, v) == /\ Watching(w)
              /\ shown[w] <= v /\ v <= current[watched[w]]
              /\ shown' = [shown EXCEPT ![w] = v]
              /\ UNCHANGED <<current, published, watched>>

Quit(w) == /\ Watching(w)
           /\ watched' = [watched EXCEPT ![w] = NoTx]
           /\ shown' = [shown EXCEPT ![w] = 0]
           /\ UNCHANGED <<current, published>>

Next == \/ \E t \in Txs : Change(t) \/ Publish(t)
        \/ \E w \in Watchers : \/ \E t \in Txs : Watch(w, t)
                               \/ \E v \in Versions : Show(w, v)
                               \/ Quit(w)

(* The watcher has not been shown v, which is published, and now is, or a  *)
(* later one.                                                              *)
CatchUp(w, v) == /\ Watching(w)
                 /\ shown[w] < v /\ v <= published[watched[w]]
                 /\ \E u \in Versions : v <= u /\ Show(w, u)

Spec == /\ Init /\ [][Next]_vars
        /\ \A w \in Watchers, v \in Versions : WF_vars(CatchUp(w, v))
=============================================================================
