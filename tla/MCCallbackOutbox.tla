--------------------------- MODULE MCCallbackOutbox ---------------------------
(***************************************************************************)
(* The instance of CallbackOutbox that TLC explores: one post for a start  *)
(* callback and two for a completed one; the start of transaction 1 cannot *)
(* be posted at all.                                                       *)
(***************************************************************************)
EXTENDS CallbackOutbox

TwoPosts == [k \in Kinds |-> IF k = "start" THEN 1 ELSE 2]
Unbuildable == {<<"start", 1>>}
=============================================================================
