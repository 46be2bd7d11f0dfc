-------------------------- MODULE SignallingService --------------------------
(***************************************************************************)
(* What signalling promises to an egg, whatever server, tasks and channels *)
(* lie in between.  An exchange goes from the offer to the home desktop's  *)
(* answer to the connection, each step once and in this order, or it is    *)
(* over for good.  Several may end together: their desktop has gone, or    *)
(* the server.                                                             *)
(***************************************************************************)
CONSTANT Remotes      \* the eggs, one exchange each

VARIABLE exchange     \* how far an egg's exchange is

Init == exchange = [r \in Remotes |-> "none"]

Advance(r, from, to) ==
    /\ exchange[r] = from
    /\ exchange' = [exchange EXCEPT ![r] = to]

MakeOffer(r) == Advance(r, "none", "offered")

GiveAnswer(r) == Advance(r, "offered", "answered")

Connect(r) == Advance(r, "answered", "connected")

Abandon(gone) ==
    /\ \A r \in gone : exchange[r] # "connected"
    /\ exchange' = [r \in Remotes |-> IF r \in gone THEN "over" ELSE exchange[r]]

Next ==
    \/ \E r \in Remotes : MakeOffer(r) \/ GiveAnswer(r) \/ Connect(r)
    \/ \E gone \in SUBSET Remotes : Abandon(gone)

Spec == Init /\ [][Next]_exchange
=============================================================================
