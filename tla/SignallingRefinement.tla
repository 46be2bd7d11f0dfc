------------------------ MODULE SignallingRefinement ------------------------
(***************************************************************************)
(* Rooster with its clients implements SignallingService, when no two home *)
(* desktops use a name.  How far an exchange is follows from where its one *)
(* packet is.                                                              *)
(***************************************************************************)
EXTENDS Signalling

\* A packet of the exchange of r that can still arrive where it should: an offer,
\* or an answer that is at the desktop's connection or at that of r itself.
Travels(kind, r) ==
    \E c \in Conns : \E queue \in {inbound[c], channel[c], outbound[c]} :
        \E i \in DOMAIN queue :
            /\ queue[i] \in kind
            /\ queue[i].payload = r
            /\ c \in Homes \cup {r}

Exchange ==
    [r \in Remotes |->
        CASE egg[r] = "waitRemoteInitResponse" -> "none"
          [] egg[r] = "done" -> "connected"
          [] egg[r] = "waitHomeAnswerResponse" /\ Travels(RemoteOffer, r) -> "offered"
          [] egg[r] = "waitHomeAnswerResponse" /\ Travels(HomeAnswer, r) -> "answered"
          [] OTHER -> "over"]

Service == INSTANCE SignallingService WITH exchange <- Exchange

\* An egg is connected only by an answer that its desktop gave to its own offer, an
\* offer is answered once, and an exchange that lost its packet does not come back:
\* whatever handlers run, fail and race between the two.
ImplementsService == Service!Spec

\* No offer or answer is lost between connections that last: while an egg waits for
\* its answer, the offer or the answer is on the way, or the egg's connection or its
\* desktop's has ended.  No failure of another remote, and no race with the handler
\* of one, loses the packet of an exchange alone (handle_home_init, main.rs:197-266,
\* and handle_remote_init, main.rs:268-346).
NoPacketIsLost ==
    \A r \in Remotes :
        egg[r] = "waitHomeAnswerResponse" =>
            \/ Travels(RemoteOffer, r) \/ Travels(HomeAnswer, r)
            \/ link[r] # "open"
            \/ \E h \in Homes : SameName(h, r) /\ link[h] # "open"
=============================================================================
