----------------------------- MODULE Signalling -----------------------------
(***************************************************************************)
(* Rooster with its clients: eggs (browsers, egg/src/index.ts) and home    *)
(* desktops (hammeregg_backend/src/net.rs), reduced to the packets they    *)
(* send and expect.  An egg sends one offer once its init is granted and   *)
(* closes the socket on an answer or an error; a desktop answers every     *)
(* offer that reaches it, in order, with the peer number it came with.     *)
(* Both may leave at any time: a closed tab, a closed window, a lost link. *)
(***************************************************************************)
EXTENDS Rooster, FiniteSets

VARIABLE egg      \* the state machine of initSignallingConnection

vars == <<server, network, egg>>

EggStates == {"waitRemoteInitResponse", "waitHomeAnswerResponse",
              "done", "failed"}

TypeOK == RoosterTypeOK /\ egg \in [Remotes -> EggStates]

Init == RoosterInit /\ egg = [r \in Remotes |-> "waitRemoteInitResponse"]

-----------------------------------------------------------------------------
Receives(c, packets) == outbound[c] # <<>> /\ Head(outbound[c]) \in packets

Consume(c) == outbound' = [outbound EXCEPT ![c] = Tail(@)]

\* A send on a socket that the server has dropped goes nowhere.
Send(c, packet) ==
    inbound' = IF link[c] = "open"
               THEN [inbound EXCEPT ![c] = Append(@, packet)]
               ELSE inbound

Leave(c) == link' = [link EXCEPT ![c] = IF @ = "open" THEN "left" ELSE @]

\* The response is awaited, the local candidates are gathered and the offer is
\* sent with peer 0; the server fills the number in.
EggSendsOffer(r) ==
    /\ egg[r] = "waitRemoteInitResponse"
    /\ Receives(r, {Granted})
    /\ Consume(r)
    /\ Send(r, Offer(0, r))
    /\ egg' = [egg EXCEPT ![r] = "waitHomeAnswerResponse"]
    /\ UNCHANGED <<server, link>>

\* An answer is a HomeAnswerSuccess that decrypts, or it ends in the catch.
EggTakesAnswer(r) ==
    /\ egg[r] = "waitHomeAnswerResponse"
    /\ Receives(r, HomeAnswer)
    /\ Consume(r)
    /\ \E result \in {"done", "failed"} : egg' = [egg EXCEPT ![r] = result]
    /\ Leave(r)
    /\ UNCHANGED <<server, inbound>>

\* A refusal throws.
EggFails(r) ==
    /\ egg[r] = "waitRemoteInitResponse"
    /\ Receives(r, {Refused})
    /\ Consume(r)
    /\ egg' = [egg EXCEPT ![r] = "failed"]
    /\ Leave(r)
    /\ UNCHANGED <<server, inbound>>

DesktopTakesResponse(h) ==
    /\ Receives(h, InitResponse)
    /\ Consume(h)
    /\ IF Head(outbound[h]).ok THEN UNCHANGED link ELSE Leave(h)
    /\ UNCHANGED <<server, inbound, egg>>

DesktopAnswers(h) ==
    /\ Receives(h, RemoteOffer)
    /\ Consume(h)
    /\ Send(h, Answer(Head(outbound[h]).peer, Head(outbound[h]).payload))
    /\ UNCHANGED <<server, link, egg>>

ClientLeaves(c) ==
    /\ pc[c] # "absent"
    /\ link[c] = "open"
    /\ Leave(c)
    /\ outbound' = [outbound EXCEPT ![c] = <<>>]
    /\ UNCHANGED <<server, inbound, egg>>

EggStep(r) == EggSendsOffer(r) \/ EggTakesAnswer(r) \/ EggFails(r)

DesktopStep(h) == DesktopTakesResponse(h) \/ DesktopAnswers(h)

Next ==
    \/ RoosterNext /\ UNCHANGED egg
    \/ \E r \in Remotes : EggStep(r)
    \/ \E h \in Homes : DesktopStep(h)
    \/ \E c \in Conns : ClientLeaves(c)

Spec == Init /\ [][Next]_vars

\* A client that stays handles what it is sent; nobody has to leave, or to stay.
ClientFairness ==
    /\ \A r \in Remotes : WF_vars(EggStep(r))
    /\ \A h \in Homes : WF_vars(DesktopStep(h))

FairSpec == Spec /\ RoosterFairness /\ ClientFairness
-----------------------------------------------------------------------------
(***************************************************************************)
(* Properties of every behaviour, names reused or not.                     *)
(***************************************************************************)
Ended(c) == pc[c] \in {"closed", "panicked"}

SameName(c, d) == HomeName[c] = HomeName[d]

\* An entry of the map belongs to a home desktop of that name, and each of its
\* peers is a remote that asked for that name and that was given that number,
\* whichever handlers inserted, replaced and removed the entry since
\* (InsertDesktop, InsertPeer and both clean-ups act on a name, not on a handler).
PeerTableSound ==
    \A n \in Names : desktops[n] # NoDesktop =>
        /\ HomeName[desktops[n].home] = n
        /\ \A id \in PeerIds : desktops[n].peers[id] # NoPeer =>
               /\ HomeName[desktops[n].peers[id]] = n
               /\ peerId[desktops[n].peers[id]] = id

\* Offers and answers in transit on a connection concern remotes of the name that
\* the connection was opened for; an egg's own packets are its own offer.
Carries(c, r) == IF c \in Homes THEN SameName(c, r) ELSE c = r

NameIsolation ==
    /\ \A c \in Conns : \A i \in DOMAIN inbound[c] :
          Carries(c, inbound[c][i].payload)
    /\ \A c \in Conns : \A i \in DOMAIN channel[c] :
          SameName(c, channel[c][i].payload)
    /\ \A c \in Conns : \A i \in DOMAIN outbound[c] :
          outbound[c][i] \notin InitResponse => SameName(c, outbound[c][i].payload)

\* The exchange that an offer starts is one packet at a time: nothing relays an
\* offer or its answer twice, and none exists before the egg has sent it.
PacketsOf(queue, r) ==
    {p \in Conns \X (1 .. Cardinality(Remotes) + 1) :
        /\ p[2] \in DOMAIN queue[p[1]]
        /\ queue[p[1]][p[2]] \in RemoteOffer \cup HomeAnswer
        /\ queue[p[1]][p[2]].payload = r}

AtMostOneCopy ==
    \A r \in Remotes :
        Cardinality(PacketsOf(inbound, r)) + Cardinality(PacketsOf(channel, r))
            + Cardinality(PacketsOf(outbound, r))
        <= IF egg[r] = "waitRemoteInitResponse" THEN 0 ELSE 1

\* A handler whose sender has left the map (its desktop disconnected, or another
\* desktop took the name) does not linger: its channel drains and it ends.
DisplacedHandlerEnds ==
    \A c \in Conns : pc[c] = "relaying" /\ ~SenderAlive(c) ~> Ended(c)

\* An egg that waits for an answer gets one, unless its own connection or a home
\* desktop of the name ends.
OfferSettled ==
    \A r \in Remotes :
        egg[r] = "waitHomeAnswerResponse"
            ~> \/ egg[r] \in {"done", "failed"} \/ link[r] # "open"
               \/ \E h \in Homes : SameName(h, r) /\ Ended(h)

-----------------------------------------------------------------------------
(***************************************************************************)
(* Properties of the behaviours in which no two home desktops use a name.  *)
(***************************************************************************)
DistinctNames == \A g, h \in Homes : SameName(g, h) => g = h

\* The answer that reaches a remote is the answer to its own offer.
AnswerReachesOfferer ==
    \A r \in Remotes :
        /\ \A i \in DOMAIN channel[r] : channel[r][i].payload = r
        /\ \A i \in DOMAIN outbound[r] :
               outbound[r][i] \in HomeAnswer => outbound[r][i].payload = r

\* The unwrap of handle_home_init's answer relay finds an entry.
NoPanic == \A h \in Homes : pc[h] # "panicked"

\* While its handler relays, a home desktop can be found under its name.
RelayingHomeIsListed ==
    \A h \in Homes : pc[h] = "relaying" => SenderAlive(h)

\* Two remotes that wait at the same desktop have different peer numbers (the
\* number of remotes is below IdModulus: see the README).
PeerIdsUnique ==
    \A r, s \in Remotes :
        /\ pc[r] = "relaying" /\ pc[s] = "relaying"
        /\ SameName(r, s) /\ peerId[r] = peerId[s]
        => r = s

\* The server ends the handler of a desktop that is still connected only over
\* an answer to a remote whose own handler has ended.
HomeDroppedOnlyForGonePeer ==
    [][\A h \in Homes :
          /\ pc[h] = "relaying" /\ link[h] = "open"
          /\ Ended(h)' /\ listener' = "listening"
          => /\ inbound[h] # <<>>
             /\ Ended(Head(inbound[h]).payload)]_vars

-----------------------------------------------------------------------------
(***************************************************************************)
(* What a comment or an assertion of the code says and the code does not.  *)
(***************************************************************************)
\* "there's already another computer with this name": a desktop is refused only
\* while another handler serves its name.
RefusalIsJustified ==
    [][\A h \in Homes :
          pc[h] = "handshake" /\ pc'[h] = "refusing"
          => \E g \in Homes \ {h} : SameName(g, h) /\ ReceiverAlive(g)]_vars
=============================================================================
