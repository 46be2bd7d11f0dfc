------------------------------ MODULE Rooster ------------------------------
(***************************************************************************)
(* Rooster, the signalling server (hammeregg_rooster): one task per        *)
(* WebSocket connection, and a map from desktop names to the sending ends  *)
(* of the desktop and of its peers that all the tasks share under a lock.  *)
(*                                                                         *)
(* One action is what a task does between two points where another task   *)
(* can run: an await, or the release of the lock.  The module has the      *)
(* server's state, its actions and its half of the network; a module that  *)
(* EXTENDS it says what the clients do.  A connection is used once: a      *)
(* program that reconnects does so on another element of Homes or Remotes. *)
(*                                                                         *)
(* A definition F_Change is F with a plausible mistake in it.  No action   *)
(* uses it: the properties are checked to fail when F is replaced by it.   *)
(***************************************************************************)
EXTENDS HandshakePackets

CONSTANTS
    Homes,        \* connections that Hammeregg Desktop opens to the server
    Names,        \* home desktop names
    HomeName,     \* the name in the first packet of each connection
    NoDesktop,    \* a name that is not in the map
    NoPeer        \* a peer number that is not in a desktop's peers

Conns == Homes \cup Remotes

\* DesktopAndPeers.  The home stands for the sender desktop_tx of its channel,
\* a remote in peers for the sender of that remote's channel.
DesktopAndPeers == [home    : Homes,
                    counter : PeerIds,
                    peers   : [PeerIds -> Remotes \cup {NoPeer}]]

ASSUME ConnsAssumption ==
    /\ Homes \cap Remotes = {}
    /\ HomeName \in [Conns -> Names]
    /\ NoDesktop \notin DesktopAndPeers
    /\ NoPeer \notin Remotes \cup PeerIds

VARIABLES
    listener,     \* the accept loop of main
    pc,           \* how far the task of a connection is
    desktops,     \* the map Desktops
    peerId,       \* the local id of handle_remote_init
    channel,      \* what is buffered in the unbounded channel (tx, rx) of a task
    inbound,      \* packets on the way from the client to the server
    outbound,     \* packets on the way from the server to the client
    link          \* the socket: open, left by the client, dropped by the server

server == <<listener, pc, desktops, peerId, channel>>
network == <<inbound, outbound, link>>

\* absent: the client has not connected; handshake: TLS, WebSocket and first
\* packet; refusing, granting: sending the init response; registering: about to
\* insert into the map; relaying: in select; disconnecting: past it; closed: the
\* handler returned; panicked: it panicked.
Stages == {"absent", "handshake", "refusing", "granting", "registering",
           "relaying", "disconnecting", "closed", "panicked"}

RoosterTypeOK ==
    /\ listener \in {"listening", "exited"}
    /\ pc \in [Conns -> Stages]
    /\ desktops \in [Names -> DesktopAndPeers \cup {NoDesktop}]
    /\ peerId \in [Remotes -> PeerIds \cup {NoPeer}]
    /\ channel \in [Conns -> Seq(HandshakePacket)]
    /\ inbound \in [Conns -> Seq(HandshakePacket)]
    /\ outbound \in [Conns -> Seq(HandshakePacket)]
    /\ link \in [Conns -> {"open", "left", "dropped"}]

RoosterInit ==
    /\ listener = "listening"
    /\ pc = [c \in Conns |-> "absent"]
    /\ desktops = [n \in Names |-> NoDesktop]
    /\ peerId = [r \in Remotes |-> NoPeer]
    /\ channel = [c \in Conns |-> <<>>]
    /\ inbound = [c \in Conns |-> <<>>]
    /\ outbound = [c \in Conns |-> <<>>]
    /\ link = [c \in Conns |-> "open"]

-----------------------------------------------------------------------------
(***************************************************************************)
(* DesktopAndPeers: new, insert_peer and remove_peer.  The counter is a    *)
(* u32 that a release build wraps.                                         *)
(***************************************************************************)
New(h) == [home |-> h, counter |-> 0, peers |-> [id \in PeerIds |-> NoPeer]]

InsertPeerIn_KeyAfterIncrement(desktop, r) ==
    LET id == (desktop.counter + 1) % IdModulus
    IN  [desktop EXCEPT !.counter = id, !.peers[id] = r]

InsertPeerIn_Unbounded(desktop, r) ==
    [desktop EXCEPT !.counter = @ + 1, !.peers[desktop.counter] = r]

InsertPeerIn(desktop, r) ==
    [desktop EXCEPT !.counter = (@ + 1) % IdModulus,
                    !.peers[desktop.counter] = r]

RemovePeerFrom_FreesNumber(desktop, id) ==
    [desktop EXCEPT !.counter = IF @ > 0 THEN @ - 1 ELSE @,
                    !.peers[id] = NoPeer]

RemovePeerFrom(desktop, id) == [desktop EXCEPT !.peers[id] = NoPeer]

-----------------------------------------------------------------------------
(***************************************************************************)
(* What the handlers share.                                                *)
(***************************************************************************)
Registered(c) == desktops[HomeName[c]] # NoDesktop

\* The receiving end rx lives as long as the handler that made it.
ReceiverAlive_InSelectOnly(c) == pc[c] = "relaying"

ReceiverAlive(c) == pc[c] \in {"relaying", "disconnecting"}

\* The only sending end tx of a task is the one in the map.
SenderAlive(c) ==
    /\ Registered(c)
    /\ LET desktop == desktops[HomeName[c]]
       IN  IF c \in Homes THEN desktop.home = c
           ELSE peerId[c] # NoPeer /\ desktop.peers[peerId[c]] = c

Goto(c, stage) == pc' = [pc EXCEPT ![c] = stage]

\* A write to a socket that its client has left is lost, or fails later.
Write(c, packet) ==
    outbound' = IF link[c] = "open"
                THEN [outbound EXCEPT ![c] = Append(@, packet)]
                ELSE outbound

\* The handler of c ends, and its locals go: the channel and the socket.
End(c, stage) ==
    /\ Goto(c, stage)
    /\ channel' = [channel EXCEPT ![c] = <<>>]
    /\ inbound' = [inbound EXCEPT ![c] = <<>>]
    /\ link' = [link EXCEPT ![c] = IF @ = "open" THEN "dropped" ELSE @]

-----------------------------------------------------------------------------
(***************************************************************************)
(* main and handle_connection.                                             *)
(***************************************************************************)
Accept(c) ==
    /\ listener = "listening"
    /\ pc[c] = "absent"
    /\ Goto(c, "handshake")
    /\ UNCHANGED <<listener, desktops, peerId, channel, network>>

\* An error from accept ends the loop: main returns, and the runtime is dropped
\* with every task and the map.
AcceptFails ==
    /\ listener = "listening"
    /\ listener' = "exited"
    /\ pc' = [c \in Conns |-> IF pc[c] \in {"absent", "panicked"}
                              THEN pc[c] ELSE "closed"]
    /\ desktops' = [n \in Names |-> NoDesktop]
    /\ channel' = [c \in Conns |-> <<>>]
    /\ inbound' = [c \in Conns |-> <<>>]
    /\ link' = [c \in Conns |-> IF link[c] = "open" /\ pc[c] # "absent"
                                THEN "dropped" ELSE link[c]]
    /\ UNCHANGED <<peerId, outbound>>

\* TLS or WebSocket handshake error, or no valid HandshakeInitPacket.
HandshakeFails(c) ==
    /\ pc[c] = "handshake"
    /\ End(c, "closed")
    /\ UNCHANGED <<listener, desktops, peerId, outbound>>

\* The lock is held for contains_key alone.
HomeInit(h) ==
    /\ pc[h] = "handshake"
    /\ Goto(h, IF Registered(h) THEN "refusing" ELSE "granting")
    /\ UNCHANGED <<listener, desktops, peerId, channel, network>>

RemoteInit(r) ==
    /\ pc[r] = "handshake"
    /\ Goto(r, IF Registered(r) THEN "granting" ELSE "refusing")
    /\ UNCHANGED <<listener, desktops, peerId, channel, network>>

SendRefusal(c) ==
    /\ pc[c] = "refusing"
    /\ Write(c, Refused)
    /\ End(c, "closed")
    /\ UNCHANGED <<listener, desktops, peerId>>

SendGrant(c) ==
    /\ pc[c] = "granting"
    /\ Write(c, Granted)
    /\ Goto(c, "registering")
    /\ UNCHANGED <<listener, desktops, peerId, channel, inbound, link>>

SendResponseFails(c) ==
    /\ pc[c] \in {"refusing", "granting"}
    /\ link[c] # "open"
    /\ End(c, "closed")
    /\ UNCHANGED <<listener, desktops, peerId, outbound>>

\* insert replaces an entry that another handler made since contains_key, and
\* drops that entry's senders.
InsertDesktop(h) ==
    /\ pc[h] = "registering"
    /\ desktops' = [desktops EXCEPT ![HomeName[h]] = New(h)]
    /\ Goto(h, "relaying")
    /\ UNCHANGED <<listener, peerId, channel, network>>

InsertPeer(r) ==
    /\ pc[r] = "registering"
    /\ Registered(r)
    /\ desktops' = [desktops EXCEPT ![HomeName[r]] = InsertPeerIn(@, r)]
    /\ peerId' = [peerId EXCEPT ![r] = desktops[HomeName[r]].counter]
    /\ Goto(r, "relaying")
    /\ UNCHANGED <<listener, channel, network>>

DesktopDisappeared(r) ==
    /\ pc[r] = "registering"
    /\ ~Registered(r)
    /\ End(r, "closed")
    /\ UNCHANGED <<listener, desktops, peerId, outbound>>

-----------------------------------------------------------------------------
(***************************************************************************)
(* The select of both handlers.  Its left future forwards the channel to   *)
(* the client, its right future reads the client.  The end of the left     *)
(* future, for whatever reason, and the end of the client's stream lead to *)
(* the clean-up below select; an error of the right future does not.       *)
(***************************************************************************)
Forward_Repeats(c) ==
    /\ pc[c] = "relaying"
    /\ channel[c] # <<>>
    /\ Len(outbound[c]) < 2
    /\ Write(c, Head(channel[c]))
    /\ UNCHANGED <<server, inbound, link>>

Forward(c) ==
    /\ pc[c] = "relaying"
    /\ channel[c] # <<>>
    /\ Write(c, Head(channel[c]))
    /\ channel' = [channel EXCEPT ![c] = Tail(@)]
    /\ UNCHANGED <<listener, pc, desktops, peerId, inbound, link>>

ForwardFails(c) ==
    /\ pc[c] = "relaying"
    /\ channel[c] # <<>>
    /\ link[c] # "open"
    /\ Goto(c, "disconnecting")
    /\ UNCHANGED <<listener, desktops, peerId, channel, network>>

ChannelEnds_NameFree(c) ==
    /\ pc[c] = "relaying"
    /\ channel[c] = <<>>
    /\ ~Registered(c)
    /\ Goto(c, "disconnecting")
    /\ UNCHANGED <<listener, desktops, peerId, channel, network>>

ChannelEnds(c) ==
    /\ pc[c] = "relaying"
    /\ channel[c] = <<>>
    /\ ~SenderAlive(c)
    /\ Goto(c, "disconnecting")
    /\ UNCHANGED <<listener, desktops, peerId, channel, network>>

ReadEnds(c) ==
    /\ pc[c] = "relaying"
    /\ link[c] # "open"
    /\ inbound[c] = <<>>
    /\ Goto(c, "disconnecting")
    /\ UNCHANGED <<listener, desktops, peerId, channel, network>>

\* A reset connection, or the Close frame of a client that leaves in good order:
\* neither is a binary packet, and `?` returns past the clean-up.
ReadFails(c) ==
    /\ pc[c] = "relaying"
    /\ link[c] # "open"
    /\ End(c, "closed")
    /\ UNCHANGED <<listener, desktops, peerId, outbound>>

-----------------------------------------------------------------------------
(***************************************************************************)
(* Packets from a desktop to its peers.                                    *)
(***************************************************************************)
AnswerArrives(h) == pc[h] = "relaying" /\ inbound[h] # <<>>

\* The peer that the first answer of h names, in whatever entry now has the name.
AddressedPeer(h) == desktops[HomeName[h]].peers[Head(inbound[h]).peer]

RelayAnswer(h) ==
    /\ AnswerArrives(h)
    /\ Registered(h)
    /\ AddressedPeer(h) # NoPeer
    /\ ReceiverAlive(AddressedPeer(h))
    /\ channel' = [channel EXCEPT ![AddressedPeer(h)] =
                       Append(@, Head(inbound[h]))]
    /\ inbound' = [inbound EXCEPT ![h] = Tail(@)]
    /\ UNCHANGED <<listener, pc, desktops, peerId, outbound, link>>

\* No such peer, or its receiver is gone: `?` returns past the clean-up.
RelayAnswerFails(h) ==
    /\ AnswerArrives(h)
    /\ Registered(h)
    /\ AddressedPeer(h) # NoPeer => ~ReceiverAlive(AddressedPeer(h))
    /\ End(h, "closed")
    /\ UNCHANGED <<listener, desktops, peerId, outbound>>

\* get_mut(&home_name).unwrap() with no entry under the name.
RelayAnswerPanics(h) ==
    /\ AnswerArrives(h)
    /\ ~Registered(h)
    /\ End(h, "panicked")
    /\ UNCHANGED <<listener, desktops, peerId, outbound>>

HomeDisconnects(h) ==
    /\ pc[h] = "disconnecting"
    /\ desktops' = [desktops EXCEPT ![HomeName[h]] = NoDesktop]
    /\ End(h, "closed")
    /\ UNCHANGED <<listener, peerId, outbound>>

-----------------------------------------------------------------------------
(***************************************************************************)
(* Packets from a remote to its desktop.                                   *)
(***************************************************************************)
OfferArrives(r) == pc[r] = "relaying" /\ inbound[r] # <<>>

AddressedHome_AnyName(r) ==
    desktops[CHOOSE n \in Names : desktops[n] # NoDesktop].home

AddressedHome(r) == desktops[HomeName[r]].home

FilledIn_AsReceived(packet, r) == packet

FilledIn(packet, r) == [packet EXCEPT !.peer = peerId[r]]

RelayOffer_Lost(r) ==
    /\ OfferArrives(r)
    /\ Registered(r)
    /\ inbound' = [inbound EXCEPT ![r] = Tail(@)]
    /\ UNCHANGED <<server, outbound, link>>

\* The peer number in the packet is replaced by the task's own id.
RelayOffer(r) ==
    /\ OfferArrives(r)
    /\ Registered(r)
    /\ ReceiverAlive(AddressedHome(r))
    /\ channel' = [channel EXCEPT ![AddressedHome(r)] =
                       Append(@, FilledIn(Head(inbound[r]), r))]
    /\ inbound' = [inbound EXCEPT ![r] = Tail(@)]
    /\ UNCHANGED <<listener, pc, desktops, peerId, outbound, link>>

RelayOfferFails(r) ==
    /\ OfferArrives(r)
    /\ Registered(r) => ~ReceiverAlive(AddressedHome(r))
    /\ End(r, "closed")
    /\ UNCHANGED <<listener, desktops, peerId, outbound>>

RemoteDisconnects_DropsEntry(r) ==
    /\ pc[r] = "disconnecting"
    /\ desktops' = [desktops EXCEPT ![HomeName[r]] = NoDesktop]
    /\ End(r, "closed")
    /\ UNCHANGED <<listener, peerId, outbound>>

\* remove_peer(&id) in whatever entry now has the name.
RemoteDisconnects(r) ==
    /\ pc[r] = "disconnecting"
    /\ desktops' = IF Registered(r)
                   THEN [desktops EXCEPT
                            ![HomeName[r]] = RemovePeerFrom(@, peerId[r])]
                   ELSE desktops
    /\ End(r, "closed")
    /\ UNCHANGED <<listener, peerId, outbound>>

-----------------------------------------------------------------------------
ConnectStep(c) == Accept(c) \/ HandshakeFails(c)

RespondStep(c) == SendRefusal(c) \/ SendGrant(c) \/ SendResponseFails(c)

ForwardStep(c) == Forward(c) \/ ForwardFails(c) \/ ChannelEnds(c)

ReadEndStep(c) == ReadEnds(c) \/ ReadFails(c)

HomeStep(h) == \/ HomeInit(h) \/ InsertDesktop(h) \/ HomeDisconnects(h)
               \/ RelayAnswer(h) \/ RelayAnswerFails(h) \/ RelayAnswerPanics(h)

RemoteStep(r) == \/ RemoteInit(r) \/ InsertPeer(r) \/ DesktopDisappeared(r)
                 \/ RelayOffer(r) \/ RelayOfferFails(r) \/ RemoteDisconnects(r)

RoosterNext ==
    \/ AcceptFails
    \/ \E c \in Conns : \/ ConnectStep(c) \/ RespondStep(c)
                        \/ ForwardStep(c) \/ ReadEndStep(c)
    \/ \E h \in Homes : HomeStep(h)
    \/ \E r \in Remotes : RemoteStep(r)

\* Tokio polls every task that can run, and a write ends or fails; nothing says
\* that a client connects or that accept fails.
RoosterFairness ==
    /\ \A c \in Conns : /\ WF_<<server, network>>(RespondStep(c))
                        /\ WF_<<server, network>>(ForwardStep(c))
                        /\ WF_<<server, network>>(ReadEndStep(c))
    /\ \A h \in Homes : WF_<<server, network>>(HomeStep(h))
    /\ \A r \in Remotes : WF_<<server, network>>(RemoteStep(r))
=============================================================================
