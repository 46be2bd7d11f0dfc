-------------------------- MODULE SignallingProofs --------------------------
(***************************************************************************)
(* Theorems about Signalling for every choice of connections, names and    *)
(* width of the peer number.                                               *)
(***************************************************************************)
EXTENDS Signalling, SequenceTheorems, TLAPS

-----------------------------------------------------------------------------
(***************************************************************************)
(* The map of desktops, apart from the packets.                            *)
(***************************************************************************)
TableTypeOK ==
    /\ pc \in [Conns -> Stages]
    /\ desktops \in [Names -> DesktopAndPeers \cup {NoDesktop}]
    /\ peerId \in [Remotes -> PeerIds \cup {NoPeer}]

\* A remote has a number from its insertion into the map on, and not before.
RemotesNumbered ==
    \A r \in Remotes :
        /\ pc[r] \in {"relaying", "disconnecting"} => peerId[r] \in PeerIds
        /\ pc[r] \in {"absent", "handshake", "refusing", "granting", "registering"}
              => peerId[r] = NoPeer

TableInv == TableTypeOK /\ RemotesNumbered /\ PeerTableSound

LEMMA PeerIdsLemma ==
    /\ PeerIds \subseteq Nat
    /\ 0 \in PeerIds
    /\ \A id \in PeerIds : (id + 1) % IdModulus \in PeerIds
BY IdModulusAssumption DEF PeerIds

LEMMA TableInit == Init => TableInv
BY ConnsAssumption
DEF Init, RoosterInit, TableInv, TableTypeOK, RemotesNumbered, PeerTableSound,
    Conns, Stages

\* Steps that leave the map and the numbers alone and move a task on.
LEMMA TableUnchanged ==
    ASSUME TableInv, UNCHANGED <<desktops, peerId>>,
           pc' \in [Conns -> Stages],
           \A r \in Remotes :
              \/ pc'[r] = pc[r]
              \/ pc'[r] \in {"closed", "panicked"}
              \/ /\ pc[r] \in {"absent", "handshake", "granting"}
                 /\ pc'[r] \in {"handshake", "refusing", "granting", "registering"}
              \/ pc[r] = "relaying" /\ pc'[r] = "disconnecting"
    PROVE  TableInv'
BY DEF TableInv, TableTypeOK, RemotesNumbered, PeerTableSound, Conns, Stages

LEMMA TableStep == TableInv /\ [Next]_vars => TableInv'
<1> SUFFICES ASSUME TableInv, [Next]_vars
             PROVE  TableInv'
    OBVIOUS
<1> USE DEF Goto
<1>t. /\ pc \in [Conns -> Stages]
      /\ desktops \in [Names -> DesktopAndPeers \cup {NoDesktop}]
      /\ peerId \in [Remotes -> PeerIds \cup {NoPeer}]
      /\ Remotes \subseteq Conns /\ Homes \subseteq Conns
    BY DEF TableInv, TableTypeOK, Conns
<1>1. ASSUME NEW c \in Conns, ConnectStep(c) \/ RespondStep(c)
                              \/ ForwardStep(c) \/ ReadEndStep(c)
      PROVE  TableInv'
    <2>1. UNCHANGED <<desktops, peerId>>
        BY <1>1 DEF ConnectStep, Accept, HandshakeFails, RespondStep, SendRefusal,
            SendGrant, SendResponseFails, ForwardStep, Forward, ForwardFails,
            ChannelEnds, ReadEndStep, ReadEnds, ReadFails, server, network
    <2>2. \/ pc' = pc
          \/ pc' = [pc EXCEPT ![c] = "closed"]
          \/ /\ pc[c] \in {"absent", "handshake", "granting"}
             /\ \E stage \in {"handshake", "registering"} :
                   pc' = [pc EXCEPT ![c] = stage]
          \/ pc[c] = "relaying" /\ pc' = [pc EXCEPT ![c] = "disconnecting"]
        BY <1>1 DEF ConnectStep, Accept, HandshakeFails, RespondStep, SendRefusal,
            SendGrant, SendResponseFails, ForwardStep, Forward, ForwardFails,
            ChannelEnds, ReadEndStep, ReadEnds, ReadFails, server, network, End
    <2> QED
        BY <1>t, <2>1, <2>2, TableUnchanged DEF Stages
<1>2. ASSUME AcceptFails
      PROVE  TableInv'
    BY <1>t, <1>2, ConnsAssumption
    DEF AcceptFails, TableInv, TableTypeOK, RemotesNumbered, PeerTableSound, Stages
<1>3. ASSUME NEW h \in Homes, HomeStep(h)
      PROVE  TableInv'
    <2>1. h \in Conns /\ h \notin Remotes /\ HomeName[h] \in Names
        BY <1>t, ConnsAssumption DEF Conns
    <2>2. CASE HomeInit(h) \/ RelayAnswer(h) \/ RelayAnswerFails(h)
                  \/ RelayAnswerPanics(h)
        <3>1. UNCHANGED <<desktops, peerId>>
            BY <2>2 DEF HomeInit, RelayAnswer, RelayAnswerFails, RelayAnswerPanics
        <3>2. \E stage \in Stages : pc' = [pc EXCEPT ![h] = stage] \/ pc' = pc
            BY <2>2 DEF HomeInit, RelayAnswer, RelayAnswerFails,
                RelayAnswerPanics, End, Stages
        <3> QED
            BY <1>t, <2>1, <3>1, <3>2, TableUnchanged
    <2>3. CASE InsertDesktop(h)
        <3>1. New(h) \in DesktopAndPeers
            BY <2>1, PeerIdsLemma DEF New, DesktopAndPeers
        <3> QED
            BY <1>t, <2>1, <2>3, <3>1, ConnsAssumption
            DEF InsertDesktop, TableInv, TableTypeOK, RemotesNumbered,
                PeerTableSound, New, Stages
    <2>4. CASE HomeDisconnects(h)
        BY <1>t, <2>1, <2>4, ConnsAssumption
        DEF HomeDisconnects, End, TableInv, TableTypeOK, RemotesNumbered,
            PeerTableSound, Stages
    <2> QED
        BY <1>3, <2>2, <2>3, <2>4 DEF HomeStep
<1>4. ASSUME NEW r \in Remotes, RemoteStep(r)
      PROVE  TableInv'
    <2>1. r \in Conns /\ HomeName[r] \in Names
        BY <1>t, ConnsAssumption
    <2>2. CASE RemoteInit(r) \/ DesktopDisappeared(r) \/ RelayOffer(r)
                  \/ RelayOfferFails(r)
        <3>1. UNCHANGED <<desktops, peerId>>
            BY <2>2 DEF RemoteInit, DesktopDisappeared, RelayOffer, RelayOfferFails
        <3>2. \/ pc' = pc
              \/ pc' = [pc EXCEPT ![r] = "closed"]
              \/ /\ pc[r] = "handshake"
                 /\ \E stage \in {"refusing", "granting"} :
                       pc' = [pc EXCEPT ![r] = stage]
            BY <2>2 DEF RemoteInit, DesktopDisappeared, RelayOffer,
                RelayOfferFails, End
        <3> QED
            BY <1>t, <2>1, <3>1, <3>2, TableUnchanged DEF Stages
    <2>3. CASE InsertPeer(r)
        <3> DEFINE n == HomeName[r]
                   id == desktops[n].counter
        <3>1. /\ desktops[n] \in DesktopAndPeers
              /\ id \in PeerIds
              /\ peerId[r] = NoPeer
            BY <1>t, <2>1, <2>3
            DEF InsertPeer, Registered, DesktopAndPeers, TableInv, RemotesNumbered
        <3>2. /\ InsertPeerIn(desktops[n], r) \in DesktopAndPeers
              /\ InsertPeerIn(desktops[n], r).home = desktops[n].home
              /\ InsertPeerIn(desktops[n], r).peers
                    = [desktops[n].peers EXCEPT ![id] = r]
            BY <3>1, PeerIdsLemma DEF InsertPeerIn, DesktopAndPeers
        <3>3. /\ desktops' = [desktops EXCEPT ![n] = InsertPeerIn(desktops[n], r)]
              /\ peerId' = [peerId EXCEPT ![r] = id]
              /\ pc' = [pc EXCEPT ![r] = "relaying"]
            BY <1>t, <2>1, <2>3 DEF InsertPeer
        <3>4. TableTypeOK'
            BY <1>t, <2>1, <3>1, <3>2, <3>3 DEF TableTypeOK, Stages
        <3>5. RemotesNumbered'
            BY <1>t, <2>1, <3>1, <3>3 DEF TableInv, RemotesNumbered
        <3>6. PeerTableSound'
            <4> SUFFICES ASSUME NEW m \in Names, desktops'[m] # NoDesktop
                         PROVE  /\ HomeName[desktops'[m].home] = m
                                /\ \A i \in PeerIds : desktops'[m].peers[i] # NoPeer =>
                                      /\ HomeName[desktops'[m].peers[i]] = m
                                      /\ peerId'[desktops'[m].peers[i]] = i
                BY DEF PeerTableSound
            <4>1. \A i \in PeerIds : desktops[m] # NoDesktop =>
                     /\ HomeName[desktops[m].home] = m
                     /\ desktops[m].peers[i] # NoPeer =>
                          /\ desktops[m].peers[i] \in Remotes \ {r}
                          /\ HomeName[desktops[m].peers[i]] = m
                          /\ peerId[desktops[m].peers[i]] = i
                BY <1>t, <3>1, ConnsAssumption DEF TableInv, PeerTableSound, DesktopAndPeers
            <4>2. CASE m = n
                <5>1. desktops'[m].peers = [desktops[n].peers EXCEPT ![id] = r]
                    BY <4>2, <1>t, <3>2, <3>3
                <5>2. desktops'[m].home = desktops[n].home
                    BY <4>2, <1>t, <3>2, <3>3
                <5>3. desktops[m] # NoDesktop
                    BY <4>2, <3>1, ConnsAssumption
                <5>4. desktops[n].peers \in [PeerIds -> Remotes \cup {NoPeer}]
                    BY <3>1 DEF DesktopAndPeers
                <5> QED
                    BY <1>t, <3>1, <3>3, <4>1, <4>2, <5>1, <5>2, <5>3, <5>4, PeerIdsLemma
            <4>3. CASE m # n
                BY <1>t, <3>1, <3>3, <4>1, <4>3, PeerIdsLemma
            <4> QED
                BY <4>2, <4>3
        <3> QED
            BY <3>4, <3>5, <3>6 DEF TableInv
    <2>4. CASE RemoteDisconnects(r)
        <3> DEFINE n == HomeName[r]
        <3>1. peerId[r] \in PeerIds /\ peerId' = peerId
            BY <2>4 DEF RemoteDisconnects, TableInv, RemotesNumbered
        <3>2. pc' = [pc EXCEPT ![r] = "closed"]
            BY <2>4 DEF RemoteDisconnects, End
        <3>3. CASE ~Registered(r)
            BY <1>t, <2>1, <2>4, <3>1, <3>2, <3>3, TableUnchanged
            DEF RemoteDisconnects, Stages
        <3>4. CASE Registered(r)
            <4>1. /\ desktops[n] \in DesktopAndPeers
                  /\ desktops' = [desktops EXCEPT
                                     ![n] = RemovePeerFrom(desktops[n], peerId[r])]
                BY <1>t, <2>1, <2>4, <3>4 DEF RemoteDisconnects, Registered
            <4>2. /\ RemovePeerFrom(desktops[n], peerId[r]) \in DesktopAndPeers
                  /\ RemovePeerFrom(desktops[n], peerId[r]).home = desktops[n].home
                  /\ \A i \in PeerIds :
                        RemovePeerFrom(desktops[n], peerId[r]).peers[i]
                            \in {desktops[n].peers[i], NoPeer}
                BY <3>1, <4>1 DEF RemovePeerFrom, DesktopAndPeers
            <4>3. TableTypeOK' /\ RemotesNumbered'
                BY <1>t, <2>1, <3>1, <3>2, <4>1, <4>2
                DEF TableInv, TableTypeOK, RemotesNumbered, Stages
            <4>4. PeerTableSound'
                BY <1>t, <2>1, <3>1, <3>4, <4>1, <4>2
                DEF TableInv, PeerTableSound, Registered
            <4> QED
                BY <4>3, <4>4 DEF TableInv
        <3> QED
            BY <3>3, <3>4
    <2> QED
        BY <1>4, <2>2, <2>3, <2>4 DEF RemoteStep
<1>5. ASSUME UNCHANGED server
      PROVE  TableInv'
    BY <1>5, <1>t, TableUnchanged DEF server
<1> QED
    BY <1>1, <1>2, <1>3, <1>4, <1>5
    DEF Next, RoosterNext, EggStep, EggSendsOffer, EggTakesAnswer, EggFails,
        DesktopStep, DesktopTakesResponse, DesktopAnswers, ClientLeaves, vars

\* The map is sound, whoever inserts, replaces and removes entries: each one
\* belongs to a desktop of its name, and each peer in it asked for that name and
\* holds the number it is filed under.
THEOREM PeerTableIsSound == Spec => []PeerTableSound
<1>1. TableInv => PeerTableSound
    BY DEF TableInv
<1> QED
    BY <1>1, TableInit, TableStep, PTL DEF Spec

-----------------------------------------------------------------------------
(***************************************************************************)
(* The packets in transit: which kinds a connection carries in which       *)
(* direction, and whose they may be.                                       *)
(***************************************************************************)
FromClient(c) == IF c \in Homes
                 THEN {p \in HomeAnswer : SameName(c, p.payload)}
                 ELSE {p \in RemoteOffer : p.payload = c}

ToClient(c) == IF c \in Homes
               THEN {p \in RemoteOffer : SameName(c, p.payload)}
               ELSE {p \in HomeAnswer : SameName(c, p.payload)}

PacketInv ==
    /\ listener \in {"listening", "exited"}
    /\ link \in [Conns -> {"open", "left", "dropped"}]
    /\ egg \in [Remotes -> EggStates]
    /\ \A c \in Conns : /\ inbound[c] \in Seq(FromClient(c))
                        /\ channel[c] \in Seq(ToClient(c))
                        /\ outbound[c] \in Seq(ToClient(c) \cup InitResponse)
    /\ inbound = [c \in Conns |-> inbound[c]]
    /\ channel = [c \in Conns |-> channel[c]]
    /\ outbound = [c \in Conns |-> outbound[c]]

LEMMA PacketKinds ==
    ASSUME NEW p
    PROVE  /\ p \in RemoteOffer => p \notin HomeAnswer /\ p \notin InitResponse
           /\ p \in HomeAnswer => p \notin RemoteOffer /\ p \notin InitResponse
BY DEF RemoteOffer, HomeAnswer, InitResponse

LEMMA PacketConstructors ==
    /\ Granted \in InitResponse /\ Refused \in InitResponse
    /\ \A id \in PeerIds, r \in Remotes :
          /\ Offer(id, r) \in RemoteOffer /\ Offer(id, r).payload = r
          /\ Offer(id, r).peer = id
          /\ Answer(id, r) \in HomeAnswer /\ Answer(id, r).payload = r
          /\ Answer(id, r).peer = id
BY DEF Granted, Refused, InitResponse, Offer, RemoteOffer, Answer, HomeAnswer

\* What Append, Head and Tail do to a queue of packets of one set.
LEMMA QueueLemma ==
    ASSUME NEW S, NEW q \in Seq(S)
    PROVE  /\ <<>> \in Seq(S)
           /\ \A e \in S : Append(q, e) \in Seq(S)
           /\ q # <<>> => Head(q) \in S /\ Tail(q) \in Seq(S)
OBVIOUS

LEMMA PacketInit == Init => PacketInv
BY DEF Init, RoosterInit, PacketInv, EggStates

\* At most one queue of each kind changes, to another of its kind.
InboundStep ==
    \/ inbound' = inbound
    \/ \E c \in Conns : \E q \in Seq(FromClient(c)) :
          inbound' = [inbound EXCEPT ![c] = q]

ChannelStep ==
    \/ channel' = channel
    \/ \E c \in Conns : \E q \in Seq(ToClient(c)) :
          channel' = [channel EXCEPT ![c] = q]

OutboundStep ==
    \/ outbound' = outbound
    \/ \E c \in Conns : \E q \in Seq(ToClient(c) \cup InitResponse) :
          outbound' = [outbound EXCEPT ![c] = q]

LinkStep == link' \in [Conns -> {"open", "left", "dropped"}]

LEMMA PacketsPreserved ==
    ASSUME PacketInv, InboundStep, ChannelStep, OutboundStep, LinkStep,
           listener' = listener, egg' \in [Remotes -> EggStates]
    PROVE  PacketInv'
<1>1. /\ inbound' = [c \in Conns |-> inbound'[c]]
      /\ \A c \in Conns : inbound'[c] \in Seq(FromClient(c))
    BY DEF PacketInv, InboundStep
<1>2. /\ channel' = [c \in Conns |-> channel'[c]]
      /\ \A c \in Conns : channel'[c] \in Seq(ToClient(c))
    BY DEF PacketInv, ChannelStep
<1>3. /\ outbound' = [c \in Conns |-> outbound'[c]]
      /\ \A c \in Conns : outbound'[c] \in Seq(ToClient(c) \cup InitResponse)
    BY DEF PacketInv, OutboundStep
<1> QED
    BY <1>1, <1>2, <1>3 DEF PacketInv, FromClient, ToClient, SameName, LinkStep

LEMMA WriteLemma ==
    ASSUME PacketInv, NEW c \in Conns, NEW p \in ToClient(c) \cup InitResponse,
           Write(c, p)
    PROVE  OutboundStep
<1> DEFINE q == Append(outbound[c], p)
<1>1. q \in Seq(ToClient(c) \cup InitResponse)
    BY QueueLemma DEF PacketInv
<1>2. outbound' = outbound \/ outbound' = [outbound EXCEPT ![c] = q]
    BY DEF Write
<1> QED
    BY <1>1, <1>2 DEF OutboundStep

LEMMA EndLemma ==
    ASSUME PacketInv, NEW c \in Conns, NEW stage, End(c, stage)
    PROVE  InboundStep /\ ChannelStep /\ LinkStep
<1>1. <<>> \in Seq(FromClient(c)) /\ <<>> \in Seq(ToClient(c))
    BY QueueLemma
<1>2. /\ inbound' = [inbound EXCEPT ![c] = <<>>]
      /\ channel' = [channel EXCEPT ![c] = <<>>]
    BY DEF End
<1>3. LinkStep
    BY DEF End, LinkStep, PacketInv
<1> QED
    BY <1>1, <1>2, <1>3 DEF InboundStep, ChannelStep

\* A queue loses its first packet.
LEMMA TakeLemma ==
    ASSUME PacketInv, NEW c \in Conns
    PROVE  /\ inbound[c] # <<>> =>
                /\ Head(inbound[c]) \in FromClient(c)
                /\ inbound' = [inbound EXCEPT ![c] = Tail(@)] => InboundStep
           /\ channel[c] # <<>> =>
                /\ Head(channel[c]) \in ToClient(c)
                /\ channel' = [channel EXCEPT ![c] = Tail(@)] => ChannelStep
           /\ outbound[c] # <<>> =>
                /\ Head(outbound[c]) \in ToClient(c) \cup InitResponse
                /\ outbound' = [outbound EXCEPT ![c] = Tail(@)] => OutboundStep
<1>1. /\ inbound[c] \in Seq(FromClient(c))
      /\ channel[c] \in Seq(ToClient(c))
      /\ outbound[c] \in Seq(ToClient(c) \cup InitResponse)
    BY DEF PacketInv
<1>2. inbound[c] # <<>> => /\ Head(inbound[c]) \in FromClient(c)
                           /\ Tail(inbound[c]) \in Seq(FromClient(c))
    BY <1>1, QueueLemma
<1>3. channel[c] # <<>> => /\ Head(channel[c]) \in ToClient(c)
                           /\ Tail(channel[c]) \in Seq(ToClient(c))
    BY <1>1, QueueLemma
<1>4. outbound[c] # <<>> =>
         /\ Head(outbound[c]) \in ToClient(c) \cup InitResponse
         /\ Tail(outbound[c]) \in Seq(ToClient(c) \cup InitResponse)
    BY <1>1, QueueLemma
<1> QED
    BY <1>2, <1>3, <1>4 DEF InboundStep, ChannelStep, OutboundStep

\* A task is sent a packet on its channel.
LEMMA ChannelSendLemma ==
    ASSUME PacketInv, NEW c \in Conns, NEW p \in ToClient(c),
           channel' = [channel EXCEPT ![c] = Append(@, p)]
    PROVE  ChannelStep
<1>1. Append(channel[c], p) \in Seq(ToClient(c))
    BY QueueLemma DEF PacketInv
<1> QED
    BY <1>1 DEF ChannelStep

LEMMA RelayStep ==
    ASSUME TableInv, PacketInv, UNCHANGED <<listener, egg>>,
           \/ \E h \in Homes : HomeStep(h)
           \/ \E r \in Remotes : RemoteStep(r)
    PROVE  PacketInv'
<1>t. /\ Homes \subseteq Conns /\ Remotes \subseteq Conns
      /\ egg' \in [Remotes -> EggStates] /\ listener' = listener
      /\ UNCHANGED inbound => InboundStep
      /\ UNCHANGED channel => ChannelStep
      /\ UNCHANGED outbound => OutboundStep
      /\ UNCHANGED link => LinkStep
    BY DEF Conns, PacketInv, InboundStep, ChannelStep, OutboundStep, LinkStep
<1>1. ASSUME NEW h \in Homes, HomeStep(h)
      PROVE  PacketInv'
    <2>1. CASE RelayAnswer(h)
        <3> DEFINE p == Head(inbound[h])
                   r == AddressedPeer(h)
        <3>1. p \in HomeAnswer /\ SameName(h, p.payload)
            BY <1>t, <2>1, TakeLemma DEF RelayAnswer, AnswerArrives, FromClient
        <3>2. /\ desktops[HomeName[h]] \in DesktopAndPeers
              /\ p.peer \in PeerIds
              /\ HomeName[h] \in Names
            BY <1>t, <2>1, <3>1, ConnsAssumption
            DEF RelayAnswer, Registered, TableInv, TableTypeOK, HomeAnswer
        <3>3. r \in Remotes /\ HomeName[r] = HomeName[h]
            <4>1. /\ desktops[HomeName[h]].peers \in [PeerIds -> Remotes \cup {NoPeer}]
                  /\ r = desktops[HomeName[h]].peers[p.peer]
                  /\ r # NoPeer /\ desktops[HomeName[h]] # NoDesktop
                BY <2>1, <3>2
                DEF RelayAnswer, AddressedPeer, Registered, DesktopAndPeers
            <4>2. \A id \in PeerIds :
                     desktops[HomeName[h]].peers[id] # NoPeer =>
                         HomeName[desktops[HomeName[h]].peers[id]] = HomeName[h]
                BY <3>2, <4>1 DEF TableInv, PeerTableSound
            <4> HIDE DEF p, r
            <4> QED
                BY <3>2, <4>1, <4>2
        <3>4. p \in ToClient(r)
            BY <3>1, <3>3, ConnsAssumption DEF ToClient, SameName
        <3>5. ChannelStep
            BY <1>t, <2>1, <3>3, <3>4, ChannelSendLemma DEF RelayAnswer
        <3>6. InboundStep
            BY <1>t, <2>1, TakeLemma DEF RelayAnswer, AnswerArrives
        <3> QED
            BY <1>t, <2>1, <3>5, <3>6, PacketsPreserved DEF RelayAnswer
    <2>2. CASE RelayAnswerFails(h) \/ RelayAnswerPanics(h) \/ HomeDisconnects(h)
        <3>1. \E stage \in Stages : End(h, stage)
            BY <2>2 DEF RelayAnswerFails, RelayAnswerPanics, HomeDisconnects, Stages
        <3>2. InboundStep /\ ChannelStep /\ LinkStep
            BY <1>t, <3>1, EndLemma
        <3> QED
            BY <1>t, <2>2, <3>2, PacketsPreserved
            DEF RelayAnswerFails, RelayAnswerPanics, HomeDisconnects
    <2>3. CASE HomeInit(h) \/ InsertDesktop(h)
        BY <1>t, <2>3, PacketsPreserved DEF HomeInit, InsertDesktop, network
    <2> QED
        BY <1>1, <2>1, <2>2, <2>3 DEF HomeStep
<1>2. ASSUME NEW r \in Remotes, RemoteStep(r)
      PROVE  PacketInv'
    <2>1. CASE RelayOffer(r)
        <3> DEFINE p == Head(inbound[r])
                   h == AddressedHome(r)
        <3>1. p \in RemoteOffer /\ p.payload = r
            BY <1>t, <2>1, TakeLemma, ConnsAssumption
            DEF RelayOffer, OfferArrives, FromClient
        <3>2. /\ desktops[HomeName[r]] \in DesktopAndPeers
              /\ HomeName[r] \in Names
              /\ peerId[r] \in PeerIds
            BY <1>t, <2>1, ConnsAssumption
            DEF RelayOffer, OfferArrives, Registered, TableInv, TableTypeOK,
                RemotesNumbered
        <3>3. h \in Homes /\ HomeName[h] = HomeName[r]
            BY <2>1, <3>2
            DEF RelayOffer, AddressedHome, Registered, TableInv,
                PeerTableSound, DesktopAndPeers
        <3>4. FilledIn(p, r) \in RemoteOffer /\ FilledIn(p, r).payload = r
            BY <3>1, <3>2 DEF FilledIn, RemoteOffer
        <3>5. FilledIn(p, r) \in ToClient(h)
            BY <3>3, <3>4 DEF ToClient, SameName
        <3>6. ChannelStep
            BY <1>t, <2>1, <3>3, <3>5, ChannelSendLemma DEF RelayOffer
        <3>7. InboundStep
            BY <1>t, <2>1, TakeLemma DEF RelayOffer, OfferArrives
        <3> QED
            BY <1>t, <2>1, <3>6, <3>7, PacketsPreserved DEF RelayOffer
    <2>2. CASE RelayOfferFails(r) \/ DesktopDisappeared(r) \/ RemoteDisconnects(r)
        <3>1. End(r, "closed")
            BY <2>2 DEF RelayOfferFails, DesktopDisappeared, RemoteDisconnects
        <3>2. InboundStep /\ ChannelStep /\ LinkStep
            BY <1>t, <3>1, EndLemma
        <3> QED
            BY <1>t, <2>2, <3>2, PacketsPreserved
            DEF RelayOfferFails, DesktopDisappeared, RemoteDisconnects
    <2>3. CASE RemoteInit(r) \/ InsertPeer(r)
        BY <1>t, <2>3, PacketsPreserved DEF RemoteInit, InsertPeer, network
    <2> QED
        BY <1>2, <2>1, <2>2, <2>3 DEF RemoteStep
<1> QED
    BY <1>1, <1>2

LEMMA PacketStep == TableInv /\ PacketInv /\ [Next]_vars => PacketInv'
<1> SUFFICES ASSUME TableInv, PacketInv, [Next]_vars
             PROVE  PacketInv'
    OBVIOUS
<1>t. /\ Homes \subseteq Conns /\ Remotes \subseteq Conns
      /\ egg \in [Remotes -> EggStates]
      /\ UNCHANGED inbound => InboundStep
      /\ UNCHANGED channel => ChannelStep
      /\ UNCHANGED outbound => OutboundStep
      /\ UNCHANGED link => LinkStep
    BY DEF Conns, PacketInv, InboundStep, ChannelStep, OutboundStep, LinkStep
<1>1. ASSUME AcceptFails, UNCHANGED egg
      PROVE  PacketInv'
    <2>1. \A c \in Conns : <<>> \in Seq(FromClient(c)) /\ <<>> \in Seq(ToClient(c))
        BY QueueLemma
    <2>2. \A c \in Conns : /\ FromClient(c)' = FromClient(c)
                           /\ ToClient(c)' = ToClient(c)
        BY DEF FromClient, ToClient, SameName
    <2>3. link' \in [Conns -> {"open", "left", "dropped"}]
        BY <1>1 DEF AcceptFails, PacketInv
    <2> QED
        BY <1>1, <2>1, <2>2, <2>3 DEF AcceptFails, PacketInv
<1>2. ASSUME NEW c \in Conns, ConnectStep(c) \/ RespondStep(c), UNCHANGED egg
      PROVE  PacketInv'
    <2>1. CASE Accept(c)
        BY <1>t, <1>2, <2>1, PacketsPreserved DEF Accept, network
    <2>2. CASE HandshakeFails(c) \/ SendResponseFails(c)
        <3>1. InboundStep /\ ChannelStep /\ LinkStep
            BY <2>2, EndLemma DEF HandshakeFails, SendResponseFails
        <3> QED
            BY <1>t, <1>2, <2>2, <3>1, PacketsPreserved
            DEF HandshakeFails, SendResponseFails
    <2>3. CASE SendRefusal(c)
        <3>1. InboundStep /\ ChannelStep /\ LinkStep
            BY <2>3, EndLemma DEF SendRefusal
        <3>2. OutboundStep
            BY <2>3, WriteLemma, PacketConstructors DEF SendRefusal
        <3> QED
            BY <1>t, <1>2, <2>3, <3>1, <3>2, PacketsPreserved DEF SendRefusal
    <2>4. CASE SendGrant(c)
        <3>1. OutboundStep
            BY <2>4, WriteLemma, PacketConstructors DEF SendGrant
        <3> QED
            BY <1>t, <1>2, <2>4, <3>1, PacketsPreserved DEF SendGrant
    <2> QED
        BY <1>2, <2>1, <2>2, <2>3, <2>4 DEF ConnectStep, RespondStep
<1>3. ASSUME NEW c \in Conns, ForwardStep(c) \/ ReadEndStep(c), UNCHANGED egg
      PROVE  PacketInv'
    <2>1. CASE Forward(c)
        <3>1. Head(channel[c]) \in ToClient(c) /\ ChannelStep
            BY <2>1, TakeLemma DEF Forward
        <3>2. OutboundStep
            BY <2>1, <3>1, WriteLemma DEF Forward
        <3> QED
            BY <1>t, <1>3, <2>1, <3>1, <3>2, PacketsPreserved DEF Forward
    <2>2. CASE ReadFails(c)
        <3>1. InboundStep /\ ChannelStep /\ LinkStep
            BY <2>2, EndLemma DEF ReadFails
        <3> QED
            BY <1>t, <1>3, <2>2, <3>1, PacketsPreserved DEF ReadFails
    <2>3. CASE ForwardFails(c) \/ ChannelEnds(c) \/ ReadEnds(c)
        BY <1>t, <1>3, <2>3, PacketsPreserved
        DEF ForwardFails, ChannelEnds, ReadEnds, network
    <2> QED
        BY <1>3, <2>1, <2>2, <2>3 DEF ForwardStep, ReadEndStep
<1>4. ASSUME (\E h \in Homes : HomeStep(h)) \/ (\E r \in Remotes : RemoteStep(r)),
             UNCHANGED egg
      PROVE  PacketInv'
    <2>1. UNCHANGED listener
        BY <1>4 DEF HomeStep, HomeInit, InsertDesktop, HomeDisconnects, RelayAnswer,
            RelayAnswerFails, RelayAnswerPanics, RemoteStep, RemoteInit, InsertPeer,
            DesktopDisappeared, RelayOffer, RelayOfferFails, RemoteDisconnects
    <2> QED
        BY <1>4, <2>1, RelayStep
<1>5. ASSUME NEW r \in Remotes, EggStep(r)
      PROVE  PacketInv'
    <2>1. r \in Conns /\ outbound[r] # <<>> /\ OutboundStep
        BY <1>t, <1>5, TakeLemma
        DEF EggStep, EggSendsOffer, EggTakesAnswer, EggFails, Receives, Consume
    <2>2. egg' \in [Remotes -> EggStates]
        BY <1>t, <1>5 DEF EggStep, EggSendsOffer, EggTakesAnswer, EggFails, EggStates
    <2>3. LinkStep
        BY <1>t, <1>5
        DEF EggStep, EggSendsOffer, EggTakesAnswer, EggFails, Leave, LinkStep, PacketInv
    <2>4. InboundStep
        <3>1. CASE EggSendsOffer(r)
            <4>1. Offer(0, r) \in FromClient(r)
                BY PacketConstructors, PeerIdsLemma, ConnsAssumption DEF FromClient
            <4>2. Append(inbound[r], Offer(0, r)) \in Seq(FromClient(r))
                BY <1>t, <4>1, QueueLemma DEF PacketInv
            <4> QED
                BY <1>t, <3>1, <4>2 DEF EggSendsOffer, Send, InboundStep
        <3> QED
            BY <1>t, <1>5, <3>1 DEF EggStep, EggTakesAnswer, EggFails
    <2>5. UNCHANGED <<listener, channel>>
        BY <1>5 DEF EggStep, EggSendsOffer, EggTakesAnswer, EggFails, server
    <2> QED
        BY <1>t, <2>1, <2>2, <2>3, <2>4, <2>5, PacketsPreserved
<1>6. ASSUME NEW h \in Homes, DesktopStep(h)
      PROVE  PacketInv'
    <2>1. h \in Conns /\ outbound[h] # <<>> /\ OutboundStep
        BY <1>t, <1>6, TakeLemma
        DEF DesktopStep, DesktopTakesResponse, DesktopAnswers, Receives, Consume
    <2>2. LinkStep
        BY <1>t, <1>6 DEF DesktopStep, DesktopTakesResponse, DesktopAnswers, Leave,
            LinkStep, PacketInv
    <2>3. InboundStep
        <3>1. CASE DesktopAnswers(h)
            <4> DEFINE p == Head(outbound[h])
            <4>1. p \in RemoteOffer /\ SameName(h, p.payload)
                BY <2>1, <3>1, TakeLemma, PacketKinds
                DEF DesktopAnswers, Receives, ToClient
            <4>2. Answer(p.peer, p.payload) \in FromClient(h)
                BY <4>1, PacketConstructors DEF FromClient, RemoteOffer
            <4>3. Append(inbound[h], Answer(p.peer, p.payload)) \in Seq(FromClient(h))
                BY <1>t, <4>2, QueueLemma DEF PacketInv
            <4> QED
                BY <1>t, <3>1, <4>3 DEF DesktopAnswers, Send, InboundStep
        <3> QED
            BY <1>t, <1>6, <3>1 DEF DesktopStep, DesktopTakesResponse
    <2>4. UNCHANGED <<listener, channel, egg>>
        BY <1>6 DEF DesktopStep, DesktopTakesResponse, DesktopAnswers, server
    <2> QED
        BY <1>t, <2>1, <2>2, <2>3, <2>4, PacketsPreserved
<1>7. ASSUME NEW c \in Conns, ClientLeaves(c)
      PROVE  PacketInv'
    <2>1. OutboundStep
        <3>1. <<>> \in Seq(ToClient(c) \cup InitResponse)
            BY QueueLemma
        <3> QED
            BY <1>7, <3>1 DEF ClientLeaves, OutboundStep
    <2>2. LinkStep
        BY <1>7 DEF ClientLeaves, Leave, LinkStep, PacketInv
    <2> QED
        BY <1>t, <1>7, <2>1, <2>2, PacketsPreserved DEF ClientLeaves, server
<1>8. ASSUME UNCHANGED vars
      PROVE  PacketInv'
    BY <1>t, <1>8, PacketsPreserved DEF vars, server, network
<1>9. CASE RoosterNext /\ UNCHANGED egg
    <2>1. ASSUME NEW c \in Conns, ConnectStep(c) \/ RespondStep(c)
                                  \/ ForwardStep(c) \/ ReadEndStep(c)
          PROVE  PacketInv'
        BY <1>2, <1>3, <1>9, <2>1
    <2> QED
        BY <1>1, <1>4, <1>9, <2>1 DEF RoosterNext
<1> QED
    BY <1>5, <1>6, <1>7, <1>8, <1>9 DEF Next

LEMMA SeqMonotone ==
    ASSUME NEW S, NEW T, S \subseteq T
    PROVE  Seq(S) \subseteq Seq(T)
OBVIOUS

\* Every variable keeps its type, the queues only ever hold whole packets.
THEOREM TypeCorrect == Spec => []TypeOK
<1>1. TableInv /\ PacketInv => TypeOK
    <2> SUFFICES ASSUME TableInv, PacketInv PROVE TypeOK
        OBVIOUS
    <2>1. \A c \in Conns : /\ FromClient(c) \subseteq HandshakePacket
                           /\ ToClient(c) \subseteq HandshakePacket
                           /\ ToClient(c) \cup InitResponse \subseteq HandshakePacket
        BY DEF FromClient, ToClient, HandshakePacket
    <2>2. \A c \in Conns : /\ inbound[c] \in Seq(HandshakePacket)
                           /\ channel[c] \in Seq(HandshakePacket)
                           /\ outbound[c] \in Seq(HandshakePacket)
        BY <2>1, SeqMonotone DEF PacketInv
    <2> QED
        BY <2>2 DEF TypeOK, RoosterTypeOK, TableInv, TableTypeOK, PacketInv
<1> QED
    BY <1>1, TableInit, TableStep, PacketInit, PacketStep, PTL DEF Spec

\* An offer reaches desktops of the name its egg asked for, and no others; an
\* answer reaches remotes that asked for the answering desktop's name.
THEOREM NamesAreIsolated == Spec => []NameIsolation
<1>1. PacketInv => NameIsolation
    <2> SUFFICES ASSUME PacketInv, NEW c \in Conns
                 PROVE  /\ \A i \in DOMAIN inbound[c] :
                              Carries(c, inbound[c][i].payload)
                        /\ \A i \in DOMAIN channel[c] :
                              SameName(c, channel[c][i].payload)
                        /\ \A i \in DOMAIN outbound[c] :
                              outbound[c][i] \notin InitResponse =>
                                  SameName(c, outbound[c][i].payload)
        BY DEF NameIsolation
    <2>1. /\ \A i \in DOMAIN inbound[c] : inbound[c][i] \in FromClient(c)
          /\ \A i \in DOMAIN channel[c] : channel[c][i] \in ToClient(c)
          /\ \A i \in DOMAIN outbound[c] :
                outbound[c][i] \in ToClient(c) \cup InitResponse
        <3>1. /\ inbound[c] \in Seq(FromClient(c))
              /\ channel[c] \in Seq(ToClient(c))
              /\ outbound[c] \in Seq(ToClient(c) \cup InitResponse)
            BY DEF PacketInv
        <3>2. \A i \in DOMAIN inbound[c] : inbound[c][i] \in FromClient(c)
            BY <3>1, ElementOfSeq, LenProperties
        <3>3. \A i \in DOMAIN channel[c] : channel[c][i] \in ToClient(c)
            BY <3>1, ElementOfSeq, LenProperties
        <3>4. \A i \in DOMAIN outbound[c] :
                outbound[c][i] \in ToClient(c) \cup InitResponse
            BY <3>1, ElementOfSeq, LenProperties
        <3> QED
            BY <3>2, <3>3, <3>4
    <2> QED
        BY <2>1 DEF FromClient, ToClient, Carries
<1> QED
    BY <1>1, TableInit, TableStep, PacketInit, PacketStep, PTL DEF Spec

=============================================================================
