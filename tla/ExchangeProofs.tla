--------------------------- MODULE ExchangeProofs ---------------------------
(***************************************************************************)
(* Where the packets of an exchange are: an offer and its answer are one   *)
(* packet at a time, names reused or not; and, when no two desktops use    *)
(* one name and fewer remotes connect than a peer number has values,       *)
(* Signalling implements SignallingService and loses no packet.            *)
(***************************************************************************)
EXTENDS SignallingRefinement, DistinctNamesProofs

-----------------------------------------------------------------------------
(***************************************************************************)
(* One packet.  The three kinds of queue are taken as one function, so     *)
(* that a step is seen as what it does to them: some queues lose their     *)
(* head or all their packets, and at most one gains a packet, which is the *)
(* head that another has lost, concerns no remote, or is the first to      *)
(* concern its remote.                                                     *)
(***************************************************************************)
Kinds == {"inbound", "channel", "outbound"}

QueueState == [Kinds -> [Conns -> Seq(HandshakePacket)]]

Queues == [k \in Kinds |-> IF k = "inbound" THEN inbound
                           ELSE IF k = "channel" THEN channel ELSE outbound]

\* The packet is r's offer, or an answer to it.
Concerns(p, r) == p \in RemoteOffer \cup HomeAnswer /\ p.payload = r

IsAt(Q, r, k, c, i) == i \in DOMAIN Q[k][c] /\ Concerns(Q[k][c][i], r)

AtMostOne(Q, r) ==
    \A k, l \in Kinds : \A c, d \in Conns : \A i, j \in Nat :
        IsAt(Q, r, k, c, i) /\ IsAt(Q, r, l, d, j) => k = l /\ c = d /\ i = j

Nowhere(Q, r) == \A k \in Kinds : \A c \in Conns : \A i \in Nat : ~IsAt(Q, r, k, c, i)

Shrinks(q, qn) == qn = q \/ qn = <<>> \/ (q # <<>> /\ qn = Tail(q))

LEMMA ShrinkLemma ==
    ASSUME NEW q \in Seq(HandshakePacket), NEW qn, Shrinks(q, qn)
    PROVE  \E s \in {0, 1} : \A i \in DOMAIN qn :
               i \in Nat /\ i + s \in DOMAIN q /\ qn[i] = q[i + s]
<1>1. CASE qn = q
    BY <1>1, LenProperties
<1>2. CASE qn = <<>>
    BY <1>2
<1>3. CASE q # <<>> /\ qn = Tail(q)
    BY <1>3
<1> QED
    BY <1>1, <1>2, <1>3 DEF Shrinks

LEMMA Narrowing ==
    ASSUME NEW Q \in QueueState, NEW Qn, NEW r,
           \A k \in Kinds : \A c \in Conns : Shrinks(Q[k][c], Qn[k][c])
    PROVE  /\ AtMostOne(Q, r) => AtMostOne(Qn, r)
           /\ Nowhere(Q, r) => Nowhere(Qn, r)
<1>1. ASSUME NEW k \in Kinds, NEW c \in Conns
      PROVE  \E s \in {0, 1} : \A i \in Nat :
                 IsAt(Qn, r, k, c, i) => i + s \in Nat /\ IsAt(Q, r, k, c, i + s)
    <2>1. Q[k][c] \in Seq(HandshakePacket) /\ Shrinks(Q[k][c], Qn[k][c])
        BY DEF QueueState
    <2>2. PICK s \in {0, 1} : \A i \in DOMAIN Qn[k][c] :
             i \in Nat /\ i + s \in DOMAIN Q[k][c] /\ Qn[k][c][i] = Q[k][c][i + s]
        BY <2>1, ShrinkLemma
    <2> QED
        BY <2>2 DEF IsAt
<1>2. AtMostOne(Q, r) => AtMostOne(Qn, r)
    <2> SUFFICES ASSUME AtMostOne(Q, r), NEW k \in Kinds, NEW l \in Kinds,
                        NEW c \in Conns, NEW d \in Conns, NEW i \in Nat, NEW j \in Nat,
                        IsAt(Qn, r, k, c, i), IsAt(Qn, r, l, d, j)
                 PROVE  k = l /\ c = d /\ i = j
        BY DEF AtMostOne
    <2>1. PICK s \in {0, 1} : \A n \in Nat :
             IsAt(Qn, r, k, c, n) => n + s \in Nat /\ IsAt(Q, r, k, c, n + s)
        BY <1>1
    <2>2. PICK t \in {0, 1} : \A n \in Nat :
             IsAt(Qn, r, l, d, n) => n + t \in Nat /\ IsAt(Q, r, l, d, n + t)
        BY <1>1
    <2>3. k = l /\ c = d
        BY <2>1, <2>2 DEF AtMostOne
    <2>4. IsAt(Q, r, k, c, i + s) /\ IsAt(Q, r, k, c, j + s)
        BY <2>1, <2>3
    <2>5. i + s = j + s
        BY <2>4 DEF AtMostOne
    <2> QED
        BY <2>3, <2>5
<1>3. Nowhere(Q, r) => Nowhere(Qn, r)
    BY <1>1 DEF Nowhere
<1> QED
    BY <1>2, <1>3

\* One queue, of kind k2, gains p, and none of the others gains anything.
Gains(Q, Qn, k2, c2, p) ==
    /\ Qn[k2][c2] = Append(Q[k2][c2], p)
    /\ \A k \in Kinds : \A c \in Conns :
           k # k2 \/ c # c2 => Shrinks(Q[k][c], Qn[k][c])

\* The head of a queue of another kind, which loses it, concerns r.
Taken(Q, Qn, k2, r) ==
    \E k1 \in Kinds \ {k2} : \E c1 \in Conns :
        /\ Q[k1][c1] # <<>> /\ Qn[k1][c1] = Tail(Q[k1][c1])
        /\ Concerns(Head(Q[k1][c1]), r)

LEMMA Sending ==
    ASSUME NEW Q \in QueueState, NEW Qn, NEW r,
           NEW k2 \in Kinds, NEW c2 \in Conns, NEW p,
           Gains(Q, Qn, k2, c2, p),
           Concerns(p, r) => Nowhere(Q, r) \/ Taken(Q, Qn, k2, r)
    PROVE  /\ AtMostOne(Q, r) => AtMostOne(Qn, r)
           /\ Nowhere(Q, r) /\ ~Concerns(p, r) => Nowhere(Qn, r)
<1> DEFINE last == Len(Q[k2][c2]) + 1
           Added(k, c, i) == k = k2 /\ c = c2 /\ i = last
<1>t. \A k \in Kinds : \A c \in Conns : Q[k][c] \in Seq(HandshakePacket)
    BY DEF QueueState
<1>1. ASSUME NEW k \in Kinds, NEW c \in Conns
      PROVE  \E s \in {0, 1} : \A i \in Nat :
                 IsAt(Qn, r, k, c, i) /\ ~Added(k, c, i)
                     => i + s \in Nat /\ IsAt(Q, r, k, c, i + s)
    <2>1. CASE k = k2 /\ c = c2
        <3>0. Qn[k2][c2] = Append(Q[k2][c2], p)
            BY DEF Gains
        <3>1. /\ Q[k2][c2] \in Seq(HandshakePacket)
              /\ Len(Q[k2][c2]) \in Nat
              /\ DOMAIN Q[k2][c2] = 1 .. Len(Q[k2][c2])
              /\ DOMAIN Qn[k2][c2] = 1 .. last
              /\ \A i \in 1 .. Len(Q[k2][c2]) : Qn[k2][c2][i] = Q[k2][c2][i]
            BY <1>t, <3>0
        <3>2. \A i \in Nat : IsAt(Qn, r, k, c, i) /\ ~Added(k, c, i)
                                => i + 0 \in Nat /\ IsAt(Q, r, k, c, i + 0)
            BY <2>1, <3>1 DEF IsAt
        <3> QED
            BY <3>2
    <2>2. CASE k # k2 \/ c # c2
        <3>1. Q[k][c] \in Seq(HandshakePacket) /\ Shrinks(Q[k][c], Qn[k][c])
            BY <1>t, <2>2 DEF Gains
        <3>2. PICK s \in {0, 1} : \A i \in DOMAIN Qn[k][c] :
                 i \in Nat /\ i + s \in DOMAIN Q[k][c] /\ Qn[k][c][i] = Q[k][c][i + s]
            BY <3>1, ShrinkLemma
        <3> QED
            BY <3>2 DEF IsAt
    <2> QED
        BY <2>1, <2>2
<1>2. \A k \in Kinds : \A c \in Conns : \A i \in Nat :
          IsAt(Qn, r, k, c, i) /\ Added(k, c, i) => Concerns(p, r)
    <2>1. Qn[k2][c2][last] = p
        BY <1>t DEF Gains
    <2> QED
        BY <2>1 DEF IsAt
<1>3. ASSUME AtMostOne(Q, r), Concerns(p, r),
             NEW k \in Kinds, NEW c \in Conns, NEW i \in Nat,
             IsAt(Qn, r, k, c, i), ~Added(k, c, i)
      PROVE  FALSE
    <2>1. PICK s \in {0, 1} : i + s \in Nat /\ IsAt(Q, r, k, c, i + s)
        BY <1>1, <1>3
    <2>2. PICK k1 \in Kinds \ {k2}, c1 \in Conns :
             /\ Q[k1][c1] # <<>> /\ Qn[k1][c1] = Tail(Q[k1][c1])
             /\ Concerns(Head(Q[k1][c1]), r)
        BY <1>3, <2>1 DEF Nowhere, Taken
    <2>3. IsAt(Q, r, k1, c1, 1)
        BY <1>t, <2>2 DEF IsAt
    <2>4. k = k1 /\ c = c1
        BY <1>3, <2>1, <2>3 DEF AtMostOne
    <2>5. i \in DOMAIN Tail(Q[k1][c1]) /\ Concerns(Tail(Q[k1][c1])[i], r)
        BY <1>3, <2>2, <2>4 DEF IsAt
    <2>6. i >= 1 /\ i + 1 \in Nat /\ IsAt(Q, r, k1, c1, i + 1)
        BY <1>t, <2>2, <2>5 DEF IsAt
    <2>7. i + 1 = 1
        BY <1>3, <2>3, <2>6 DEF AtMostOne
    <2> QED
        BY <2>6, <2>7
<1>4. AtMostOne(Q, r) => AtMostOne(Qn, r)
    <2> SUFFICES ASSUME AtMostOne(Q, r), NEW k \in Kinds, NEW l \in Kinds,
                        NEW c \in Conns, NEW d \in Conns, NEW i \in Nat, NEW j \in Nat,
                        IsAt(Qn, r, k, c, i), IsAt(Qn, r, l, d, j)
                 PROVE  k = l /\ c = d /\ i = j
        BY DEF AtMostOne
    <2>1. CASE Concerns(p, r)
        BY <1>3, <2>1
    <2>2. CASE ~Concerns(p, r)
        <3>0. ~Added(k, c, i) /\ ~Added(l, d, j)
            BY <1>2, <2>2
        <3>1. PICK s \in {0, 1} : \A n \in Nat :
                 IsAt(Qn, r, k, c, n) /\ ~Added(k, c, n)
                     => n + s \in Nat /\ IsAt(Q, r, k, c, n + s)
            BY <1>1
        <3>2. PICK t \in {0, 1} : \A n \in Nat :
                 IsAt(Qn, r, l, d, n) /\ ~Added(l, d, n)
                     => n + t \in Nat /\ IsAt(Q, r, l, d, n + t)
            BY <1>1
        <3>3. k = l /\ c = d
            BY <3>0, <3>1, <3>2 DEF AtMostOne
        <3>4. /\ i + s \in Nat /\ IsAt(Q, r, k, c, i + s)
              /\ j + s \in Nat /\ IsAt(Q, r, k, c, j + s)
            BY <3>0, <3>1, <3>3
        <3>5. i + s = j + s
            BY <3>4 DEF AtMostOne
        <3> QED
            BY <3>3, <3>5
    <2> QED
        BY <2>1, <2>2
<1>5. Nowhere(Q, r) /\ ~Concerns(p, r) => Nowhere(Qn, r)
    BY <1>1, <1>2 DEF Nowhere
<1> QED
    BY <1>4, <1>5

-----------------------------------------------------------------------------
\* The invariant: one packet concerns a remote, and none before it has sent one.
UniqueInv ==
    \A r \in Remotes :
        /\ AtMostOne(Queues, r)
        /\ egg[r] = "waitRemoteInitResponse" => Nowhere(Queues, r)

LEMMA QueuesLemma ==
    /\ Queues["inbound"] = inbound /\ Queues'["inbound"] = inbound'
    /\ Queues["channel"] = channel /\ Queues'["channel"] = channel'
    /\ Queues["outbound"] = outbound /\ Queues'["outbound"] = outbound'
BY DEF Queues, Kinds

LEMMA QueuesType == ASSUME PacketInv PROVE Queues \in QueueState
<1>1. \A c \in Conns : /\ FromClient(c) \subseteq HandshakePacket
                       /\ ToClient(c) \cup InitResponse \subseteq HandshakePacket
                       /\ ToClient(c) \subseteq HandshakePacket
    BY DEF FromClient, ToClient, HandshakePacket
<1>2. \A c \in Conns : /\ inbound[c] \in Seq(HandshakePacket)
                       /\ channel[c] \in Seq(HandshakePacket)
                       /\ outbound[c] \in Seq(HandshakePacket)
    BY <1>1, SeqMonotone DEF PacketInv
<1>3. /\ inbound \in [Conns -> Seq(HandshakePacket)]
      /\ channel \in [Conns -> Seq(HandshakePacket)]
      /\ outbound \in [Conns -> Seq(HandshakePacket)]
    BY <1>2 DEF PacketInv
<1> QED
    BY <1>3 DEF Queues, QueueState

LEMMA UniqueInit == Init => UniqueInv
<1> SUFFICES ASSUME Init, NEW r \in Remotes, NEW k \in Kinds, NEW c \in Conns,
                    NEW i \in Nat
             PROVE  ~IsAt(Queues, r, k, c, i)
    BY DEF UniqueInv, AtMostOne, Nowhere
<1>1. Queues[k][c] = <<>>
    BY QueuesLemma DEF Init, RoosterInit, Kinds
<1> QED
    BY <1>1 DEF IsAt

\* No remote starts to wait for its init response.
EggsGoOn == \A r \in Remotes : egg'[r] = "waitRemoteInitResponse" => egg'[r] = egg[r]

LEMMA UniqueNarrowing ==
    ASSUME PacketInv, UniqueInv, EggsGoOn,
           \A c \in Conns : /\ Shrinks(inbound[c], inbound'[c])
                            /\ Shrinks(channel[c], channel'[c])
                            /\ Shrinks(outbound[c], outbound'[c])
    PROVE  UniqueInv'
<1>1. \A k \in Kinds : \A c \in Conns : Shrinks(Queues[k][c], Queues'[k][c])
    BY QueuesLemma DEF Kinds
<1>2. \A r : /\ AtMostOne(Queues, r) => AtMostOne(Queues', r)
             /\ Nowhere(Queues, r) => Nowhere(Queues', r)
    BY <1>1, QueuesType, Narrowing
<1> QED
    BY <1>2 DEF UniqueInv, EggsGoOn, AtMostOne, Nowhere, IsAt

LEMMA UniqueSending ==
    ASSUME PacketInv, UniqueInv, EggsGoOn,
           NEW k2 \in Kinds, NEW c2 \in Conns, NEW p,
           Gains(Queues, Queues', k2, c2, p),
           \A r \in Remotes : Concerns(p, r) =>
               \/ /\ egg[r] = "waitRemoteInitResponse"
                  /\ egg'[r] # "waitRemoteInitResponse"
               \/ Taken(Queues, Queues', k2, r)
    PROVE  UniqueInv'
<1> SUFFICES ASSUME NEW r \in Remotes
             PROVE  /\ AtMostOne(Queues', r)
                    /\ egg'[r] = "waitRemoteInitResponse" => Nowhere(Queues', r)
    BY DEF UniqueInv, AtMostOne, Nowhere, IsAt
<1>1. Queues \in QueueState /\ AtMostOne(Queues, r)
    BY QueuesType DEF UniqueInv
<1>2. Concerns(p, r) => Nowhere(Queues, r) \/ Taken(Queues, Queues', k2, r)
    BY DEF UniqueInv
<1>3. /\ AtMostOne(Queues, r) => AtMostOne(Queues', r)
      /\ Nowhere(Queues, r) /\ ~Concerns(p, r) => Nowhere(Queues', r)
    BY <1>1, <1>2, Sending
<1>4. ASSUME egg'[r] = "waitRemoteInitResponse", Concerns(p, r) PROVE FALSE
    <2>1. Nowhere(Queues, r)
        BY <1>4 DEF EggsGoOn, UniqueInv
    <2>2. PICK k1 \in Kinds, c1 \in Conns :
             Queues[k1][c1] # <<>> /\ Concerns(Head(Queues[k1][c1]), r)
        BY <1>4 DEF Taken
    <2>3. Queues[k1][c1] \in Seq(HandshakePacket)
        BY <1>1 DEF QueueState
    <2>4. IsAt(Queues, r, k1, c1, 1)
        BY <2>2, <2>3 DEF IsAt
    <2> QED
        BY <2>1, <2>4 DEF Nowhere
<1>5. egg'[r] = "waitRemoteInitResponse" => Nowhere(Queues, r)
    BY DEF EggsGoOn, UniqueInv
<1> QED
    BY <1>1, <1>3, <1>4, <1>5

-----------------------------------------------------------------------------
(***************************************************************************)
(* The steps.  Each kind of queue gains packets in one way.                *)
(***************************************************************************)
Narrows(queue, queueNext) == \A c \in Conns : Shrinks(queue[c], queueNext[c])

LEMMA NarrowsLemma ==
    ASSUME NEW queue, queue = [c \in Conns |-> queue[c]], NEW queueNext
    PROVE  /\ queueNext = queue => Narrows(queue, queueNext)
           /\ \A c \in Conns : queueNext = [queue EXCEPT ![c] = <<>>]
                  => Narrows(queue, queueNext)
           /\ \A c \in Conns : queue[c] # <<>> /\ queueNext = [queue EXCEPT ![c] = Tail(@)]
                  => Narrows(queue, queueNext) /\ queueNext[c] = Tail(queue[c])
<1>1. queueNext = queue => Narrows(queue, queueNext)
    BY DEF Narrows, Shrinks
<1>2. ASSUME NEW c \in Conns, queueNext = [queue EXCEPT ![c] = <<>>]
      PROVE  Narrows(queue, queueNext)
    BY <1>2 DEF Narrows, Shrinks
<1>3. ASSUME NEW c \in Conns, queue[c] # <<>>, queueNext = [queue EXCEPT ![c] = Tail(@)]
      PROVE  Narrows(queue, queueNext) /\ queueNext[c] = Tail(queue[c])
    BY <1>3 DEF Narrows, Shrinks
<1> QED
    BY <1>1, <1>2, <1>3

\* The head of one queue goes to the end of another of the next kind, as it is or
\* relayed: its kind and whom it concerns stay.
Passes(k1, c1, c2, p) ==
    /\ Queues[k1][c1] # <<>>
    /\ Queues'[k1][c1] = Tail(Queues[k1][c1])
    /\ Head(Queues[k1][c1]).payload = p.payload
    /\ \A kind \in {RemoteOffer, HomeAnswer} :
           p \in kind => Head(Queues[k1][c1]) \in kind
    /\ c1 \in Homes \cup {p.payload, c2}

\* What a step of the server does to the queues.
Moves ==
    \/ /\ Narrows(inbound, inbound') /\ Narrows(channel, channel')
       /\ Narrows(outbound, outbound')
    \/ \E k2 \in Kinds : \E c2 \in Conns : \E p \in HandshakePacket :
          /\ Gains(Queues, Queues', k2, c2, p)
          /\ \/ p \in InitResponse
             \/ \E k1 \in Kinds \ {k2} : \E c1 \in Conns : Passes(k1, c1, c2, p)

LEMMA MovesWrite ==
    ASSUME PacketInv, NEW c \in Conns, NEW p \in HandshakePacket, Write(c, p),
           Narrows(inbound, inbound'), Narrows(channel, channel'),
           p \notin InitResponse =>
               /\ channel[c] # <<>> /\ p = Head(channel[c])
               /\ channel'[c] = Tail(channel[c])
    PROVE  Moves
<1> USE QueuesLemma
<1>1. CASE outbound' = outbound
    BY <1>1 DEF Moves, Narrows, Shrinks
<1>2. CASE outbound' = [outbound EXCEPT ![c] = Append(@, p)]
    <2>1. /\ outbound'[c] = Append(outbound[c], p)
          /\ \A d \in Conns : d # c => outbound'[d] = outbound[d]
        BY <1>2 DEF PacketInv
    <2>2. Gains(Queues, Queues', "outbound", c, p)
        <3>1. \A d \in Conns : /\ Shrinks(inbound[d], inbound'[d])
                               /\ Shrinks(channel[d], channel'[d])
                               /\ d # c => Shrinks(outbound[d], outbound'[d])
            BY <2>1 DEF Narrows, Shrinks
        <3> QED
            BY <2>1, <3>1 DEF Gains, Kinds
    <2>3. p \notin InitResponse => Passes("channel", c, c, p)
        BY DEF Passes
    <2> QED
        BY <2>2, <2>3 DEF Moves, Kinds
<1> QED
    BY <1>1, <1>2 DEF Write

LEMMA MovesRelay ==
    ASSUME PacketInv, NEW c \in Conns, NEW d \in Conns, NEW p \in HandshakePacket,
           inbound[c] # <<>>, inbound' = [inbound EXCEPT ![c] = Tail(@)],
           channel' = [channel EXCEPT ![d] = Append(@, p)], outbound' = outbound,
           Head(inbound[c]).payload = p.payload,
           \A kind \in {RemoteOffer, HomeAnswer} : p \in kind => Head(inbound[c]) \in kind,
           c \in Homes \cup {p.payload}
    PROVE  Moves
<1> USE QueuesLemma
<1>1. Narrows(inbound, inbound') /\ inbound'[c] = Tail(inbound[c])
    BY NarrowsLemma DEF PacketInv
<1>2. /\ channel'[d] = Append(channel[d], p)
      /\ \A e \in Conns : e # d => channel'[e] = channel[e]
    BY DEF PacketInv
<1>3. Gains(Queues, Queues', "channel", d, p)
    <2>1. \A e \in Conns : /\ Shrinks(inbound[e], inbound'[e])
                           /\ Shrinks(outbound[e], outbound'[e])
                           /\ e # d => Shrinks(channel[e], channel'[e])
        BY <1>1, <1>2 DEF Narrows, Shrinks
    <2> QED
        BY <1>2, <2>1 DEF Gains, Kinds
<1>4. Passes("inbound", c, d, p)
    BY <1>1 DEF Passes
<1> QED
    BY <1>3, <1>4 DEF Moves, Kinds

\* The steps in which no egg and no desktop sends.
QuietStep ==
    \/ RoosterNext
    \/ \E r \in Remotes : EggTakesAnswer(r) \/ EggFails(r)
    \/ \E h \in Homes : DesktopTakesResponse(h)
    \/ \E c \in Conns : ClientLeaves(c)
    \/ UNCHANGED vars

LEMMA QuietMoves ==
    ASSUME TableInv, PacketInv, QuietStep
    PROVE  Moves
<1>t. Homes \subseteq Conns /\ Remotes \subseteq Conns
    BY DEF Conns
<1>q. /\ UNCHANGED inbound => Narrows(inbound, inbound')
      /\ UNCHANGED channel => Narrows(channel, channel')
      /\ UNCHANGED outbound => Narrows(outbound, outbound')
    BY DEF Narrows, Shrinks
<1>n. ASSUME Narrows(inbound, inbound'), Narrows(channel, channel'),
             Narrows(outbound, outbound')
      PROVE  Moves
    BY <1>n DEF Moves
<1>e. ASSUME NEW c \in Conns, NEW stage, End(c, stage)
      PROVE  Narrows(inbound, inbound') /\ Narrows(channel, channel')
    BY <1>e, NarrowsLemma DEF End, PacketInv
<1>p. /\ Granted \in HandshakePacket /\ Refused \in HandshakePacket
      /\ RemoteOffer \cup HomeAnswer \subseteq HandshakePacket
    BY PacketConstructors DEF HandshakePacket
<1>1. ASSUME AcceptFails
      PROVE  Moves
    <2>1. Narrows(inbound, inbound') /\ Narrows(channel, channel')
        BY <1>1 DEF AcceptFails, Narrows, Shrinks
    <2> QED
        BY <1>1, <1>q, <1>n, <2>1 DEF AcceptFails
<1>2. ASSUME NEW c \in Conns, ConnectStep(c) \/ RespondStep(c)
                              \/ ForwardStep(c) \/ ReadEndStep(c)
      PROVE  Moves
    <2>1. CASE Accept(c) \/ ForwardFails(c) \/ ChannelEnds(c) \/ ReadEnds(c)
        BY <1>q, <1>n, <2>1 DEF Accept, ForwardFails, ChannelEnds, ReadEnds, network
    <2>2. CASE HandshakeFails(c) \/ SendResponseFails(c) \/ ReadFails(c)
        <3>1. End(c, "closed") /\ UNCHANGED outbound
            BY <2>2 DEF HandshakeFails, SendResponseFails, ReadFails
        <3> QED
            BY <1>q, <1>n, <1>e, <3>1
    <2>3. CASE SendRefusal(c)
        <3>1. Narrows(inbound, inbound') /\ Narrows(channel, channel')
            BY <1>e, <2>3 DEF SendRefusal
        <3> QED
            BY <1>p, <2>3, <3>1, MovesWrite, PacketConstructors DEF SendRefusal
    <2>4. CASE SendGrant(c)
        BY <1>p, <1>q, <2>4, MovesWrite, PacketConstructors DEF SendGrant
    <2>5. CASE Forward(c)
        <3>1. /\ Narrows(channel, channel') /\ channel'[c] = Tail(channel[c])
              /\ Narrows(inbound, inbound')
            BY <1>q, <2>5, NarrowsLemma DEF Forward, PacketInv
        <3>2. Head(channel[c]) \in HandshakePacket
            BY <1>p, <2>5, TakeLemma DEF Forward, ToClient
        <3> QED
            BY <2>5, <3>1, <3>2, MovesWrite DEF Forward
    <2> QED
        BY <1>2, <2>1, <2>2, <2>3, <2>4, <2>5
        DEF ConnectStep, RespondStep, ForwardStep, ReadEndStep
<1>3. ASSUME NEW h \in Homes, HomeStep(h)
      PROVE  Moves
    <2>1. CASE RelayAnswer(h)
        <3>1. Head(inbound[h]) \in HomeAnswer /\ HomeName[h] \in Names
            BY <1>t, <2>1, TakeLemma, ConnsAssumption
            DEF RelayAnswer, AnswerArrives, FromClient
        <3>2. AddressedPeer(h) \in Conns
            <4>1. desktops[HomeName[h]] \in DesktopAndPeers
                BY <2>1, <3>1 DEF RelayAnswer, Registered, TableInv, TableTypeOK
            <4> QED
                BY <1>t, <2>1, <3>1, <4>1
                DEF RelayAnswer, AddressedPeer, DesktopAndPeers, HomeAnswer
        <3> QED
            BY <1>p, <1>t, <2>1, <3>1, <3>2, MovesRelay DEF RelayAnswer, AnswerArrives
    <2>2. CASE RelayAnswerFails(h) \/ RelayAnswerPanics(h) \/ HomeDisconnects(h)
        <3>1. (\E stage \in Stages : End(h, stage)) /\ UNCHANGED outbound
            BY <2>2 DEF RelayAnswerFails, RelayAnswerPanics, HomeDisconnects, Stages
        <3> QED
            BY <1>t, <1>q, <1>n, <1>e, <3>1
    <2>3. CASE HomeInit(h) \/ InsertDesktop(h)
        BY <1>q, <1>n, <2>3 DEF HomeInit, InsertDesktop, network
    <2> QED
        BY <1>3, <2>1, <2>2, <2>3 DEF HomeStep
<1>4. ASSUME NEW r \in Remotes, RemoteStep(r)
      PROVE  Moves
    <2>1. CASE RelayOffer(r)
        <3> DEFINE p == Head(inbound[r])
        <3>1. AddressedHome(r) \in Conns
            <4>1. desktops[HomeName[r]] \in DesktopAndPeers
                BY <1>t, <2>1, ConnsAssumption
                DEF RelayOffer, Registered, TableInv, TableTypeOK
            <4> QED
                BY <1>t, <4>1 DEF AddressedHome, DesktopAndPeers
        <3>2. p \in RemoteOffer /\ p.payload = r
            BY <1>t, <2>1, TakeLemma, ConnsAssumption
            DEF RelayOffer, OfferArrives, FromClient
        <3>3. peerId[r] \in PeerIds
            BY <2>1 DEF RelayOffer, OfferArrives, TableInv, RemotesNumbered
        <3>4. FilledIn(p, r) \in RemoteOffer /\ FilledIn(p, r).payload = r
            BY <3>2, <3>3 DEF FilledIn, RemoteOffer
        <3>5. FilledIn(p, r) \notin HomeAnswer
            BY <3>4, PacketKinds
        <3> QED
            BY <1>p, <1>t, <2>1, <3>1, <3>2, <3>4, <3>5, MovesRelay
            DEF RelayOffer, OfferArrives
    <2>2. CASE RelayOfferFails(r) \/ DesktopDisappeared(r) \/ RemoteDisconnects(r)
        <3>1. End(r, "closed") /\ UNCHANGED outbound
            BY <2>2 DEF RelayOfferFails, DesktopDisappeared, RemoteDisconnects
        <3> QED
            BY <1>t, <1>q, <1>n, <1>e, <3>1
    <2>3. CASE RemoteInit(r) \/ InsertPeer(r)
        BY <1>q, <1>n, <2>3 DEF RemoteInit, InsertPeer, network
    <2> QED
        BY <1>4, <2>1, <2>2, <2>3 DEF RemoteStep
<1>5. ASSUME NEW c \in Conns, outbound[c] # <<>>, Consume(c),
             UNCHANGED <<inbound, channel>>
      PROVE  Moves
    <2>1. Narrows(outbound, outbound')
        BY <1>5, NarrowsLemma DEF Consume, PacketInv
    <2> QED
        BY <1>5, <1>q, <1>n, <2>1
<1>6. ASSUME NEW r \in Remotes, EggTakesAnswer(r) \/ EggFails(r)
      PROVE  Moves
    BY <1>6, <1>5, <1>t DEF EggTakesAnswer, EggFails, Receives, server
<1>7. ASSUME NEW h \in Homes, DesktopTakesResponse(h)
      PROVE  Moves
    BY <1>7, <1>5, <1>t DEF DesktopTakesResponse, Receives, server
<1>8. ASSUME NEW c \in Conns, ClientLeaves(c)
      PROVE  Moves
    <2>1. Narrows(outbound, outbound')
        BY <1>8, NarrowsLemma DEF ClientLeaves, PacketInv
    <2> QED
        BY <1>8, <1>q, <1>n, <2>1 DEF ClientLeaves, server
<1>9. ASSUME UNCHANGED vars
      PROVE  Moves
    BY <1>9, <1>q, <1>n DEF vars, server, network
<1> QED
    BY <1>1, <1>2, <1>3, <1>4, <1>6, <1>7, <1>8, <1>9 DEF QuietStep, RoosterNext

LEMMA UniqueMoves ==
    ASSUME PacketInv, UniqueInv, EggsGoOn, Moves
    PROVE  UniqueInv'
<1>1. CASE Narrows(inbound, inbound') /\ Narrows(channel, channel')
               /\ Narrows(outbound, outbound')
    BY <1>1, UniqueNarrowing DEF Narrows
<1>2. ASSUME NEW k2 \in Kinds, NEW c2 \in Conns, NEW p \in HandshakePacket,
             Gains(Queues, Queues', k2, c2, p),
             \/ p \in InitResponse
             \/ \E k1 \in Kinds \ {k2} : \E c1 \in Conns : Passes(k1, c1, c2, p)
      PROVE  UniqueInv'
    <2>1. ASSUME NEW r \in Remotes, Concerns(p, r)
          PROVE  Taken(Queues, Queues', k2, r)
        <3>1. p \notin InitResponse
            BY <2>1, PacketKinds DEF Concerns
        <3> QED
            BY <1>2, <2>1, <3>1 DEF Passes, Taken, Concerns
    <2> QED
        BY <1>2, <2>1, UniqueSending
<1> QED
    BY <1>1, <1>2 DEF Moves

\* A client's packet: an answer to an offer that it takes, or an egg's first.
LEMMA SendGains ==
    ASSUME PacketInv, NEW c \in Conns, NEW p, outbound[c] # <<>>, Consume(c),
           channel' = channel, inbound' = [inbound EXCEPT ![c] = Append(@, p)]
    PROVE  /\ Gains(Queues, Queues', "inbound", c, p)
           /\ Queues'["outbound"][c] = Tail(Queues["outbound"][c])
<1> USE QueuesLemma
<1>1. Narrows(outbound, outbound') /\ outbound'[c] = Tail(outbound[c])
    BY NarrowsLemma DEF PacketInv, Consume
<1>2. /\ inbound'[c] = Append(inbound[c], p)
      /\ \A d \in Conns : d # c => inbound'[d] = inbound[d]
    BY DEF PacketInv
<1>3. \A d \in Conns : /\ Shrinks(outbound[d], outbound'[d])
                       /\ Shrinks(channel[d], channel'[d])
                       /\ d # c => Shrinks(inbound[d], inbound'[d])
    BY <1>1, <1>2 DEF Narrows, Shrinks
<1> QED
    BY <1>1, <1>2, <1>3 DEF Gains, Kinds

LEMMA UniqueSend ==
    ASSUME PacketInv, UniqueInv, EggsGoOn, NEW c \in Conns, NEW p, Send(c, p),
           outbound[c] # <<>>, Consume(c), channel' = channel,
           \A r \in Remotes : Concerns(p, r) =>
               \/ Concerns(Head(outbound[c]), r)
               \/ /\ egg[r] = "waitRemoteInitResponse"
                  /\ egg'[r] # "waitRemoteInitResponse"
    PROVE  UniqueInv'
<1>1. CASE inbound' = inbound
    <2>1. Narrows(outbound, outbound')
        BY NarrowsLemma DEF PacketInv, Consume
    <2> QED
        BY <1>1, <2>1, UniqueNarrowing DEF Narrows, Shrinks
<1>2. CASE inbound' = [inbound EXCEPT ![c] = Append(@, p)]
    <2>1. /\ Gains(Queues, Queues', "inbound", c, p)
          /\ Queues'["outbound"][c] = Tail(Queues["outbound"][c])
        BY <1>2, SendGains
    <2>2. ASSUME NEW r \in Remotes, Concerns(p, r)
          PROVE  \/ /\ egg[r] = "waitRemoteInitResponse"
                    /\ egg'[r] # "waitRemoteInitResponse"
                 \/ Taken(Queues, Queues', "inbound", r)
        BY <2>1, <2>2, QueuesLemma DEF Taken, Kinds
    <2> QED
        BY <2>1, <2>2, UniqueSending DEF Kinds
<1> QED
    BY <1>1, <1>2 DEF Send

LEMMA UniqueStep ==
    ASSUME TableInv, PacketInv, UniqueInv, [Next]_vars
    PROVE  UniqueInv'
<1>t. Homes \subseteq Conns /\ Remotes \subseteq Conns /\ egg \in [Remotes -> EggStates]
    BY DEF Conns, PacketInv
<1>1. EggsGoOn
    BY <1>t DEF Next, EggStep, EggSendsOffer, EggTakesAnswer, EggFails, DesktopStep,
        DesktopTakesResponse, DesktopAnswers, ClientLeaves, vars, EggsGoOn
<1>2. CASE QuietStep
    BY <1>1, <1>2, QuietMoves, UniqueMoves
<1>3. ASSUME NEW r \in Remotes, EggSendsOffer(r)
      PROVE  UniqueInv'
    <2>1. \A s \in Remotes : Concerns(Offer(0, r), s) => s = r
        BY DEF Concerns, Offer
    <2>2. egg[r] = "waitRemoteInitResponse" /\ egg'[r] # "waitRemoteInitResponse"
        BY <1>t, <1>3 DEF EggSendsOffer
    <2> QED
        BY <1>t, <1>1, <1>3, <2>1, <2>2, UniqueSend DEF EggSendsOffer, Receives, server
<1>4. ASSUME NEW h \in Homes, DesktopAnswers(h)
      PROVE  UniqueInv'
    <2> DEFINE p == Head(outbound[h])
    <2>1. p \in RemoteOffer
        BY <1>4 DEF DesktopAnswers, Receives
    <2>2. \A r \in Remotes : Concerns(Answer(p.peer, p.payload), r) => Concerns(p, r)
        BY <2>1 DEF Concerns, Answer
    <2> QED
        BY <1>t, <1>1, <1>4, <2>2, UniqueSend DEF DesktopAnswers, Receives, server
<1> QED
    BY <1>2, <1>3, <1>4 DEF Next, EggStep, DesktopStep, QuietStep

-----------------------------------------------------------------------------
\* The packets of a kind are as many as their positions, of which there is one at
\* most, and none if another kind has it.
LEMMA CountLemma ==
    ASSUME NEW r, NEW k \in Kinds, AtMostOne(Queues, r)
    PROVE  /\ Cardinality(PacketsOf(Queues[k], r)) \in {0, 1}
           /\ Cardinality(PacketsOf(Queues[k], r)) = 1
                  => \E c \in Conns : \E i \in Nat : IsAt(Queues, r, k, c, i)
<1> DEFINE S == PacketsOf(Queues[k], r)
<1>1. \A p \in S : p = <<p[1], p[2]>> /\ p[1] \in Conns /\ IsAt(Queues, r, k, p[1], p[2])
    BY DEF PacketsOf, IsAt, Concerns
<1>2. \A p \in S : p[2] \in Nat
    BY DEF PacketsOf
<1>3. \A p, q \in S : p = q
    BY <1>1, <1>2 DEF AtMostOne
<1>4. CASE S = {}
    BY <1>4, FS_EmptySet
<1>5. CASE S # {}
    <2>1. PICK p \in S : TRUE
        BY <1>5
    <2>2. S = {p}
        BY <1>3, <2>1
    <2>3. Cardinality(S) = 1
        BY <2>2, FS_Singleton
    <2> QED
        BY <1>1, <1>2, <2>1, <2>3
<1> QED
    BY <1>4, <1>5

\* Whatever names are reused and whoever disconnects, nothing relays an offer or an
\* answer twice, and no packet concerns a remote that has yet to send its offer.
THEOREM CopiesAreUnique == Spec => []AtMostOneCopy
<1>1. UniqueInv => AtMostOneCopy
    <2> SUFFICES ASSUME UniqueInv, NEW r \in Remotes
                 PROVE  Cardinality(PacketsOf(inbound, r))
                            + Cardinality(PacketsOf(channel, r))
                            + Cardinality(PacketsOf(outbound, r))
                        <= IF egg[r] = "waitRemoteInitResponse" THEN 0 ELSE 1
        BY DEF AtMostOneCopy
    <2> DEFINE N(k) == Cardinality(PacketsOf(Queues[k], r))
    <2>1. AtMostOne(Queues, r)
        BY DEF UniqueInv
    <2>2. \A k \in Kinds : /\ N(k) \in {0, 1}
                           /\ N(k) = 1 => \E c \in Conns : \E i \in Nat :
                                              IsAt(Queues, r, k, c, i)
        BY <2>1, CountLemma
    <2>3. \A k, l \in Kinds : N(k) = 1 /\ N(l) = 1 => k = l
        BY <2>1, <2>2 DEF AtMostOne
    <2>4. egg[r] = "waitRemoteInitResponse" => \A k \in Kinds : N(k) = 0
        BY <2>2 DEF UniqueInv, Nowhere
    <2>5. /\ N("inbound") = Cardinality(PacketsOf(inbound, r))
          /\ N("channel") = Cardinality(PacketsOf(channel, r))
          /\ N("outbound") = Cardinality(PacketsOf(outbound, r))
        BY QueuesLemma
    <2> HIDE DEF N
    <2> QED
        BY <2>2, <2>3, <2>4, <2>5 DEF Kinds
<1> QED
    BY <1>1, TableInit, TableStep, PacketInit, PacketStep, UniqueInit, UniqueStep, PTL
    DEF Spec

-----------------------------------------------------------------------------
(***************************************************************************)
(* The refinement.  The exchange of a remote moves on only in three steps  *)
(* of clients, each of which moves one exchange alone.  In every other     *)
(* step the eggs stay as they are and no packet comes from nowhere, so an  *)
(* exchange stays as it is or is over.                                     *)
(***************************************************************************)
ExchangeKinds == {RemoteOffer, HomeAnswer}

\* An exchange's stage, from its egg and from what travels.
StageOf(state, offered, answered) ==
    CASE state = "waitRemoteInitResponse" -> "none"
      [] state = "done" -> "connected"
      [] state = "waitHomeAnswerResponse" /\ offered -> "offered"
      [] state = "waitHomeAnswerResponse" /\ answered -> "answered"
      [] OTHER -> "over"

LEMMA StageLemma ==
    ASSUME NEW state, NEW offered \in BOOLEAN, NEW answered \in BOOLEAN,
           ~(offered /\ answered)
    PROVE  /\ state = "waitRemoteInitResponse" => StageOf(state, offered, answered) = "none"
           /\ state = "done" => StageOf(state, offered, answered) = "connected"
           /\ state = "failed" => StageOf(state, offered, answered) = "over"
           /\ state = "waitHomeAnswerResponse" =>
                /\ offered => StageOf(state, offered, answered) = "offered"
                /\ answered => StageOf(state, offered, answered) = "answered"
                /\ ~offered /\ ~answered => StageOf(state, offered, answered) = "over"
BY DEF StageOf

LEMMA ExchangeLemma ==
    /\ Exchange = [r \in Remotes |->
           StageOf(egg[r], Travels(RemoteOffer, r), Travels(HomeAnswer, r))]
    /\ Exchange' = [r \in Remotes |->
           StageOf(egg'[r], Travels(RemoteOffer, r)', Travels(HomeAnswer, r)')]
BY DEF Exchange, StageOf

\* Travels, over all queues as one function.
TravelsIn(Q, kind, r) ==
    \E k \in Kinds : \E c \in Homes \cup {r} : \E i \in DOMAIN Q[k][c] :
        Q[k][c][i] \in kind /\ Q[k][c][i].payload = r

LEMMA TravelsLemma ==
    ASSUME NEW kind, NEW r \in Remotes
    PROVE  /\ Travels(kind, r) <=> TravelsIn(Queues, kind, r)
           /\ Travels(kind, r)' <=> TravelsIn(Queues', kind, r)
<1>1. Homes \cup {r} \subseteq Conns /\ Kinds = {"inbound", "channel", "outbound"}
    BY DEF Conns, Kinds
<1>2. Travels(kind, r) <=> TravelsIn(Queues, kind, r)
    BY <1>1, QueuesLemma DEF Travels, TravelsIn
<1>3. Travels(kind, r)' <=> TravelsIn(Queues', kind, r)
    BY <1>1, QueuesLemma DEF Travels, TravelsIn
<1> QED
    BY <1>2, <1>3

\* An offer and an answer of one exchange are two packets.
Exclusive == \A r \in Remotes : ~(Travels(RemoteOffer, r) /\ Travels(HomeAnswer, r))

LEMMA ExclusiveLemma == PacketInv /\ UniqueInv => Exclusive
<1> SUFFICES ASSUME PacketInv, UniqueInv, NEW r \in Remotes,
                    Travels(RemoteOffer, r), Travels(HomeAnswer, r)
             PROVE  FALSE
    BY DEF Exclusive
<1>1. \A k \in Kinds : \A c \in Conns : Queues[k][c] \in Seq(HandshakePacket)
    BY QueuesType DEF QueueState
<1>2. Homes \cup {r} \subseteq Conns
    BY DEF Conns
<1>3. PICK k \in Kinds, c \in Conns :
         \E i \in DOMAIN Queues[k][c] :
             Queues[k][c][i] \in RemoteOffer /\ Queues[k][c][i].payload = r
    BY <1>2, TravelsLemma DEF TravelsIn
<1>3i. PICK i \in DOMAIN Queues[k][c] :
          Queues[k][c][i] \in RemoteOffer /\ Queues[k][c][i].payload = r
    BY <1>3
<1>4. PICK l \in Kinds, d \in Conns :
         \E j \in DOMAIN Queues[l][d] :
             Queues[l][d][j] \in HomeAnswer /\ Queues[l][d][j].payload = r
    BY <1>2, TravelsLemma DEF TravelsIn
<1>4i. PICK j \in DOMAIN Queues[l][d] :
          Queues[l][d][j] \in HomeAnswer /\ Queues[l][d][j].payload = r
    BY <1>4
<1>5. i \in Nat /\ j \in Nat
    BY <1>1, LenProperties
<1>6. k = l /\ c = d /\ i = j
    BY <1>3i, <1>3, <1>4i, <1>4, <1>5 DEF UniqueInv, AtMostOne, IsAt, Concerns
<1> QED
    BY <1>3i, <1>3, <1>4i, <1>4, <1>6, PacketKinds

-----------------------------------------------------------------------------
(***************************************************************************)
(* What travels after a step, and what travelled before it.                *)
(***************************************************************************)
LEMMA TravelledBefore ==
    ASSUME Queues \in QueueState, NEW kind, NEW r \in Remotes,
           NEW k2 \in Kinds, NEW c2 \in Conns, NEW p,
           Gains(Queues, Queues', k2, c2, p), Travels(kind, r)'
    PROVE  \/ Travels(kind, r)
           \/ p \in kind /\ p.payload = r /\ c2 \in Homes \cup {r}
<1>1. \A k \in Kinds : \A c \in Conns : Queues[k][c] \in Seq(HandshakePacket)
    BY DEF QueueState
<1>2. Homes \cup {r} \subseteq Conns
    BY DEF Conns
<1>3. PICK k \in Kinds, c \in Homes \cup {r} :
         \E i \in DOMAIN Queues'[k][c] :
             Queues'[k][c][i] \in kind /\ Queues'[k][c][i].payload = r
    BY TravelsLemma DEF TravelsIn
<1>3i. PICK i \in DOMAIN Queues'[k][c] :
          Queues'[k][c][i] \in kind /\ Queues'[k][c][i].payload = r
    BY <1>3
<1>4. CASE k # k2 \/ c # c2
    <2>1. Shrinks(Queues[k][c], Queues'[k][c]) /\ c \in Conns
        BY <1>2, <1>4 DEF Gains
    <2>2. PICK s \in {0, 1} : \A n \in DOMAIN Queues'[k][c] :
             n + s \in DOMAIN Queues[k][c] /\ Queues'[k][c][n] = Queues[k][c][n + s]
        BY <1>1, <2>1, ShrinkLemma
    <2>3. TravelsIn(Queues, kind, r)
        BY <1>3i, <1>3, <2>2 DEF TravelsIn
    <2> QED
        BY <2>3, TravelsLemma
<1>5. CASE k = k2 /\ c = c2
    <2>1. /\ Queues'[k][c] = Append(Queues[k][c], p)
          /\ Queues[k][c] \in Seq(HandshakePacket)
        BY <1>1, <1>5 DEF Gains
    <2>2. \/ i \in DOMAIN Queues[k][c] /\ Queues'[k][c][i] = Queues[k][c][i]
          \/ Queues'[k][c][i] = p
        BY <2>1
    <2>3. CASE Queues'[k][c][i] = p
        BY <1>3i, <1>3, <1>5, <2>3
    <2>4. CASE i \in DOMAIN Queues[k][c] /\ Queues'[k][c][i] = Queues[k][c][i]
        <3>1. TravelsIn(Queues, kind, r)
            BY <1>3i, <1>3, <2>4 DEF TravelsIn
        <3> QED
            BY <3>1, TravelsLemma
    <2> QED
        BY <2>2, <2>3, <2>4
<1> QED
    BY <1>4, <1>5

\* Queues that only lose packets let nothing travel that did not before.
LEMMA NarrowTravels ==
    ASSUME Queues \in QueueState, NEW kind, NEW r \in Remotes,
           Narrows(inbound, inbound'), Narrows(channel, channel'),
           Narrows(outbound, outbound'), Travels(kind, r)'
    PROVE  Travels(kind, r)
<1>1. \A k \in Kinds : \A c \in Conns :
         Queues[k][c] \in Seq(HandshakePacket) /\ Shrinks(Queues[k][c], Queues'[k][c])
    BY QueuesLemma DEF QueueState, Narrows, Kinds
<1>2. PICK k \in Kinds, c \in Homes \cup {r} :
         \E i \in DOMAIN Queues'[k][c] :
             Queues'[k][c][i] \in kind /\ Queues'[k][c][i].payload = r
    BY TravelsLemma DEF TravelsIn
<1>2i. PICK i \in DOMAIN Queues'[k][c] :
          Queues'[k][c][i] \in kind /\ Queues'[k][c][i].payload = r
    BY <1>2
<1>3. c \in Conns
    BY <1>2i, <1>2 DEF Conns
<1>4. PICK s \in {0, 1} : \A n \in DOMAIN Queues'[k][c] :
         n + s \in DOMAIN Queues[k][c] /\ Queues'[k][c][n] = Queues[k][c][n + s]
    BY <1>1, <1>3, ShrinkLemma
<1>5. TravelsIn(Queues, kind, r)
    BY <1>2i, <1>2, <1>4 DEF TravelsIn
<1> QED
    BY <1>5, TravelsLemma

NothingNew ==
    \A r \in Remotes : \A kind \in ExchangeKinds : Travels(kind, r)' => Travels(kind, r)

LEMMA QuietTravels ==
    ASSUME PacketInv, Moves
    PROVE  NothingNew
<1> SUFFICES ASSUME NEW r \in Remotes, NEW kind \in ExchangeKinds, Travels(kind, r)'
             PROVE  Travels(kind, r)
    BY DEF NothingNew
<1>t. Queues \in QueueState
    BY QueuesType
<1>1. CASE Narrows(inbound, inbound') /\ Narrows(channel, channel')
               /\ Narrows(outbound, outbound')
    BY <1>t, <1>1, NarrowTravels
<1>2. ASSUME NEW k2 \in Kinds, NEW c2 \in Conns, NEW p \in HandshakePacket,
             Gains(Queues, Queues', k2, c2, p),
             \/ p \in InitResponse
             \/ \E k1 \in Kinds \ {k2} : \E c1 \in Conns : Passes(k1, c1, c2, p),
             p \in kind, p.payload = r, c2 \in Homes \cup {r}
      PROVE  Travels(kind, r)
    <2>1. kind \in {RemoteOffer, HomeAnswer} /\ p \notin InitResponse
        BY <1>2, PacketKinds DEF ExchangeKinds
    <2>2. PICK k1 \in Kinds, c1 \in Conns : Passes(k1, c1, c2, p)
        BY <1>2, <2>1
    <2>3. Queues[k1][c1] \in Seq(HandshakePacket) /\ Queues[k1][c1] # <<>>
        BY <1>t, <2>2 DEF QueueState, Passes
    <2>4. 1 \in DOMAIN Queues[k1][c1] /\ Queues[k1][c1][1] = Head(Queues[k1][c1])
        BY <2>3
    <2>5. /\ Queues[k1][c1][1] \in kind /\ Queues[k1][c1][1].payload = r
          /\ c1 \in Homes \cup {r}
        BY <1>2, <2>1, <2>2, <2>4 DEF Passes
    <2>6. TravelsIn(Queues, kind, r)
        BY <2>4, <2>5 DEF TravelsIn
    <2> QED
        BY <2>6, TravelsLemma
<1>3. ASSUME NEW k2 \in Kinds, NEW c2 \in Conns, NEW p \in HandshakePacket,
             Gains(Queues, Queues', k2, c2, p),
             \/ p \in InitResponse
             \/ \E k1 \in Kinds \ {k2} : \E c1 \in Conns : Passes(k1, c1, c2, p)
      PROVE  Travels(kind, r)
    BY <1>t, <1>2, <1>3, TravelledBefore
<1> QED
    BY <1>1, <1>3 DEF Moves

\* A client that takes a packet, and perhaps sends one, leaves the others' as they are.
LEMMA TravelsOn ==
    ASSUME PacketInv, NEW c \in Conns, NEW p, NEW kind, NEW r \in Remotes,
           outbound[c] # <<>>, Consume(c), channel' = channel,
           inbound' = inbound \/ inbound' = [inbound EXCEPT ![c] = Append(@, p)],
           ~(Head(outbound[c]) \in kind /\ Head(outbound[c]).payload = r),
           Travels(kind, r)
    PROVE  Travels(kind, r)'
<1>1. \A k \in Kinds : \A d \in Conns : Queues[k][d] \in Seq(HandshakePacket)
    BY QueuesType DEF QueueState
<1>2. PICK k \in Kinds, d \in Homes \cup {r} :
         \E i \in DOMAIN Queues[k][d] :
             Queues[k][d][i] \in kind /\ Queues[k][d][i].payload = r
    BY TravelsLemma DEF TravelsIn
<1>2i. PICK i \in DOMAIN Queues[k][d] :
          Queues[k][d][i] \in kind /\ Queues[k][d][i].payload = r
    BY <1>2
<1>3. d \in Conns
    BY <1>2i, <1>2 DEF Conns
<1>4. ASSUME NEW j \in DOMAIN Queues'[k][d], Queues'[k][d][j] = Queues[k][d][i]
      PROVE  Travels(kind, r)'
    <2>1. TravelsIn(Queues', kind, r)
        BY <1>2i, <1>2, <1>4 DEF TravelsIn
    <2> QED
        BY <2>1, TravelsLemma
<1>5. CASE Queues'[k][d] = Queues[k][d]
    BY <1>4, <1>5
<1>6. CASE Queues'[k][d] = Append(Queues[k][d], p)
    <2>1. i \in DOMAIN Queues'[k][d] /\ Queues'[k][d][i] = Queues[k][d][i]
        BY <1>1, <1>2i, <1>2, <1>3, <1>6
    <2> QED
        BY <1>4, <2>1
<1>7. CASE k = "outbound" /\ d = c
    <2>1. /\ outbound[c] \in Seq(HandshakePacket)
          /\ Queues[k][d] = outbound[c] /\ Queues'[k][d] = Tail(outbound[c])
        BY <1>1, <1>3, <1>7, QueuesLemma DEF Consume, PacketInv
    <2>2. i # 1 /\ i \in 1 .. Len(outbound[c])
        BY <1>2i, <1>2, <2>1
    <2>3. /\ i - 1 \in DOMAIN Tail(outbound[c])
          /\ Tail(outbound[c])[i - 1] = outbound[c][i]
        BY <2>1, <2>2
    <2> QED
        BY <1>4, <2>1, <2>3
<1>8. CASE ~(k = "outbound" /\ d = c)
    <2>1. Queues'[k][d] = Queues[k][d] \/ Queues'[k][d] = Append(Queues[k][d], p)
        <3>1. inbound'[d] = inbound[d] \/ inbound'[d] = Append(inbound[d], p)
            BY <1>3 DEF PacketInv
        <3>2. d # c => outbound'[d] = outbound[d]
            BY <1>3 DEF Consume, PacketInv
        <3>3. /\ k = "inbound" => Queues[k] = inbound /\ Queues'[k] = inbound'
              /\ k = "channel" => Queues[k] = channel /\ Queues'[k] = channel'
              /\ k = "outbound" => Queues[k] = outbound /\ Queues'[k] = outbound'
            BY QueuesLemma
        <3> QED
            BY <1>8, <3>1, <3>2, <3>3 DEF Kinds
    <2> QED
        BY <1>5, <1>6, <2>1
<1> QED
    BY <1>7, <1>8

\* A client that takes a packet and sends one makes only that one travel.
LEMMA SendTravels ==
    ASSUME PacketInv, NEW c \in Conns, NEW p, NEW kind, NEW r \in Remotes,
           outbound[c] # <<>>, Consume(c), channel' = channel, Send(c, p),
           Travels(kind, r)'
    PROVE  Travels(kind, r) \/ (p \in kind /\ p.payload = r)
<1>t. Queues \in QueueState
    BY QueuesType
<1>1. CASE inbound' = inbound
    <2>1. Narrows(outbound, outbound')
        BY NarrowsLemma DEF PacketInv, Consume
    <2>2. Narrows(inbound, inbound') /\ Narrows(channel, channel')
        BY <1>1 DEF Narrows, Shrinks
    <2> QED
        BY <1>t, <2>1, <2>2, NarrowTravels
<1>2. CASE inbound' = [inbound EXCEPT ![c] = Append(@, p)]
    <2>1. Gains(Queues, Queues', "inbound", c, p)
        BY <1>2, SendGains
    <2> QED
        BY <1>t, <2>1, TravelledBefore DEF Kinds
<1> QED
    BY <1>1, <1>2 DEF Send

-----------------------------------------------------------------------------
(***************************************************************************)
(* The step of SignallingService that a step is.                           *)
(***************************************************************************)
StagesKnown ==
    \A r \in Remotes :
        /\ egg[r] = "waitRemoteInitResponse" => Exchange[r] = "none"
        /\ egg[r] = "done" => Exchange[r] = "connected"
        /\ egg[r] = "failed" => Exchange[r] = "over"
        /\ egg[r] = "waitHomeAnswerResponse" =>
              /\ Travels(RemoteOffer, r) => Exchange[r] = "offered"
              /\ Travels(HomeAnswer, r) => Exchange[r] = "answered"
              /\ ~Travels(RemoteOffer, r) /\ ~Travels(HomeAnswer, r)
                     => Exchange[r] = "over"

LEMMA StagesLemma == Exclusive => StagesKnown
<1> SUFFICES ASSUME Exclusive, NEW r \in Remotes
             PROVE  /\ egg[r] = "waitRemoteInitResponse" => Exchange[r] = "none"
                    /\ egg[r] = "done" => Exchange[r] = "connected"
                    /\ egg[r] = "failed" => Exchange[r] = "over"
                    /\ egg[r] = "waitHomeAnswerResponse" =>
                          /\ Travels(RemoteOffer, r) => Exchange[r] = "offered"
                          /\ Travels(HomeAnswer, r) => Exchange[r] = "answered"
                          /\ ~Travels(RemoteOffer, r) /\ ~Travels(HomeAnswer, r)
                                 => Exchange[r] = "over"
    BY DEF StagesKnown
<1> DEFINE offered == Travels(RemoteOffer, r)
           answered == Travels(HomeAnswer, r)
<1>1. offered \in BOOLEAN /\ answered \in BOOLEAN /\ ~(offered /\ answered)
    BY DEF Travels, Exclusive
<1>2. Exchange[r] = StageOf(egg[r], offered, answered)
    BY ExchangeLemma
<1> HIDE DEF offered, answered
<1>3. /\ egg[r] = "waitRemoteInitResponse" => Exchange[r] = "none"
      /\ egg[r] = "done" => Exchange[r] = "connected"
      /\ egg[r] = "failed" => Exchange[r] = "over"
      /\ egg[r] = "waitHomeAnswerResponse" =>
            /\ offered => Exchange[r] = "offered"
            /\ answered => Exchange[r] = "answered"
            /\ ~offered /\ ~answered => Exchange[r] = "over"
    BY <1>1, <1>2, StageLemma
<1> QED
    BY <1>3 DEF offered, answered

LEMMA StagesFollow ==
    /\ PacketInv /\ UniqueInv => Exclusive /\ StagesKnown
    /\ PacketInv' /\ UniqueInv' => Exclusive' /\ StagesKnown'
<1>1. PacketInv /\ UniqueInv => Exclusive /\ StagesKnown
    BY ExclusiveLemma, StagesLemma
<1> QED
    BY <1>1, PTL

\* Where no egg moves on and nothing new travels, some exchanges are over, or none.
LEMMA AbandonLemma ==
    ASSUME StagesKnown, StagesKnown', NothingNew, egg \in [Remotes -> EggStates],
           \A r \in Remotes : \/ egg'[r] = egg[r]
                              \/ egg[r] # "done" /\ egg'[r] = "failed"
    PROVE  Service!Next
<1> DEFINE gone == {r \in Remotes : Exchange'[r] # Exchange[r]}
<1>1. ASSUME NEW r \in gone
      PROVE  Exchange'[r] = "over" /\ Exchange[r] # "connected"
    <2>1. egg[r] \in EggStates
        BY <1>1
    <2>2. CASE egg'[r] = egg[r]
        BY <1>1, <2>1, <2>2 DEF StagesKnown, NothingNew, ExchangeKinds, EggStates
    <2>3. CASE egg[r] # "done" /\ egg'[r] = "failed"
        BY <1>1, <2>1, <2>3 DEF StagesKnown, EggStates
    <2> QED
        BY <1>1, <2>2, <2>3
<1>2. Exchange' = [r \in Remotes |-> Exchange'[r]]
    BY ExchangeLemma
<1>3. Exchange' = [r \in Remotes |-> IF r \in gone THEN "over" ELSE Exchange[r]]
    BY <1>1, <1>2
<1>4. gone \in SUBSET Remotes /\ Service!Abandon(gone)
    BY <1>1, <1>3 DEF Service!Abandon
<1> HIDE DEF gone
<1> QED
    BY <1>4 DEF Service!Next

\* An exchange stays as it is with its egg and with what travels.
SameTravels(r) ==
    /\ egg'[r] = egg[r]
    /\ \A kind \in ExchangeKinds : Travels(kind, r)' <=> Travels(kind, r)

LEMMA SameStage ==
    ASSUME NEW r \in Remotes, SameTravels(r)
    PROVE  Exchange'[r] = Exchange[r]
<1>1. /\ egg'[r] = egg[r]
      /\ Travels(RemoteOffer, r)' = Travels(RemoteOffer, r)
      /\ Travels(HomeAnswer, r)' = Travels(HomeAnswer, r)
    <2>1. /\ egg'[r] = egg[r]
          /\ Travels(RemoteOffer, r)' <=> Travels(RemoteOffer, r)
          /\ Travels(HomeAnswer, r)' <=> Travels(HomeAnswer, r)
        BY DEF SameTravels, ExchangeKinds
    <2>2. \A kind \in ExchangeKinds :
             Travels(kind, r) \in BOOLEAN /\ Travels(kind, r)' \in BOOLEAN
        BY DEF Travels
    <2> QED
        BY <2>1, <2>2 DEF ExchangeKinds
<1> QED
    BY <1>1, ExchangeLemma

LEMMA OneAdvances ==
    ASSUME NEW s \in Remotes, \A r \in Remotes \ {s} : SameTravels(r)
    PROVE  Exchange' = [Exchange EXCEPT ![s] = Exchange'[s]]
<1>1. \A r \in Remotes \ {s} : Exchange'[r] = Exchange[r]
    BY SameStage
<1> QED
    BY <1>1, ExchangeLemma

RefInv == AnswerInv /\ UniqueInv

LEMMA EggConnects ==
    ASSUME RefInv, StagesKnown, StagesKnown', NEW s \in Remotes,
           EggTakesAnswer(s), egg'[s] = "done"
    PROVE  Service!Connect(s)
<1> DEFINE p == Head(outbound[s])
<1>t. TableInv /\ PacketInv /\ ExactInv /\ s \in Conns /\ s \notin Homes
    BY ConnsAssumption DEF RefInv, AnswerInv, Conns
<1>1. p \in HomeAnswer /\ p.payload = s /\ outbound[s] # <<>>
    <2>1. p \in HomeAnswer /\ outbound[s] # <<>>
        BY DEF EggTakesAnswer, Receives
    <2>2. p \in Exact(s)
        BY <1>t, <2>1, ExactTake, PacketKinds
    <2> QED
        BY <1>t, <2>1, <2>2 DEF Exact
<1>2. NothingNew
    BY <1>t, QuietMoves, QuietTravels DEF QuietStep
<1>3. Travels(HomeAnswer, s)
    <2>1. outbound[s] \in Seq(ToClient(s) \cup InitResponse)
        BY <1>t DEF PacketInv
    <2>2. 1 \in DOMAIN outbound[s] /\ outbound[s][1] = p
        BY <1>1, <2>1
    <2> QED
        BY <1>1, <1>t, <2>2 DEF Travels
<1>4. Exchange[s] = "answered" /\ Exchange'[s] = "connected"
    BY <1>3 DEF EggTakesAnswer, StagesKnown
<1>5. ASSUME NEW r \in Remotes \ {s}
      PROVE  SameTravels(r)
    <2>1. ASSUME NEW kind \in ExchangeKinds, Travels(kind, r)
          PROVE  Travels(kind, r)'
        <3>1. channel' = channel /\ inbound' = inbound /\ Consume(s)
            BY DEF EggTakesAnswer, server
        <3>2. ~(Head(outbound[s]) \in kind /\ Head(outbound[s]).payload = r)
            BY <1>1, <1>5
        <3> QED
            BY <1>t, <1>1, <2>1, <3>1, <3>2, TravelsOn
    <2>2. egg'[r] = egg[r]
        BY DEF EggTakesAnswer
    <2> QED
        BY <1>2, <2>1, <2>2 DEF SameTravels, NothingNew
<1>6. Exchange' = [Exchange EXCEPT ![s] = Exchange'[s]]
    BY <1>5, OneAdvances
<1> QED
    BY <1>4, <1>6 DEF Service!Connect, Service!Advance

LEMMA EggOffers ==
    ASSUME RefInv, StagesKnown, StagesKnown', NEW s \in Remotes, EggSendsOffer(s)
    PROVE  Service!Next
<1> DEFINE p == Offer(0, s)
<1>t. /\ PacketInv /\ UniqueInv /\ s \in Conns
      /\ outbound[s] # <<>> /\ Consume(s) /\ channel' = channel /\ Send(s, p)
    BY DEF RefInv, AnswerInv, Conns, EggSendsOffer, Receives, server
<1>1. p \in RemoteOffer /\ p \notin HomeAnswer /\ p.payload = s
    BY PacketConstructors, PeerIdsLemma, PacketKinds
<1>2. /\ egg[s] = "waitRemoteInitResponse" /\ egg'[s] = "waitHomeAnswerResponse"
      /\ \A r \in Remotes \ {s} : egg'[r] = egg[r]
    BY <1>t DEF EggSendsOffer, PacketInv
<1>3. \A kind \in ExchangeKinds : ~Travels(kind, s)
    <2>1. Nowhere(Queues, s)
        BY <1>t, <1>2 DEF UniqueInv
    <2> SUFFICES ASSUME NEW kind \in ExchangeKinds, TravelsIn(Queues, kind, s)
                 PROVE  FALSE
        BY TravelsLemma
    <2>2. \A k \in Kinds : \A c \in Conns : Queues[k][c] \in Seq(HandshakePacket)
        BY <1>t, QueuesType DEF QueueState
    <2>3. PICK k \in Kinds, c \in Homes \cup {s} : \E i \in DOMAIN Queues[k][c] :
             Queues[k][c][i] \in kind /\ Queues[k][c][i].payload = s
        BY DEF TravelsIn
    <2>4. PICK i \in DOMAIN Queues[k][c] :
             Queues[k][c][i] \in kind /\ Queues[k][c][i].payload = s
        BY <2>3
    <2>5. c \in Conns /\ i \in Nat
        BY <1>t, <2>2, LenProperties DEF Conns
    <2> QED
        BY <2>1, <2>4, <2>5 DEF Nowhere, IsAt, Concerns, ExchangeKinds
<1>4. ~Travels(HomeAnswer, s)'
    BY <1>t, <1>1, <1>3, SendTravels DEF ExchangeKinds
<1>5. ASSUME NEW r \in Remotes \ {s}
      PROVE  SameTravels(r)
    <2>1. ASSUME NEW kind \in ExchangeKinds, Travels(kind, r)
          PROVE  Travels(kind, r)'
        <3>1. Head(outbound[s]) \in InitResponse
            BY PacketConstructors DEF EggSendsOffer, Receives
        <3>2. Head(outbound[s]) \notin kind
            BY <3>1, PacketKinds DEF ExchangeKinds
        <3> QED
            BY <1>t, <2>1, <3>2, TravelsOn DEF Send
    <2>2. ASSUME NEW kind \in ExchangeKinds, Travels(kind, r)'
          PROVE  Travels(kind, r)
        BY <1>t, <1>1, <1>5, <2>2, SendTravels
    <2> QED
        BY <1>2, <2>1, <2>2 DEF SameTravels
<1>6. Exchange' = [Exchange EXCEPT ![s] = Exchange'[s]]
    BY <1>5, OneAdvances
<1>7. Exchange[s] = "none" /\ Exchange'[s] \in {"offered", "over"}
    BY <1>2, <1>4 DEF StagesKnown
<1>8. CASE Exchange'[s] = "offered"
    BY <1>6, <1>7, <1>8 DEF Service!Next, Service!MakeOffer, Service!Advance
<1>9. CASE Exchange'[s] = "over"
    <2>1. Exchange' = [r \in Remotes |-> IF r \in {s} THEN "over" ELSE Exchange[r]]
        BY <1>6, <1>9, ExchangeLemma
    <2>2. Service!Abandon({s})
        BY <1>7, <2>1 DEF Service!Abandon
    <2> QED
        BY <2>2 DEF Service!Next
<1> QED
    BY <1>7, <1>8, <1>9

LEMMA DesktopGivesAnswer ==
    ASSUME RefInv, Exclusive, StagesKnown, Exclusive', StagesKnown',
           NEW h \in Homes, DesktopAnswers(h)
    PROVE  Service!Next \/ Exchange' = Exchange
<1> DEFINE q == Head(outbound[h])
<1>0. PICK s \in Remotes, id \in PeerIds : q = Offer(id, s)
    BY DEF DesktopAnswers, Receives, RemoteOffer, Offer
<1> DEFINE p == Answer(id, s)
<1>t. /\ PacketInv /\ h \in Conns /\ egg' = egg
      /\ outbound[h] # <<>> /\ Consume(h) /\ channel' = channel /\ Send(h, p)
    BY <1>0 DEF RefInv, AnswerInv, Conns, DesktopAnswers, Receives, server, Offer
<1>1. q \in RemoteOffer /\ q \notin HomeAnswer /\ q.payload = s
    BY <1>0, PacketConstructors, PacketKinds
<1>2. p \in HomeAnswer /\ p \notin RemoteOffer /\ p.payload = s
    BY PacketConstructors, PacketKinds
<1>3. Travels(RemoteOffer, s) /\ ~Travels(HomeAnswer, s)
    <2>1. outbound[h] \in Seq(ToClient(h) \cup InitResponse)
        BY <1>t DEF PacketInv
    <2>2. 1 \in DOMAIN outbound[h] /\ outbound[h][1] = q
        BY <1>t, <2>1
    <2>3. Travels(RemoteOffer, s)
        BY <1>1, <1>t, <2>2 DEF Travels
    <2> QED
        BY <2>3 DEF Exclusive
<1> HIDE DEF q, p
<1>4. ASSUME NEW r \in Remotes \ {s}
      PROVE  SameTravels(r)
    <2>1. ASSUME NEW kind \in ExchangeKinds, Travels(kind, r)
          PROVE  Travels(kind, r)'
        BY <1>t, <1>1, <1>4, <2>1, TravelsOn DEF Send, q
    <2>2. ASSUME NEW kind \in ExchangeKinds, Travels(kind, r)'
          PROVE  Travels(kind, r)
        BY <1>t, <1>2, <1>4, <2>2, SendTravels
    <2> QED
        BY <1>t, <2>1, <2>2 DEF SameTravels
<1>5. CASE inbound' = inbound
    <2>1. Narrows(outbound, outbound')
        BY <1>t, NarrowsLemma DEF PacketInv, Consume
    <2>2. Narrows(inbound, inbound') /\ Narrows(channel, channel')
        BY <1>t, <1>5 DEF Narrows, Shrinks
    <2>3. NothingNew
        BY <1>t, <2>1, <2>2, QueuesType, NarrowTravels DEF NothingNew
    <2>4. egg \in [Remotes -> EggStates]
        BY <1>t DEF PacketInv
    <2> QED
        BY <1>t, <2>3, <2>4, AbandonLemma
<1>6. CASE inbound' = [inbound EXCEPT ![h] = Append(@, p)]
    <2>1. Travels(HomeAnswer, s)' /\ ~Travels(RemoteOffer, s)'
        <3>1. inbound[h] \in Seq(FromClient(h)) /\ inbound'[h] = Append(inbound[h], p)
            BY <1>t, <1>6 DEF PacketInv
        <3> DEFINE last == Len(inbound[h]) + 1
        <3>2. last \in DOMAIN inbound'[h] /\ inbound'[h][last] = p
            BY <3>1
        <3> HIDE DEF last
        <3>3. \E i \in DOMAIN inbound'[h] :
                 inbound'[h][i] \in HomeAnswer /\ inbound'[h][i].payload = s
            BY <1>2, <3>2
        <3>4. Travels(HomeAnswer, s)'
            BY <1>t, <3>3 DEF Travels
        <3> QED
            BY <1>1, <3>4 DEF Exclusive
    <2>2. Exchange' = [Exchange EXCEPT ![s] = Exchange'[s]]
        BY <1>1, <1>4, OneAdvances
    <2>3. CASE egg[s] = "waitHomeAnswerResponse"
        <3>1. Exchange[s] = "offered" /\ Exchange'[s] = "answered"
            BY <1>t, <1>1, <1>3, <2>1, <2>3 DEF StagesKnown
        <3>2. Service!GiveAnswer(s)
            BY <2>2, <3>1 DEF Service!GiveAnswer, Service!Advance
        <3> QED
            BY <1>1, <3>2 DEF Service!Next
    <2>4. CASE egg[s] # "waitHomeAnswerResponse"
        <3>1. egg[s] \in EggStates
            BY <1>t, <1>1 DEF PacketInv
        <3>2. Exchange'[s] = Exchange[s]
            BY <1>t, <1>1, <2>4, <3>1 DEF StagesKnown, EggStates
        <3> QED
            BY <2>2, <3>2, ExchangeLemma
    <2> QED
        BY <2>3, <2>4
<1> QED
    BY <1>t, <1>5, <1>6 DEF Send

LEMMA ServiceStep ==
    ASSUME RefInv, RefInv', [Next]_vars
    PROVE  [Service!Next]_Exchange
<1>t. /\ Exclusive /\ StagesKnown /\ Exclusive' /\ StagesKnown'
      /\ TableInv /\ PacketInv /\ egg \in [Remotes -> EggStates]
    BY StagesFollow DEF RefInv, AnswerInv, PacketInv
<1>1. ASSUME QuietStep,
             \A r \in Remotes : \/ egg'[r] = egg[r]
                                \/ egg[r] # "done" /\ egg'[r] = "failed"
      PROVE  Service!Next
    BY <1>t, <1>1, QuietMoves, QuietTravels, AbandonLemma
<1>2. CASE RoosterNext /\ UNCHANGED egg
    BY <1>1, <1>2 DEF QuietStep
<1>3. ASSUME NEW s \in Remotes, EggTakesAnswer(s) \/ EggFails(s)
      PROVE  Service!Next
    <2>1. CASE EggTakesAnswer(s) /\ egg'[s] = "done"
        BY <1>t, <2>1, EggConnects DEF Service!Next
    <2>2. CASE ~(EggTakesAnswer(s) /\ egg'[s] = "done")
        <3>1. \A r \in Remotes : \/ egg'[r] = egg[r]
                                 \/ egg[r] # "done" /\ egg'[r] = "failed"
            BY <1>t, <1>3, <2>2 DEF EggTakesAnswer, EggFails
        <3> QED
            BY <1>1, <1>3, <3>1 DEF QuietStep
    <2> QED
        BY <2>1, <2>2
<1>4. ASSUME NEW s \in Remotes, EggSendsOffer(s)
      PROVE  Service!Next
    BY <1>t, <1>4, EggOffers
<1>5. ASSUME NEW h \in Homes, DesktopTakesResponse(h)
      PROVE  Service!Next
    BY <1>1, <1>5 DEF QuietStep, DesktopTakesResponse
<1>6. ASSUME NEW h \in Homes, DesktopAnswers(h)
      PROVE  Service!Next \/ Exchange' = Exchange
    BY <1>t, <1>6, DesktopGivesAnswer
<1>7. ASSUME NEW c \in Conns, ClientLeaves(c)
      PROVE  Service!Next
    BY <1>1, <1>7 DEF QuietStep, ClientLeaves
<1>8. CASE UNCHANGED vars
    BY <1>1, <1>8 DEF QuietStep, vars
<1> QED
    BY <1>2, <1>3, <1>4, <1>5, <1>6, <1>7, <1>8 DEF Next, EggStep, DesktopStep

\* With a name per desktop and fewer remotes than numbers, every exchange takes the
\* steps of SignallingService: offered, answered by its desktop and connected, each
\* once and in this order, or over for good.
THEOREM SignallingImplementsService ==
    ASSUME DistinctNames, FewRemotes
    PROVE  Spec => ImplementsService
<1>1. Init => RefInv /\ Service!Init
    <2> SUFFICES ASSUME Init PROVE RefInv /\ Service!Init
        OBVIOUS
    <2>1. RefInv
        BY TableInit, PacketInit, NumberInit, ExactInit, UniqueInit DEF RefInv, AnswerInv
    <2>2. StagesKnown
        BY <2>1, StagesFollow DEF RefInv, AnswerInv
    <2>3. \A r \in Remotes : Exchange[r] = "none"
        BY <2>2 DEF Init, StagesKnown
    <2> QED
        BY <2>1, <2>3, ExchangeLemma DEF Service!Init
<1>2. RefInv /\ [Next]_vars => RefInv'
    BY TableStep, PacketStep, NumberStep, ExactStep, UniqueStep DEF RefInv, AnswerInv
<1>3. RefInv /\ RefInv' /\ [Next]_vars => [Service!Next]_Exchange
    BY ServiceStep
<1> QED
    BY <1>1, <1>2, <1>3, PTL DEF Spec, ImplementsService, Service!Spec

-----------------------------------------------------------------------------
(***************************************************************************)
(* Nothing is lost between connections that last.  The packet of an        *)
(* exchange is held by the connection of its remote or of its desktop; a   *)
(* step moves it to another queue of theirs or leaves it there, unless it  *)
(* ends the connection that holds it, and what has ended does not reopen.  *)
(***************************************************************************)
Has(queue, r) == \E i \in DOMAIN queue : Concerns(queue[i], r)

Holds(c, r) == Has(inbound[c], r) \/ Has(channel[c], r) \/ Has(outbound[c], r)

OnTheWay(r) == \E c \in Homes \cup {r} : Holds(c, r)

Severed(r) == link[r] # "open" \/ \E h \in Homes : SameName(h, r) /\ link[h] # "open"

\* A client that has not connected has no packets.
AbsentInv ==
    \A c \in Conns : pc[c] = "absent" =>
        inbound[c] = <<>> /\ channel[c] = <<>> /\ outbound[c] = <<>>

LEMMA OnTheWayLemma ==
    ASSUME NEW r \in Remotes
    PROVE  /\ Travels(RemoteOffer, r) \/ Travels(HomeAnswer, r) <=> OnTheWay(r)
           /\ OnTheWay(r)' => Travels(RemoteOffer, r)' \/ Travels(HomeAnswer, r)'
BY DEF Travels, OnTheWay, Holds, Has, Concerns, Conns

LEMMA HasLemma ==
    ASSUME NEW q \in Seq(HandshakePacket), NEW r
    PROVE  /\ ~Has(<<>>, r)
           /\ \A p : Has(q, r) => Has(Append(q, p), r)
           /\ \A p : Concerns(p, r) => Has(Append(q, p), r)
           /\ q # <<>> /\ Has(q, r) /\ ~Concerns(Head(q), r) => Has(Tail(q), r)
<1>1. ~Has(<<>>, r)
    BY DEF Has
<1>2. ASSUME NEW p PROVE /\ Has(q, r) => Has(Append(q, p), r)
                         /\ Concerns(p, r) => Has(Append(q, p), r)
    <2>1. /\ Append(q, p)[Len(q) + 1] = p /\ Len(q) + 1 \in DOMAIN Append(q, p)
          /\ \A i \in DOMAIN q : i \in DOMAIN Append(q, p) /\ Append(q, p)[i] = q[i]
        OBVIOUS
    <2> QED
        BY <2>1 DEF Has
<1>3. ASSUME q # <<>>, Has(q, r), ~Concerns(Head(q), r) PROVE Has(Tail(q), r)
    <2>1. PICK i \in DOMAIN q : Concerns(q[i], r)
        BY <1>3 DEF Has
    <2>2. i # 1
        BY <1>3, <2>1
    <2>3. i - 1 \in DOMAIN Tail(q) /\ Tail(q)[i - 1] = q[i]
        BY <1>3, <2>2
    <2> QED
        BY <2>1, <2>3 DEF Has
<1> QED
    BY <1>1, <1>2, <1>3

LEMMA QueuesTyped ==
    ASSUME PacketInv, NEW c \in Conns
    PROVE  /\ inbound[c] \in Seq(HandshakePacket)
           /\ channel[c] \in Seq(HandshakePacket)
           /\ outbound[c] \in Seq(HandshakePacket)
BY QueuesType, QueuesLemma DEF QueueState, Kinds

\* A connection that holds a packet of an exchange is the remote's or its desktop's.
LEMMA HolderLemma ==
    ASSUME PacketInv, NEW r \in Remotes, NEW c \in Homes, Holds(c, r)
    PROVE  SameName(c, r)
<1>1. /\ inbound[c] \in Seq(FromClient(c))
      /\ channel[c] \in Seq(ToClient(c))
      /\ outbound[c] \in Seq(ToClient(c) \cup InitResponse)
    BY DEF PacketInv, Conns
<1>2. /\ \A i \in DOMAIN inbound[c] : inbound[c][i] \in FromClient(c)
      /\ \A i \in DOMAIN channel[c] : channel[c][i] \in ToClient(c)
      /\ \A i \in DOMAIN outbound[c] : outbound[c][i] \in ToClient(c) \cup InitResponse
    BY <1>1, ElementOfSeq, LenProperties
<1>3. \A p \in InitResponse : ~Concerns(p, r)
    BY PacketKinds DEF Concerns
<1> QED
    BY <1>2, <1>3 DEF Holds, Has, Concerns, FromClient, ToClient

\* No connection opens again.
LEMMA LinksClose ==
    ASSUME PacketInv, [Next]_vars, NEW c \in Conns, link'[c] = "open"
    PROVE  link[c] = "open"
BY DEF Next, RoosterNext, AcceptFails, ConnectStep, Accept, HandshakeFails,
    RespondStep, SendRefusal, SendGrant, SendResponseFails, ForwardStep, Forward,
    ForwardFails, ChannelEnds, ReadEndStep, ReadEnds, ReadFails, HomeStep, HomeInit,
    InsertDesktop, HomeDisconnects, RelayAnswer, RelayAnswerFails, RelayAnswerPanics,
    RemoteStep, RemoteInit, InsertPeer, DesktopDisappeared, RelayOffer,
    RelayOfferFails, RemoteDisconnects, EggStep, EggSendsOffer, EggTakesAnswer,
    EggFails, DesktopStep, DesktopTakesResponse, DesktopAnswers, ClientLeaves, Leave,
    End, PacketInv, vars, network

LEMMA AbsentInit == Init => AbsentInv
BY DEF Init, RoosterInit, AbsentInv

LEMMA AbsentStep ==
    ASSUME TableInv, PacketInv, NumberInv, ExactInv, AbsentInv, [Next]_vars
    PROVE  AbsentInv'
<1> USE DEF Goto
<1>t. /\ pc \in [Conns -> Stages]
      /\ inbound \in [Conns -> Seq(HandshakePacket)]
      /\ channel \in [Conns -> Seq(HandshakePacket)]
      /\ outbound \in [Conns -> Seq(HandshakePacket)]
      /\ Homes \subseteq Conns /\ Remotes \subseteq Conns
    BY QueuesType, QueuesLemma DEF TableInv, TableTypeOK, QueueState, Kinds, Conns
\* Only a queue of d gains a packet, or what was absent has moved on.
<1>1. ASSUME NEW d \in Conns, pc[d] # "absent",
             \A c \in Conns : pc'[c] = "absent" => pc[c] = "absent",
             \A c \in Conns \ {d} :
                /\ inbound'[c] \in {inbound[c], <<>>}
                /\ channel'[c] \in {channel[c], <<>>}
                /\ outbound'[c] \in {outbound[c], <<>>}
      PROVE  AbsentInv'
    BY <1>1 DEF AbsentInv
<1>2. CASE AcceptFails
    BY <1>t, <1>2 DEF AcceptFails, AbsentInv
<1>3. ASSUME NEW c \in Conns, ConnectStep(c) \/ RespondStep(c)
                              \/ ForwardStep(c) \/ ReadEndStep(c)
      PROVE  AbsentInv'
    <2>1. CASE Accept(c)
        BY <1>t, <2>1 DEF Accept, AbsentInv, network
    <2>2. CASE ~Accept(c)
        <3>1. pc[c] # "absent"
            BY <1>3, <2>2 DEF ConnectStep, HandshakeFails, RespondStep, SendRefusal,
                SendGrant, SendResponseFails, ForwardStep, Forward, ForwardFails,
                ChannelEnds, ReadEndStep, ReadEnds, ReadFails
        <3>2. \A d \in Conns \ {c} :
                 /\ pc'[d] = pc[d] /\ inbound'[d] = inbound[d]
                 /\ channel'[d] = channel[d] /\ outbound'[d] = outbound[d]
            BY <1>t, <1>3, <2>2
            DEF ConnectStep, HandshakeFails, RespondStep, SendRefusal,
                SendGrant, SendResponseFails, ForwardStep, Forward, ForwardFails,
                ChannelEnds, ReadEndStep, ReadEnds, ReadFails, End, Write, network
        <3>3. pc'[c] # "absent"
            BY <1>t, <1>3, <2>2
            DEF ConnectStep, HandshakeFails, RespondStep, SendRefusal,
                SendGrant, SendResponseFails, ForwardStep, Forward, ForwardFails,
                ChannelEnds, ReadEndStep, ReadEnds, ReadFails, End
        <3> QED
            BY <3>1, <3>2, <3>3 DEF AbsentInv
    <2> QED
        BY <2>1, <2>2
<1>4. ASSUME NEW h \in Homes, HomeStep(h)
      PROVE  AbsentInv'
    <2>1. CASE RelayAnswer(h)
        <3>1. AddressedPeer(h) \in Conns /\ pc[AddressedPeer(h)] # "absent"
            BY <1>t, <2>1, AnswerFindsOfferer DEF RelayAnswer, ReceiverAlive
        <3>2. pc[h] # "absent" /\ h \in Conns
            BY <1>t, <2>1 DEF RelayAnswer, AnswerArrives
        <3> QED
            BY <1>t, <2>1, <3>1, <3>2 DEF RelayAnswer, AbsentInv
    <2>2. CASE ~RelayAnswer(h)
        <3>1. /\ pc[h] # "absent" /\ pc'[h] # "absent"
              /\ \A d \in Conns \ {h} :
                   /\ pc'[d] = pc[d] /\ inbound'[d] = inbound[d]
                   /\ channel'[d] = channel[d] /\ outbound'[d] = outbound[d]
            BY <1>t, <1>4, <2>2 DEF HomeStep, HomeInit, InsertDesktop, HomeDisconnects,
                RelayAnswerFails, RelayAnswerPanics, AnswerArrives, End, network
        <3> QED
            BY <1>t, <3>1 DEF AbsentInv
    <2> QED
        BY <2>1, <2>2
<1>5. ASSUME NEW r \in Remotes, RemoteStep(r)
      PROVE  AbsentInv'
    <2>1. CASE RelayOffer(r)
        <3>1. AddressedHome(r) \in Conns => pc[AddressedHome(r)] # "absent"
            BY <2>1 DEF RelayOffer, ReceiverAlive
        <3>2. pc[r] # "absent" /\ r \in Conns
            BY <1>t, <2>1 DEF RelayOffer, OfferArrives
        <3> QED
            BY <1>t, <2>1, <3>1, <3>2 DEF RelayOffer, AbsentInv
    <2>2. CASE ~RelayOffer(r)
        <3>1. /\ pc[r] # "absent" /\ pc'[r] # "absent"
              /\ \A d \in Conns \ {r} :
                   /\ pc'[d] = pc[d] /\ inbound'[d] = inbound[d]
                   /\ channel'[d] = channel[d] /\ outbound'[d] = outbound[d]
            BY <1>t, <1>5, <2>2 DEF RemoteStep, RemoteInit, InsertPeer,
                DesktopDisappeared, RelayOfferFails, OfferArrives, RemoteDisconnects,
                End, network
        <3> QED
            BY <1>t, <3>1 DEF AbsentInv
    <2> QED
        BY <2>1, <2>2
<1>6. ASSUME NEW c \in Conns, outbound[c] # <<>>, pc' = pc,
             \A d \in Conns \ {c} :
                /\ inbound'[d] = inbound[d] /\ channel'[d] = channel[d]
                /\ outbound'[d] = outbound[d]
      PROVE  AbsentInv'
    BY <1>6 DEF AbsentInv
<1>7. ASSUME NEW r \in Remotes, EggStep(r)
      PROVE  AbsentInv'
    BY <1>t, <1>6, <1>7 DEF EggStep, EggSendsOffer, EggTakesAnswer, EggFails, Receives,
        Consume, Send, server
<1>8. ASSUME NEW h \in Homes, DesktopStep(h)
      PROVE  AbsentInv'
    BY <1>t, <1>6, <1>8 DEF DesktopStep, DesktopTakesResponse, DesktopAnswers, Receives,
        Consume, Send, server
<1>9. ASSUME NEW c \in Conns, ClientLeaves(c)
      PROVE  AbsentInv'
    BY <1>t, <1>9 DEF ClientLeaves, AbsentInv, server
<1>10. CASE UNCHANGED vars
    BY <1>10 DEF vars, server, network, AbsentInv
<1> QED
    BY <1>2, <1>3, <1>4, <1>5, <1>7, <1>8, <1>9, <1>10 DEF Next, RoosterNext

\* What becomes of a packet that waits at a connection which the step leaves open.
LEMMA Holding ==
    ASSUME AnswerInv, AbsentInv, [Next]_vars,
           NEW r \in Remotes, NEW c \in Homes \cup {r}, Holds(c, r), link'[c] = "open"
    PROVE  OnTheWay(r)'
<1> USE DEF Goto
<1> c \in Conns
    BY DEF Conns
<1>inv. TableInv /\ PacketInv /\ NumberInv /\ ExactInv
    BY DEF AnswerInv
<1>t. /\ inbound \in [Conns -> Seq(HandshakePacket)]
      /\ channel \in [Conns -> Seq(HandshakePacket)]
      /\ outbound \in [Conns -> Seq(HandshakePacket)]
      /\ Homes \subseteq Conns /\ Remotes \subseteq Conns
    BY <1>inv, QueuesType, QueuesLemma DEF QueueState, Kinds, Conns
<1>o. link \in [Conns -> {"open", "left", "dropped"}] /\ link[c] = "open"
    BY <1>inv, LinksClose DEF PacketInv
<1>q. /\ inbound[c] \in Seq(HandshakePacket)
      /\ channel[c] \in Seq(HandshakePacket)
      /\ outbound[c] \in Seq(HandshakePacket)
    BY <1>t
<1>w. ASSUME NEW d \in Homes \cup {r},
             Has(inbound'[d], r) \/ Has(channel'[d], r) \/ Has(outbound'[d], r)
      PROVE  OnTheWay(r)'
    BY <1>w DEF OnTheWay, Holds
<1>k. ASSUME Has(inbound[c], r) => Has(inbound'[c], r),
             Has(channel[c], r) => Has(channel'[c], r),
             Has(outbound[c], r) => Has(outbound'[c], r)
      PROVE  OnTheWay(r)'
    BY <1>k, <1>w DEF Holds
<1>s. ASSUME inbound'[c] = inbound[c], channel'[c] = channel[c], outbound'[c] = outbound[c]
      PROVE  OnTheWay(r)'
    BY <1>s, <1>k
<1>1. CASE AcceptFails
    <2>1. pc[c] = "absent"
        BY <1>1, <1>o DEF AcceptFails
    <2> QED
        BY <2>1, <1>q, HasLemma DEF AbsentInv, Holds
<1>2. ASSUME NEW d \in Conns, ConnectStep(d) \/ RespondStep(d) \/ ReadEndStep(d)
      PROVE  OnTheWay(r)'
    <2>1. ~(d = c /\ (\E stage \in Stages : End(d, stage)))
        BY <1>o DEF End
    <2>2. inbound'[c] = inbound[c] /\ channel'[c] = channel[c]
        BY <1>2, <2>1, <1>t DEF ConnectStep, Accept, HandshakeFails, RespondStep, SendRefusal,
            SendGrant, SendResponseFails, ReadEndStep, ReadEnds, ReadFails, End, Stages,
            network
    <2>3. outbound'[c] = outbound[c] \/ \E p : outbound'[c] = Append(outbound[c], p)
        BY <1>2, <1>t DEF ConnectStep, Accept, HandshakeFails, RespondStep, SendRefusal,
            SendGrant, SendResponseFails, ReadEndStep, ReadEnds, ReadFails, Write, network
    <2> QED
        BY <2>2, <2>3, <1>q, <1>k, HasLemma
<1>3. ASSUME NEW d \in Conns, ForwardStep(d)
      PROVE  OnTheWay(r)'
    <2>1. CASE Forward(d) /\ d = c
        <3>1. /\ channel[c] # <<>>
              /\ outbound'[c] = Append(outbound[c], Head(channel[c]))
              /\ channel'[c] = Tail(channel[c])
              /\ inbound'[c] = inbound[c]
            BY <2>1, <1>t, <1>o DEF Forward, Write
        <3>2. CASE Concerns(Head(channel[c]), r)
            BY <3>1, <3>2, <1>q, <1>w, HasLemma
        <3>3. CASE ~Concerns(Head(channel[c]), r)
            BY <3>1, <3>3, <1>q, <1>k, HasLemma
        <3> QED
            BY <3>2, <3>3
    <2>2. CASE ~(Forward(d) /\ d = c)
        BY <1>3, <2>2, <1>t, <1>s
        DEF ForwardStep, Forward, ForwardFails, ChannelEnds, Write, network
    <2> QED
        BY <2>1, <2>2
<1>4. ASSUME NEW h \in Homes, HomeStep(h)
      PROVE  OnTheWay(r)'
    <2>1. CASE RelayAnswer(h)
        <3>1. /\ AddressedPeer(h) \in Remotes
              /\ AddressedPeer(h) = Head(inbound[h]).payload
            BY <2>1, <1>inv, AnswerFindsOfferer DEF RelayAnswer
        <3>2. /\ inbound[h] # <<>>
              /\ inbound' = [inbound EXCEPT ![h] = Tail(@)]
              /\ channel' = [channel EXCEPT ![AddressedPeer(h)] = Append(@, Head(inbound[h]))]
              /\ outbound' = outbound
            BY <2>1 DEF RelayAnswer, AnswerArrives
        <3>3. CASE Concerns(Head(inbound[h]), r)
            <4>1. channel'[r] = Append(channel[r], Head(inbound[h]))
                BY <3>1, <3>2, <3>3, <1>t DEF Concerns
            <4> QED
                BY <4>1, <3>3, <1>t, <1>w, HasLemma
        <3>4. CASE ~Concerns(Head(inbound[h]), r)
            <4>1. inbound'[c] = inbound[c]
                    \/ (inbound'[c] = Tail(inbound[c]) /\ h = c)
                BY <3>2, <1>t
            <4>2. channel'[c] = channel[c]
                    \/ channel'[c] = Append(channel[c], Head(inbound[h]))
                BY <3>2, <1>t
            <4> QED
                BY <4>1, <4>2, <3>2, <3>4, <1>q, <1>k, HasLemma
        <3> QED
            BY <3>3, <3>4
    <2>2. CASE ~RelayAnswer(h)
        <3>1. ~(h = c /\ (\E stage \in Stages : End(h, stage)))
            BY <1>o DEF End
        <3> QED
            BY <1>4, <2>2, <3>1, <1>t, <1>s
            DEF HomeStep, HomeInit, InsertDesktop, HomeDisconnects, RelayAnswerFails,
                RelayAnswerPanics, End, Stages, network
    <2> QED
        BY <2>1, <2>2
<1>5. ASSUME NEW s \in Remotes, RemoteStep(s)
      PROVE  OnTheWay(r)'
    <2>1. CASE RelayOffer(s)
        <3> DEFINE h == AddressedHome(s)
                   p == FilledIn(Head(inbound[s]), s)
        <3>1. h \in Homes
            BY <2>1, <1>inv, ConnsAssumption, <1>t
            DEF RelayOffer, AddressedHome, Registered, TableInv, TableTypeOK, DesktopAndPeers
        <3>2. /\ inbound[s] # <<>>
              /\ inbound' = [inbound EXCEPT ![s] = Tail(@)]
              /\ channel' = [channel EXCEPT ![h] = Append(@, p)]
              /\ outbound' = outbound
            BY <2>1 DEF RelayOffer, OfferArrives
        <3>3. Concerns(Head(inbound[s]), r) => Concerns(p, r)
            <4>1. peerId[s] \in PeerIds
                BY <2>1, <1>inv DEF RelayOffer, OfferArrives, TableInv, RemotesNumbered
            <4>2. Head(inbound[s]) \in RemoteOffer
                BY <3>2, <1>inv, <1>t, TakeLemma, ConnsAssumption DEF FromClient
            <4> QED
                BY <4>1, <4>2 DEF Concerns, FilledIn, RemoteOffer
        <3> HIDE DEF h, p
        <3>4. CASE Concerns(Head(inbound[s]), r)
            <4>1. channel'[h] = Append(channel[h], p)
                BY <3>1, <3>2, <1>t
            <4> QED
                BY <4>1, <3>1, <3>3, <3>4, <1>t, <1>w, HasLemma
        <3>5. CASE ~Concerns(Head(inbound[s]), r)
            <4>1. inbound'[c] = inbound[c]
                    \/ (inbound'[c] = Tail(inbound[c]) /\ s = c)
                BY <3>2, <1>t
            <4>2. channel'[c] = channel[c] \/ channel'[c] = Append(channel[c], p)
                BY <3>2, <1>t
            <4> QED
                BY <4>1, <4>2, <3>2, <3>5, <1>q, <1>k, HasLemma
        <3> QED
            BY <3>4, <3>5
    <2>2. CASE ~RelayOffer(s)
        <3>1. ~(s = c /\ (\E stage \in Stages : End(s, stage)))
            BY <1>o DEF End
        <3> QED
            BY <1>5, <2>2, <3>1, <1>t, <1>s
            DEF RemoteStep, RemoteInit, InsertPeer, DesktopDisappeared,
                RelayOfferFails, RemoteDisconnects, End, Stages, network
    <2> QED
        BY <2>1, <2>2
\* A client that stays takes its first packet; what concerns r, it passes on.
<1>6. ASSUME NEW d \in Conns, outbound[d] # <<>>, Consume(d), channel' = channel,
             \/ inbound' = inbound
             \/ \E p : inbound' = [inbound EXCEPT ![d] = Append(@, p)],
             d = c => ~Concerns(Head(outbound[d]), r)
      PROVE  OnTheWay(r)'
    <2>1. outbound'[c] = outbound[c] \/ (d = c /\ outbound'[c] = Tail(outbound[c]))
        BY <1>6, <1>t DEF Consume
    <2>2. inbound'[c] = inbound[c] \/ \E p : inbound'[c] = Append(inbound[c], p)
        BY <1>6, <1>t
    <2> QED
        BY <1>6, <2>1, <2>2, <1>q, <1>k, HasLemma
<1>i. \A p \in InitResponse : ~Concerns(p, r)
    BY PacketKinds DEF Concerns
<1>7. ASSUME NEW s \in Remotes, EggStep(s)
      PROVE  OnTheWay(r)'
    <2>1. CASE EggSendsOffer(s)
        <3>1. Head(outbound[s]) \in InitResponse
            BY <2>1, PacketConstructors DEF EggSendsOffer, Receives
        <3> QED
            BY <2>1, <3>1, <1>i, <1>6, <1>t DEF EggSendsOffer, Receives, Send, server
    <2>2. CASE EggTakesAnswer(s) \/ EggFails(s)
        <3>1. s # c
            BY <2>2, <1>o DEF EggTakesAnswer, EggFails, Leave
        <3> QED
            BY <2>2, <3>1, <1>s, <1>t DEF EggTakesAnswer, EggFails, Consume, server
    <2> QED
        BY <1>7, <2>1, <2>2 DEF EggStep
<1>8. ASSUME NEW h \in Homes, DesktopStep(h)
      PROVE  OnTheWay(r)'
    <2>1. CASE DesktopTakesResponse(h)
        BY <2>1, <1>i, <1>6, <1>t DEF DesktopTakesResponse, Receives, server
    <2>2. CASE DesktopAnswers(h)
        <3> DEFINE p == Head(outbound[h])
        <3>1. p \in RemoteOffer /\ outbound[h] # <<>>
            BY <2>2 DEF DesktopAnswers, Receives
        <3>2. CASE h = c /\ Concerns(p, r)
            <4>1. inbound'[c] = Append(inbound[c], Answer(p.peer, p.payload))
                BY <2>2, <3>2, <1>o, <1>t DEF DesktopAnswers, Send
            <4>2. Concerns(Answer(p.peer, p.payload), r)
                BY <3>1, <3>2 DEF Concerns, Answer, RemoteOffer, HomeAnswer
            <4> QED
                BY <4>1, <4>2, <1>q, <1>w, HasLemma
        <3>3. CASE ~(h = c /\ Concerns(p, r))
            BY <2>2, <3>1, <3>3, <1>6, <1>t DEF DesktopAnswers, Send, server
        <3> QED
            BY <3>2, <3>3
    <2> QED
        BY <1>8, <2>1, <2>2 DEF DesktopStep
<1>9. ASSUME NEW d \in Conns, ClientLeaves(d)
      PROVE  OnTheWay(r)'
    <2>1. d # c
        BY <1>9, <1>o DEF ClientLeaves, Leave
    <2> QED
        BY <1>9, <2>1, <1>s, <1>t DEF ClientLeaves, server
<1>10. CASE UNCHANGED vars
    BY <1>10, <1>s DEF vars, server, network
<1> QED
    BY <1>1, <1>2, <1>3, <1>4, <1>5, <1>7, <1>8, <1>9, <1>10 DEF Next, RoosterNext

LossInv == AnswerInv /\ AbsentInv /\ NoPacketIsLost

LEMMA LossStep ==
    ASSUME AnswerInv, AbsentInv, NoPacketIsLost, [Next]_vars
    PROVE  NoPacketIsLost'
<1> SUFFICES ASSUME NEW r \in Remotes, egg'[r] = "waitHomeAnswerResponse"
             PROVE  OnTheWay(r)' \/ Severed(r)'
    BY OnTheWayLemma DEF NoPacketIsLost, Severed
<1>inv. TableInv /\ PacketInv /\ NumberInv /\ ExactInv
    BY DEF AnswerInv
<1>1. CASE egg[r] = "waitHomeAnswerResponse"
    <2>1. CASE Severed(r)
        BY <2>1, <1>inv, LinksClose DEF Severed, Conns
    <2>2. CASE ~Severed(r)
        <3>1. PICK c \in Homes \cup {r} : Holds(c, r)
            BY <1>1, <2>2, OnTheWayLemma DEF NoPacketIsLost, Severed, OnTheWay
        <3>2. CASE link'[c] = "open"
            BY <3>1, <3>2, Holding
        <3>3. CASE link'[c] # "open"
            BY <3>1, <3>3, <1>inv, HolderLemma DEF Severed
        <3> QED
            BY <3>2, <3>3
    <2> QED
        BY <2>1, <2>2
<1>2. CASE egg[r] # "waitHomeAnswerResponse"
    <2>1. EggSendsOffer(r)
        BY <1>2, <1>inv DEF Next, EggStep, EggSendsOffer, EggTakesAnswer, EggFails,
            DesktopStep, DesktopTakesResponse, DesktopAnswers, ClientLeaves, vars, PacketInv
    <2>2. link'[r] = link[r]
        BY <2>1 DEF EggSendsOffer
    <2>3. CASE link[r] = "open"
        <3>1. r \in Conns /\ inbound[r] \in Seq(HandshakePacket)
            BY <1>inv, QueuesTyped DEF Conns
        <3>2. inbound'[r] = Append(inbound[r], Offer(0, r))
            BY <2>1, <2>3, <3>1, <1>inv DEF EggSendsOffer, Send, PacketInv
        <3>3. Concerns(Offer(0, r), r)
            BY PeerIdsLemma DEF Concerns, Offer, RemoteOffer
        <3>4. Has(inbound'[r], r)
            BY <3>1, <3>2, <3>3, HasLemma
        <3> QED
            BY <3>4 DEF OnTheWay, Holds
    <2> QED
        BY <2>2, <2>3 DEF Severed
<1> QED
    BY <1>1, <1>2

\* No offer or answer is lost between connections that last (NoPacketIsLost):
\* handlers of other remotes may fail, and every queue may be handled in any order.
THEOREM PacketsAreNotLost ==
    ASSUME DistinctNames, FewRemotes
    PROVE  Spec => []NoPacketIsLost
<1>1. Init => LossInv
    BY TableInit, PacketInit, NumberInit, ExactInit, AbsentInit
    DEF LossInv, AnswerInv, NoPacketIsLost, Init
<1>2. LossInv /\ [Next]_vars => LossInv'
    BY TableStep, PacketStep, NumberStep, ExactStep, AbsentStep, LossStep
    DEF LossInv, AnswerInv
<1>3. LossInv => NoPacketIsLost
    BY DEF LossInv
<1> QED
    BY <1>1, <1>2, <1>3, PTL DEF Spec
=============================================================================
