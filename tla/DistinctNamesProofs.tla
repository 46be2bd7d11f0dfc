------------------------ MODULE DistinctNamesProofs ------------------------
(***************************************************************************)
(* Theorems about the behaviours of Signalling in which no two desktops    *)
(* use one name.  Each has the distinctness of names as an assumption of   *)
(* its own: the runs over reused names show that it is needed.             *)
(***************************************************************************)
EXTENDS SignallingProofs, FiniteSetTheorems

-----------------------------------------------------------------------------
(***************************************************************************)
(* A desktop that is served can be found.                                  *)
(***************************************************************************)
\* Between InsertDesktop and the end of its handler, the entry of the name is the
\* desktop's own.
ServedHomeIsListed ==
    \A h \in Homes : pc[h] \in {"relaying", "disconnecting"} =>
        /\ desktops[HomeName[h]] # NoDesktop
        /\ desktops[HomeName[h]].home = h

ListedInv == ServedHomeIsListed /\ NoPanic

LEMMA ListedInit == Init => ListedInv
BY DEF Init, RoosterInit, ListedInv, ServedHomeIsListed, NoPanic, Conns

LEMMA ListedStep ==
    ASSUME DistinctNames, TableInv, ListedInv, [Next]_vars
    PROVE  ListedInv'
<1> USE DEF Goto
<1>t. /\ pc \in [Conns -> Stages]
      /\ desktops \in [Names -> DesktopAndPeers \cup {NoDesktop}]
      /\ Remotes \subseteq Conns /\ Homes \subseteq Conns
      /\ \A c \in Conns : HomeName[c] \in Names
      /\ \A h \in Homes : h \notin Remotes
    BY ConnsAssumption DEF TableInv, TableTypeOK, Conns
<1>1. ASSUME UNCHANGED desktops, NEW c \in Conns,
             \/ pc' = pc
             \/ \E stage \in Stages \ {"relaying", "panicked"} :
                   /\ pc' = [pc EXCEPT ![c] = stage]
                   /\ stage = "disconnecting" => pc[c] = "relaying"
      PROVE  ListedInv'
    BY <1>t, <1>1 DEF ListedInv, ServedHomeIsListed, NoPanic, Stages
<1>2. ASSUME NEW c \in Conns, ConnectStep(c) \/ RespondStep(c)
                              \/ ForwardStep(c) \/ ReadEndStep(c)
      PROVE  ListedInv'
    <2>1. UNCHANGED desktops
        BY <1>2 DEF ConnectStep, Accept, HandshakeFails, RespondStep, SendRefusal,
            SendGrant, SendResponseFails, ForwardStep, Forward, ForwardFails,
            ChannelEnds, ReadEndStep, ReadEnds, ReadFails
    <2>2. \/ pc' = pc
          \/ \E stage \in {"closed", "handshake", "registering"} :
                   pc' = [pc EXCEPT ![c] = stage]
          \/ pc[c] = "relaying" /\ pc' = [pc EXCEPT ![c] = "disconnecting"]
        BY <1>2 DEF ConnectStep, Accept, HandshakeFails, RespondStep, SendRefusal,
            SendGrant, SendResponseFails, ForwardStep, Forward, ForwardFails,
            ChannelEnds, ReadEndStep, ReadEnds, ReadFails, End
    <2> QED
        BY <1>1, <2>1, <2>2 DEF Stages
<1>3. ASSUME AcceptFails
      PROVE  ListedInv'
    BY <1>t, <1>3 DEF AcceptFails, ListedInv, ServedHomeIsListed, NoPanic
<1>4. ASSUME NEW h \in Homes, HomeStep(h)
      PROVE  ListedInv'
    <2>1. CASE HomeInit(h) \/ RelayAnswer(h) \/ RelayAnswerFails(h)
        <3>1. /\ UNCHANGED desktops
              /\ \/ pc' = pc
                 \/ \E stage \in {"closed", "refusing", "granting"} :
                       pc' = [pc EXCEPT ![h] = stage]
            BY <2>1 DEF HomeInit, RelayAnswer, RelayAnswerFails, End
        <3> QED
            BY <1>t, <1>1, <3>1 DEF Stages
    <2>2. CASE RelayAnswerPanics(h)
        BY <1>t, <2>2
        DEF RelayAnswerPanics, AnswerArrives, Registered, ListedInv, ServedHomeIsListed
    <2>3. CASE InsertDesktop(h)
        <3>1. New(h).home = h /\ New(h) \in DesktopAndPeers
            BY PeerIdsLemma DEF New, DesktopAndPeers
        <3> QED
            BY <1>t, <2>3, <3>1, ConnsAssumption
            DEF InsertDesktop, ListedInv, ServedHomeIsListed, NoPanic,
                DistinctNames, SameName
    <2>4. CASE HomeDisconnects(h)
        BY <1>t, <2>4
        DEF HomeDisconnects, End, ListedInv, ServedHomeIsListed, NoPanic,
            DistinctNames, SameName
    <2> QED
        BY <1>4, <2>1, <2>2, <2>3, <2>4 DEF HomeStep
<1>5. ASSUME NEW r \in Remotes, RemoteStep(r)
      PROVE  ListedInv'
    <2>1. CASE RemoteInit(r) \/ DesktopDisappeared(r) \/ RelayOffer(r)
                  \/ RelayOfferFails(r)
        <3>1. /\ UNCHANGED desktops
              /\ \/ pc' = pc
                 \/ \E stage \in {"closed", "refusing", "granting"} :
                       pc' = [pc EXCEPT ![r] = stage]
            BY <2>1 DEF RemoteInit, DesktopDisappeared, RelayOffer, RelayOfferFails, End
        <3> QED
            BY <1>t, <1>1, <3>1 DEF Stages
    <2>2. CASE InsertPeer(r) \/ RemoteDisconnects(r)
        <3>1. /\ \E stage \in Stages : pc' = [pc EXCEPT ![r] = stage]
              /\ \A n \in Names : desktops[n] # NoDesktop =>
                    /\ desktops'[n].home = desktops[n].home
                    /\ desktops'[n] # NoDesktop
            <4>1. \E stage \in Stages : pc' = [pc EXCEPT ![r] = stage]
                BY <2>2 DEF InsertPeer, RemoteDisconnects, End, Stages
            <4>2. ASSUME NEW n \in Names, desktops[n] # NoDesktop
                  PROVE  /\ desktops'[n].home = desktops[n].home
                         /\ desktops'[n] \in DesktopAndPeers
                <5>1. desktops[n] \in DesktopAndPeers
                    BY <1>t, <4>2
                <5>2. \/ desktops'[n] = desktops[n]
                      \/ desktops'[n] = InsertPeerIn(desktops[n], r)
                      \/ /\ desktops'[n] = RemovePeerFrom(desktops[n], peerId[r])
                         /\ peerId[r] \in PeerIds
                    BY <1>t, <2>2
                    DEF InsertPeer, RemoteDisconnects, TableInv, RemotesNumbered
                <5>3. /\ InsertPeerIn(desktops[n], r) \in DesktopAndPeers
                      /\ InsertPeerIn(desktops[n], r).home = desktops[n].home
                    BY <5>1, PeerIdsLemma DEF InsertPeerIn, DesktopAndPeers
                <5>4. peerId[r] \in PeerIds =>
                      /\ RemovePeerFrom(desktops[n], peerId[r]) \in DesktopAndPeers
                      /\ RemovePeerFrom(desktops[n], peerId[r]).home = desktops[n].home
                    BY <5>1 DEF RemovePeerFrom, DesktopAndPeers
                <5> QED
                    BY <5>1, <5>2, <5>3, <5>4
            <4> QED
                BY <4>1, <4>2, ConnsAssumption
        <3> QED
            BY <1>t, <3>1 DEF ListedInv, ServedHomeIsListed, NoPanic
    <2> QED
        BY <1>5, <2>1, <2>2 DEF RemoteStep
<1>6. ASSUME UNCHANGED server
      PROVE  ListedInv'
    BY <1>6 DEF ListedInv, ServedHomeIsListed, NoPanic, server
<1> QED
    BY <1>2, <1>3, <1>4, <1>5, <1>6
    DEF Next, RoosterNext, EggStep, EggSendsOffer, EggTakesAnswer, EggFails,
        DesktopStep, DesktopTakesResponse, DesktopAnswers, ClientLeaves, vars

\* With a name per desktop, the unwrap in the relay of answers never fails.
THEOREM HomeNeverPanics == ASSUME DistinctNames PROVE Spec => []NoPanic
<1>1. TableInv /\ ListedInv /\ [Next]_vars => ListedInv'
    BY ListedStep
<1>2. ListedInv => NoPanic
    BY DEF ListedInv
<1> QED
    BY <1>1, <1>2, TableInit, TableStep, ListedInit, PTL DEF Spec

\* With a name per desktop, a desktop whose handler relays holds its entry, so
\* that remotes find it.
THEOREM HomeStaysListed == ASSUME DistinctNames PROVE Spec => []RelayingHomeIsListed
<1>1. TableInv /\ ListedInv /\ [Next]_vars => ListedInv'
    BY ListedStep
<1>2. ListedInv => RelayingHomeIsListed
    BY DEF ListedInv, ServedHomeIsListed, RelayingHomeIsListed, SenderAlive, Registered
<1> QED
    BY <1>1, <1>2, TableInit, TableStep, ListedInit, PTL DEF Spec

-----------------------------------------------------------------------------
(***************************************************************************)
(* The numbers that insert_peer hands out, when fewer remotes connect than *)
(* a peer number has values.                                               *)
(***************************************************************************)
FewRemotes == IsFiniteSet(Remotes) /\ Cardinality(Remotes) < IdModulus

Numbered(n) == {r \in Remotes : HomeName[r] = n /\ peerId[r] # NoPeer}

\* The desktop is past the insertion of its entry, and will not insert another.
Fresh == {"absent", "handshake", "refusing", "granting", "registering"}

Inserted(h) == pc[h] \notin Fresh

\* A remote is numbered after its desktop's only insertion; the counter of an entry
\* counts the remotes numbered so far, whose numbers are below it and differ.
NumberInv ==
    /\ \A r \in Remotes : peerId[r] # NoPeer =>
          \E h \in Homes : SameName(h, r) /\ Inserted(h)
    /\ \A n \in Names : desktops[n] # NoDesktop =>
          /\ Inserted(desktops[n].home)
          /\ desktops[n].counter = Cardinality(Numbered(n))
          /\ \A r \in Numbered(n) : peerId[r] < desktops[n].counter
    /\ \A r, s \in Remotes :
          SameName(r, s) /\ peerId[r] = peerId[s] /\ peerId[r] # NoPeer => r = s

LEMMA NumberInit == Init => NumberInv
BY DEF Init, RoosterInit, NumberInv

\* Steps that number nobody: tasks only move on, entries only go or lose peers.
LEMMA NumbersUnchanged ==
    ASSUME NumberInv, UNCHANGED peerId,
           \A h \in Homes : Inserted(h) => Inserted(h)',
           \A n \in Names : desktops'[n] # NoDesktop =>
               /\ desktops[n] # NoDesktop
               /\ desktops'[n].home = desktops[n].home
               /\ desktops'[n].counter = desktops[n].counter,
           TableInv
    PROVE  NumberInv'
<1>1. \A n : Numbered(n)' = Numbered(n)
    BY DEF Numbered
<1>2. \A n \in Names : desktops[n] # NoDesktop => desktops[n].home \in Homes
    BY DEF TableInv, TableTypeOK, DesktopAndPeers
<1> QED
    BY <1>1, <1>2 DEF NumberInv, SameName

LEMMA NumberStep ==
    ASSUME DistinctNames, FewRemotes, TableInv, NumberInv, [Next]_vars
    PROVE  NumberInv'
<1> USE DEF Goto
<1>t. /\ pc \in [Conns -> Stages]
      /\ desktops \in [Names -> DesktopAndPeers \cup {NoDesktop}]
      /\ peerId \in [Remotes -> PeerIds \cup {NoPeer}]
      /\ Remotes \subseteq Conns /\ Homes \subseteq Conns
      /\ \A c \in Conns : HomeName[c] \in Names
      /\ \A h \in Homes : h \notin Remotes
    BY ConnsAssumption DEF TableInv, TableTypeOK, Conns
<1>1. ASSUME NEW c \in Conns, ConnectStep(c) \/ RespondStep(c)
                              \/ ForwardStep(c) \/ ReadEndStep(c)
      PROVE  NumberInv'
    <2>1. UNCHANGED <<desktops, peerId>>
        BY <1>1 DEF ConnectStep, Accept, HandshakeFails, RespondStep, SendRefusal,
            SendGrant, SendResponseFails, ForwardStep, Forward, ForwardFails,
            ChannelEnds, ReadEndStep, ReadEnds, ReadFails
    <2>2. \/ pc' = pc
          \/ pc' = [pc EXCEPT ![c] = "closed"]
          \/ /\ pc[c] \in {"absent", "granting"}
             /\ \E stage \in {"handshake", "registering"} :
                   pc' = [pc EXCEPT ![c] = stage]
          \/ pc' = [pc EXCEPT ![c] = "disconnecting"]
        BY <1>1 DEF ConnectStep, Accept, HandshakeFails, RespondStep, SendRefusal,
            SendGrant, SendResponseFails, ForwardStep, Forward, ForwardFails,
            ChannelEnds, ReadEndStep, ReadEnds, ReadFails, End
    <2>3. \A h \in Homes : Inserted(h) => Inserted(h)'
        BY <1>t, <2>2 DEF Inserted, Fresh
    <2> QED
        BY <2>1, <2>3, NumbersUnchanged
<1>2. ASSUME AcceptFails
      PROVE  NumberInv'
    <2>1. \A h \in Homes : Inserted(h) => Inserted(h)'
        BY <1>t, <1>2 DEF AcceptFails, Inserted, Fresh
    <2> QED
        BY <1>2, <2>1, NumbersUnchanged DEF AcceptFails
<1>3. ASSUME NEW h \in Homes, HomeStep(h)
      PROVE  NumberInv'
    <2>1. CASE ~InsertDesktop(h)
        <3>1. /\ UNCHANGED peerId
              /\ \/ UNCHANGED desktops
                 \/ desktops' = [desktops EXCEPT ![HomeName[h]] = NoDesktop]
            BY <1>3, <2>1 DEF HomeStep, HomeInit, RelayAnswer, RelayAnswerFails,
                RelayAnswerPanics, HomeDisconnects
        <3>2. \/ pc' = pc
              \/ /\ pc[h] = "handshake"
                 /\ \E stage \in {"refusing", "granting"} :
                       pc' = [pc EXCEPT ![h] = stage]
              \/ \E stage \in {"closed", "panicked"} : pc' = [pc EXCEPT ![h] = stage]
            BY <1>3, <2>1 DEF HomeStep, HomeInit, RelayAnswer, RelayAnswerFails,
                RelayAnswerPanics, HomeDisconnects, End
        <3>3. \A g \in Homes : Inserted(g) => Inserted(g)'
            BY <1>t, <3>2 DEF Inserted, Fresh
        <3> QED
            BY <1>t, <3>1, <3>3, NumbersUnchanged
    <2>2. CASE InsertDesktop(h)
        <3> DEFINE n == HomeName[h]
        <3>1. /\ desktops' = [desktops EXCEPT ![n] = New(h)]
              /\ pc' = [pc EXCEPT ![h] = "relaying"] /\ peerId' = peerId
              /\ ~Inserted(h) /\ n \in Names
            BY <1>t, <2>2 DEF InsertDesktop, Inserted, Fresh
        <3>2. New(h).home = h /\ New(h).counter = 0
            BY DEF New
        <3>3. Numbered(n) = {}
            BY <1>t, <3>1 DEF Numbered, NumberInv, SameName, DistinctNames
        <3>4. \A m : Numbered(m)' = Numbered(m)
            BY <3>1 DEF Numbered
        <3>5. \A g \in Homes : Inserted(g) => Inserted(g)'
            BY <1>t, <3>1 DEF Inserted, Fresh
        <3>6. Inserted(h)'
            BY <1>t, <3>1 DEF Inserted, Fresh
        <3>7. \A m \in Names : desktops'[m] # NoDesktop =>
                 /\ Inserted(desktops[m].home)'
                 /\ desktops'[m].counter = Cardinality(Numbered(m))
                 /\ \A r \in Numbered(m) : peerId[r] < desktops'[m].counter
            <4> SUFFICES ASSUME NEW m \in Names, desktops'[m] # NoDesktop
                         PROVE  /\ Inserted(desktops[m].home)'
                                /\ desktops'[m].counter = Cardinality(Numbered(m))
                                /\ \A r \in Numbered(m) : peerId[r] < desktops'[m].counter
                OBVIOUS
            <4>1. CASE m = n
                <5>1. desktops'[m].home = h /\ desktops'[m].counter = 0
                    BY <1>t, <3>1, <3>2, <4>1
                <5>2. Inserted(desktops[m].home)'
                    BY <1>t, <3>1, <5>1 DEF Inserted, Fresh
                <5> QED
                    BY <3>3, <4>1, <5>1, <5>2, FS_EmptySet
            <4>2. CASE m # n
                <5>1. desktops'[m] = desktops[m] /\ desktops[m].home \in Homes
                    BY <1>t, <3>1, <4>2 DEF DesktopAndPeers
                <5>2. Inserted(desktops[m].home)'
                    BY <1>t, <3>1, <5>1 DEF NumberInv, Inserted, Fresh
                <5> QED
                    BY <3>1, <5>1, <5>2 DEF NumberInv
            <4> QED
                BY <4>1, <4>2
        <3> QED
            BY <3>1, <3>4, <3>5, <3>7 DEF NumberInv, SameName
    <2> QED
        BY <2>1, <2>2
<1>4. ASSUME NEW r \in Remotes, RemoteStep(r)
      PROVE  NumberInv'
    <2>1. CASE ~InsertPeer(r)
        <3>1. \/ pc' = pc
              \/ \E stage \in Stages : pc' = [pc EXCEPT ![r] = stage]
            BY <1>4, <2>1 DEF RemoteStep, RemoteInit, DesktopDisappeared, RelayOffer,
                RelayOfferFails, RemoteDisconnects, End, Stages
        <3>2. \A g \in Homes : Inserted(g) => Inserted(g)'
            BY <1>t, <3>1 DEF Inserted, Fresh
        <3>3. /\ UNCHANGED peerId
              /\ \A n \in Names : desktops'[n] # NoDesktop =>
                    /\ desktops[n] # NoDesktop
                    /\ desktops'[n].home = desktops[n].home
                    /\ desktops'[n].counter = desktops[n].counter
            <4>1. CASE RemoteDisconnects(r) /\ Registered(r)
                <5>1. /\ desktops[HomeName[r]] \in DesktopAndPeers
                      /\ desktops' = [desktops EXCEPT ![HomeName[r]] =
                                     RemovePeerFrom(desktops[HomeName[r]], peerId[r])]
                      /\ UNCHANGED peerId
                      /\ HomeName[r] \in Names
                    BY <1>t, <4>1 DEF RemoteDisconnects, Registered
                <5>2. \A d \in DesktopAndPeers : \A id :
                         /\ RemovePeerFrom(d, id).home = d.home
                         /\ RemovePeerFrom(d, id).counter = d.counter
                    BY DEF RemovePeerFrom, DesktopAndPeers
                <5> QED
                    BY <1>t, <4>1, <5>1, <5>2 DEF Registered
            <4>2. CASE ~(RemoteDisconnects(r) /\ Registered(r))
                BY <1>4, <2>1, <4>2 DEF RemoteStep, RemoteInit, DesktopDisappeared,
                    RelayOffer, RelayOfferFails, RemoteDisconnects
            <4> QED
                BY <4>1, <4>2
        <3> QED
            BY <3>2, <3>3, NumbersUnchanged
    <2>2. CASE InsertPeer(r)
        <3> DEFINE n == HomeName[r]
                   id == desktops[n].counter
        <3>1. /\ desktops[n] \in DesktopAndPeers /\ desktops[n] # NoDesktop
              /\ id \in PeerIds /\ id \in Nat /\ id # NoPeer
              /\ peerId[r] = NoPeer
              /\ n \in Names
            BY <1>t, <2>2, PeerIdsLemma, ConnsAssumption
            DEF InsertPeer, Registered, DesktopAndPeers, TableInv, RemotesNumbered
        <3>2. /\ desktops' = [desktops EXCEPT ![n] = InsertPeerIn(desktops[n], r)]
              /\ peerId' = [peerId EXCEPT ![r] = id]
              /\ pc' = [pc EXCEPT ![r] = "relaying"]
            BY <1>t, <2>2 DEF InsertPeer
        <3>3. /\ Numbered(n)' = Numbered(n) \cup {r}
              /\ r \notin Numbered(n)
              /\ \A m : m # n => Numbered(m)' = Numbered(m)
            BY <1>t, <3>1, <3>2 DEF Numbered
        <3>4. id = Cardinality(Numbered(n)) /\ IsFiniteSet(Numbered(n))
            BY <3>1, FS_Subset DEF NumberInv, FewRemotes, Numbered
        <3>5. Cardinality(Numbered(n)') = id + 1
            BY <3>3, <3>4, FS_AddElement
        <3>6. id + 1 < IdModulus
            <4>1. Numbered(n)' \subseteq Remotes
                BY DEF Numbered
            <4>2. /\ Cardinality(Numbered(n)') <= Cardinality(Remotes)
                  /\ Cardinality(Remotes) \in Nat
                BY <4>1, FS_Subset, FS_CardinalityType DEF FewRemotes
            <4> QED
                BY <3>1, <3>5, <4>2, IdModulusAssumption DEF FewRemotes
        <3>7. /\ InsertPeerIn(desktops[n], r).home = desktops[n].home
              /\ InsertPeerIn(desktops[n], r).counter = id + 1
            <4>1. (id + 1) % IdModulus = id + 1
                BY <3>1, <3>6, IdModulusAssumption
            <4> QED
                BY <3>1, <4>1 DEF InsertPeerIn, DesktopAndPeers
        <3>8. \A g \in Homes : Inserted(g)' = Inserted(g)
            BY <1>t, <3>2 DEF Inserted, Fresh
        <3>9. /\ desktops[n].home \in Homes
              /\ SameName(desktops[n].home, r)
              /\ Inserted(desktops[n].home)
            BY <3>1 DEF NumberInv, TableInv, PeerTableSound, DesktopAndPeers, SameName
        <3>10. \A s \in Remotes : peerId'[s] # NoPeer =>
                  \E h \in Homes : SameName(h, s) /\ Inserted(h)'
            BY <1>t, <3>2, <3>8, <3>9 DEF NumberInv
        <3>11. \A s \in Numbered(n) : peerId[s] \in Nat /\ peerId[s] < id
            BY <1>t, <3>1, PeerIdsLemma DEF NumberInv, Numbered
        <3>12. \A s, u \in Remotes :
                  SameName(s, u) /\ peerId'[s] = peerId'[u] /\ peerId'[s] # NoPeer => s = u
            <4>1. \A s \in Remotes : s # r /\ SameName(s, r) => peerId[s] # id
                <5> SUFFICES ASSUME NEW s \in Remotes, s # r, SameName(s, r),
                                    peerId[s] = id
                             PROVE  FALSE
                    OBVIOUS
                <5>1. s \in Numbered(n)
                    BY <3>1 DEF Numbered, SameName
                <5> QED
                    BY <3>1, <3>11, <5>1
            <4> QED
                BY <1>t, <3>2, <4>1 DEF NumberInv, SameName
        <3>13. \A m \in Names : desktops'[m] # NoDesktop =>
                  /\ Inserted(desktops[m].home)'
                  /\ desktops'[m].counter = Cardinality(Numbered(m)')
                  /\ \A s \in Numbered(m)' : peerId'[s] < desktops'[m].counter
            <4> SUFFICES ASSUME NEW m \in Names, desktops'[m] # NoDesktop
                         PROVE  /\ Inserted(desktops[m].home)'
                                /\ desktops'[m].counter = Cardinality(Numbered(m)')
                                /\ \A s \in Numbered(m)' : peerId'[s] < desktops'[m].counter
                OBVIOUS
            <4>1. CASE m = n
                <5>1. /\ desktops'[m].home = desktops[n].home
                      /\ desktops'[m].counter = id + 1
                    BY <1>t, <3>1, <3>2, <3>7, <4>1
                <5>2. \A s \in Numbered(m)' : peerId'[s] < id + 1
                    BY <1>t, <3>1, <3>2, <3>3, <3>11, <4>1
                <5>3. Inserted(desktops[m].home)'
                    BY <1>t, <3>2, <3>9, <5>1 DEF Inserted, Fresh
                <5> QED
                    BY <3>5, <4>1, <5>1, <5>2, <5>3
            <4>2. CASE m # n
                <5>1. desktops'[m] = desktops[m] /\ desktops[m].home \in Homes
                    BY <1>t, <3>2, <4>2 DEF DesktopAndPeers
                <5>2. \A s \in Numbered(m) : s # r
                    BY <4>2 DEF Numbered
                <5>3. \A s \in Numbered(m) : s \in Remotes /\ peerId'[s] = peerId[s]
                    BY <1>t, <3>2, <5>2 DEF Numbered
                <5>4. Inserted(desktops[m].home)'
                    BY <1>t, <3>2, <5>1 DEF NumberInv, Inserted
                <5> QED
                    BY <3>1, <3>3, <4>2, <5>1, <5>3, <5>4 DEF NumberInv
            <4> QED
                BY <4>1, <4>2
        <3> QED
            BY <3>10, <3>12, <3>13 DEF NumberInv, SameName
    <2> QED
        BY <2>1, <2>2
<1>5. ASSUME UNCHANGED server
      PROVE  NumberInv'
    BY <1>5, NumbersUnchanged DEF server, Inserted
<1> QED
    BY <1>1, <1>2, <1>3, <1>4, <1>5
    DEF Next, RoosterNext, EggStep, EggSendsOffer, EggTakesAnswer, EggFails,
        DesktopStep, DesktopTakesResponse, DesktopAnswers, ClientLeaves, vars

\* While fewer remotes connect than a u32 has values, remotes that wait at one
\* desktop have different numbers, whatever was removed before.
THEOREM PeerIdsAreUnique ==
    ASSUME DistinctNames, FewRemotes
    PROVE  Spec => []PeerIdsUnique
<1>1. TableInv /\ NumberInv /\ [Next]_vars => NumberInv'
    BY NumberStep
<1>2. TableInv /\ NumberInv => PeerIdsUnique
    BY ConnsAssumption DEF TableInv, RemotesNumbered, NumberInv, PeerIdsUnique
<1> QED
    BY <1>1, <1>2, TableInit, TableStep, NumberInit, PTL DEF Spec

-----------------------------------------------------------------------------
(***************************************************************************)
(* The number of an answer finds the remote that it answers, when fewer    *)
(* remotes connect than a peer number has values besides: no other egg     *)
(* gets the answer, and the desktop's handler ends over it only if that    *)
(* remote has gone.                                                        *)
(***************************************************************************)
\* On a desktop's connection an offer or answer has the number of the remote it
\* concerns; on a remote's connection it concerns that remote.
Exact(c) == {p \in RemoteOffer \cup HomeAnswer :
                IF c \in Homes THEN p.peer = peerId[p.payload] ELSE p.payload = c}

ExactInv ==
    \A c \in Conns : /\ inbound[c] \in Seq(Exact(c))
                     /\ channel[c] \in Seq(Exact(c))
                     /\ outbound[c] \in Seq(Exact(c) \cup InitResponse)

AnswerInv == TableInv /\ PacketInv /\ NumberInv /\ ExactInv

LEMMA ExactInit == Init => ExactInv
BY DEF Init, RoosterInit, ExactInv

\* Numbers are given once, so a packet that was exact stays exact.
NumbersKept == \A r \in Remotes : peerId[r] # NoPeer => peerId'[r] = peerId[r]

LEMMA ExactMonotone ==
    ASSUME NumbersKept, NEW c \in Conns
    PROVE  Exact(c) \subseteq Exact(c)'
<1>1. \A p \in RemoteOffer \cup HomeAnswer : p.payload \in Remotes /\ p.peer # NoPeer
    BY ConnsAssumption DEF RemoteOffer, HomeAnswer
<1> QED
    BY <1>1 DEF NumbersKept, Exact

\* Each queue of a kind stays, or one is replaced by another of exact packets.
Kept(queue, queueNext) ==
    \/ queueNext = queue
    \/ \E c \in Conns : \E q \in Seq(Exact(c)) : queueNext = [queue EXCEPT ![c] = q]

KeptOut ==
    \/ outbound' = outbound
    \/ \E c \in Conns : \E q \in Seq(Exact(c) \cup InitResponse) :
          outbound' = [outbound EXCEPT ![c] = q]

LEMMA ExactPreserved ==
    ASSUME PacketInv, ExactInv, NumbersKept,
           Kept(inbound, inbound'), Kept(channel, channel'), KeptOut
    PROVE  ExactInv'
<1> SUFFICES ASSUME NEW c \in Conns
             PROVE  /\ inbound'[c] \in Seq(Exact(c)')
                    /\ channel'[c] \in Seq(Exact(c)')
                    /\ outbound'[c] \in Seq(Exact(c)' \cup InitResponse)
    BY DEF ExactInv
<1>1. /\ Seq(Exact(c)) \subseteq Seq(Exact(c)')
      /\ Seq(Exact(c) \cup InitResponse) \subseteq Seq(Exact(c)' \cup InitResponse)
    BY ExactMonotone, SeqMonotone
<1>2. inbound'[c] \in Seq(Exact(c))
    BY DEF Kept, PacketInv, ExactInv
<1>3. channel'[c] \in Seq(Exact(c))
    BY DEF Kept, PacketInv, ExactInv
<1>4. outbound'[c] \in Seq(Exact(c) \cup InitResponse)
    BY DEF KeptOut, PacketInv, ExactInv
<1> QED
    BY <1>1, <1>2, <1>3, <1>4

LEMMA ExactTake ==
    ASSUME ExactInv, NEW c \in Conns
    PROVE  /\ inbound[c] # <<>> =>
                /\ Head(inbound[c]) \in Exact(c)
                /\ inbound' = [inbound EXCEPT ![c] = Tail(@)] => Kept(inbound, inbound')
           /\ channel[c] # <<>> =>
                /\ Head(channel[c]) \in Exact(c)
                /\ channel' = [channel EXCEPT ![c] = Tail(@)] => Kept(channel, channel')
           /\ outbound[c] # <<>> =>
                /\ Head(outbound[c]) \in Exact(c) \cup InitResponse
                /\ outbound' = [outbound EXCEPT ![c] = Tail(@)] => KeptOut
<1>1. inbound[c] # <<>> => /\ Head(inbound[c]) \in Exact(c)
                           /\ Tail(inbound[c]) \in Seq(Exact(c))
    BY QueueLemma DEF ExactInv
<1>2. channel[c] # <<>> => /\ Head(channel[c]) \in Exact(c)
                           /\ Tail(channel[c]) \in Seq(Exact(c))
    BY QueueLemma DEF ExactInv
<1>3. outbound[c] # <<>> =>
         /\ Head(outbound[c]) \in Exact(c) \cup InitResponse
         /\ Tail(outbound[c]) \in Seq(Exact(c) \cup InitResponse)
    BY QueueLemma DEF ExactInv
<1> QED
    BY <1>1, <1>2, <1>3 DEF Kept, KeptOut

LEMMA ExactSend ==
    ASSUME ExactInv, NEW c \in Conns, NEW p \in Exact(c)
    PROVE  /\ inbound' = [inbound EXCEPT ![c] = Append(@, p)] => Kept(inbound, inbound')
           /\ channel' = [channel EXCEPT ![c] = Append(@, p)] => Kept(channel, channel')
<1>1. /\ Append(inbound[c], p) \in Seq(Exact(c))
      /\ Append(channel[c], p) \in Seq(Exact(c))
    BY QueueLemma DEF ExactInv
<1> QED
    BY <1>1 DEF Kept

LEMMA ExactWrite ==
    ASSUME ExactInv, NEW c \in Conns, NEW p \in Exact(c) \cup InitResponse, Write(c, p)
    PROVE  KeptOut
<1>1. Append(outbound[c], p) \in Seq(Exact(c) \cup InitResponse)
    BY QueueLemma DEF ExactInv
<1> QED
    BY <1>1 DEF Write, KeptOut

LEMMA ExactEnd ==
    ASSUME NEW c \in Conns, NEW stage, End(c, stage)
    PROVE  Kept(inbound, inbound') /\ Kept(channel, channel')
<1>1. <<>> \in Seq(Exact(c))
    BY QueueLemma
<1> QED
    BY <1>1 DEF End, Kept

LEMMA NumbersStep == ASSUME TableInv, [Next]_vars PROVE NumbersKept
<1>1. ASSUME NEW r \in Remotes, InsertPeer(r)
      PROVE  NumbersKept
    <2>1. peerId[r] = NoPeer
        BY <1>1 DEF InsertPeer, TableInv, RemotesNumbered
    <2> QED
        BY <1>1, <2>1 DEF InsertPeer, TableInv, TableTypeOK, NumbersKept
<1>2. ASSUME \A r \in Remotes : ~InsertPeer(r)
      PROVE  UNCHANGED peerId
    BY <1>2 DEF Next, RoosterNext, AcceptFails, ConnectStep, Accept, HandshakeFails,
        RespondStep, SendRefusal, SendGrant, SendResponseFails, ForwardStep, Forward,
        ForwardFails, ChannelEnds, ReadEndStep, ReadEnds, ReadFails, HomeStep,
        HomeInit, InsertDesktop, HomeDisconnects, RelayAnswer, RelayAnswerFails,
        RelayAnswerPanics, RemoteStep, RemoteInit, DesktopDisappeared, RelayOffer,
        RelayOfferFails, RemoteDisconnects, EggStep, EggSendsOffer, EggTakesAnswer,
        EggFails, DesktopStep, DesktopTakesResponse, DesktopAnswers, ClientLeaves,
        vars, server
<1> QED
    BY <1>1, <1>2 DEF NumbersKept

\* The peer that an answer is addressed to is the remote that it answers.
LEMMA AnswerFindsOfferer ==
    ASSUME TableInv, PacketInv, NumberInv, ExactInv, NEW h \in Homes,
           AnswerArrives(h), Registered(h), AddressedPeer(h) # NoPeer
    PROVE  /\ Head(inbound[h]) \in Exact(h)
           /\ Head(inbound[h]) \in HomeAnswer
           /\ AddressedPeer(h) \in Remotes
           /\ AddressedPeer(h) = Head(inbound[h]).payload
<1> DEFINE p == Head(inbound[h])
           r == AddressedPeer(h)
           n == HomeName[h]
<1>1. h \in Conns /\ n \in Names
    BY ConnsAssumption DEF Conns
<1>2. p \in HomeAnswer /\ SameName(h, p.payload) /\ p \in Exact(h)
    BY <1>1, TakeLemma, ExactTake DEF AnswerArrives, FromClient
<1>3. p.peer \in PeerIds /\ p.payload \in Remotes /\ p.peer = peerId[p.payload]
    BY <1>2 DEF HomeAnswer, Exact
<1>4. /\ desktops[n] # NoDesktop
      /\ r = desktops[n].peers[p.peer] /\ r # NoPeer
      /\ desktops[n].peers \in [PeerIds -> Remotes \cup {NoPeer}]
    BY <1>1 DEF Registered, AddressedPeer, TableInv, TableTypeOK, DesktopAndPeers
<1>5. \A id \in PeerIds : desktops[n].peers[id] # NoPeer =>
         /\ HomeName[desktops[n].peers[id]] = n
         /\ peerId[desktops[n].peers[id]] = id
    BY <1>1, <1>4 DEF TableInv, PeerTableSound
<1> HIDE DEF p, r, n
<1>6. r \in Remotes /\ HomeName[r] = n /\ peerId[r] = p.peer
    BY <1>3, <1>4, <1>5
<1>7. r = p.payload
    <2>1. SameName(r, p.payload)
        BY <1>2, <1>6 DEF SameName, n
    <2>2. peerId[r] # NoPeer
        BY <1>3, <1>6, ConnsAssumption
    <2> QED
        BY <1>3, <1>6, <2>1, <2>2 DEF NumberInv
<1> QED
    BY <1>2, <1>6, <1>7 DEF p, r

LEMMA ExactRelayAnswer ==
    ASSUME TableInv, PacketInv, NumberInv, ExactInv, NEW h \in Homes, RelayAnswer(h)
    PROVE  Kept(channel, channel')
<1>1. /\ Head(inbound[h]) \in HomeAnswer
      /\ AddressedPeer(h) \in Remotes /\ AddressedPeer(h) = Head(inbound[h]).payload
    BY AnswerFindsOfferer DEF RelayAnswer
<1>2. AddressedPeer(h) \in Conns /\ Head(inbound[h]) \in Exact(AddressedPeer(h))
    BY <1>1, ConnsAssumption DEF Exact, Conns
<1> QED
    BY <1>2, ExactSend DEF RelayAnswer

\* The relay of an offer: the number filled in is the remote's own.
LEMMA ExactRelayOffer ==
    ASSUME TableInv, PacketInv, ExactInv, NEW r \in Remotes, RelayOffer(r)
    PROVE  Kept(channel, channel')
<1> DEFINE p == Head(inbound[r])
           h == AddressedHome(r)
<1>1. r \in Conns /\ HomeName[r] \in Names
    BY ConnsAssumption DEF Conns
<1>2. p \in RemoteOffer /\ p.payload = r
    BY <1>1, TakeLemma, ConnsAssumption DEF RelayOffer, OfferArrives, FromClient
<1>3. peerId[r] \in PeerIds /\ desktops[HomeName[r]] \in DesktopAndPeers
    BY <1>1 DEF RelayOffer, OfferArrives, Registered, TableInv, TableTypeOK,
        RemotesNumbered
<1>4. h \in Homes
    BY <1>3 DEF AddressedHome, DesktopAndPeers
<1>5. FilledIn(p, r) \in RemoteOffer /\ FilledIn(p, r).payload = r
                                     /\ FilledIn(p, r).peer = peerId[r]
    BY <1>2, <1>3 DEF FilledIn, RemoteOffer
<1>6. FilledIn(p, r) \in Exact(h) /\ h \in Conns
    BY <1>4, <1>5 DEF Exact, Conns
<1> QED
    BY <1>6, ExactSend DEF RelayOffer

LEMMA ExactStep ==
    ASSUME TableInv, PacketInv, NumberInv, ExactInv, [Next]_vars
    PROVE  ExactInv'
<1>t. /\ Homes \subseteq Conns /\ Remotes \subseteq Conns
      /\ NumbersKept
      /\ UNCHANGED inbound => Kept(inbound, inbound')
      /\ UNCHANGED channel => Kept(channel, channel')
      /\ UNCHANGED outbound => KeptOut
    BY NumbersStep DEF Conns, Kept, KeptOut
<1>1. ASSUME AcceptFails
      PROVE  ExactInv'
    <2>1. \A c \in Conns :
             /\ <<>> \in Seq(Exact(c)')
             /\ Seq(Exact(c) \cup InitResponse) \subseteq Seq(Exact(c)' \cup InitResponse)
        BY <1>t, ExactMonotone, SeqMonotone, QueueLemma
    <2> QED
        BY <1>1, <2>1 DEF AcceptFails, ExactInv
<1>2. ASSUME NEW c \in Conns, ConnectStep(c) \/ RespondStep(c)
                              \/ ForwardStep(c) \/ ReadEndStep(c)
      PROVE  ExactInv'
    <2>1. CASE Accept(c) \/ ForwardFails(c) \/ ChannelEnds(c) \/ ReadEnds(c)
        BY <1>t, <2>1, ExactPreserved
        DEF Accept, ForwardFails, ChannelEnds, ReadEnds, network
    <2>2. CASE HandshakeFails(c) \/ SendResponseFails(c) \/ ReadFails(c)
        <3>1. Kept(inbound, inbound') /\ Kept(channel, channel')
            BY <2>2, ExactEnd DEF HandshakeFails, SendResponseFails, ReadFails
        <3> QED
            BY <1>t, <2>2, <3>1, ExactPreserved
            DEF HandshakeFails, SendResponseFails, ReadFails
    <2>3. CASE SendRefusal(c)
        <3>1. Kept(inbound, inbound') /\ Kept(channel, channel')
            BY <2>3, ExactEnd DEF SendRefusal
        <3>2. KeptOut
            BY <2>3, ExactWrite, PacketConstructors DEF SendRefusal
        <3> QED
            BY <1>t, <3>1, <3>2, ExactPreserved
    <2>4. CASE SendGrant(c)
        <3>1. KeptOut
            BY <2>4, ExactWrite, PacketConstructors DEF SendGrant
        <3> QED
            BY <1>t, <2>4, <3>1, ExactPreserved DEF SendGrant
    <2>5. CASE Forward(c)
        <3>1. Head(channel[c]) \in Exact(c) /\ Kept(channel, channel')
            BY <2>5, ExactTake DEF Forward
        <3>2. KeptOut
            BY <2>5, <3>1, ExactWrite DEF Forward
        <3> QED
            BY <1>t, <2>5, <3>1, <3>2, ExactPreserved DEF Forward
    <2> QED
        BY <1>2, <2>1, <2>2, <2>3, <2>4, <2>5
        DEF ConnectStep, RespondStep, ForwardStep, ReadEndStep
<1>3. ASSUME NEW h \in Homes, HomeStep(h)
      PROVE  ExactInv'
    <2>1. CASE RelayAnswer(h)
        <3>1. Kept(inbound, inbound')
            BY <1>t, <2>1, ExactTake DEF RelayAnswer, AnswerArrives
        <3> QED
            BY <1>t, <2>1, <3>1, ExactRelayAnswer, ExactPreserved DEF RelayAnswer
    <2>2. CASE RelayAnswerFails(h) \/ RelayAnswerPanics(h) \/ HomeDisconnects(h)
        <3>1. \E stage \in Stages : End(h, stage)
            BY <2>2 DEF RelayAnswerFails, RelayAnswerPanics, HomeDisconnects, Stages
        <3>2. Kept(inbound, inbound') /\ Kept(channel, channel')
            BY <1>t, <3>1, ExactEnd
        <3> QED
            BY <1>t, <2>2, <3>2, ExactPreserved
            DEF RelayAnswerFails, RelayAnswerPanics, HomeDisconnects
    <2>3. CASE HomeInit(h) \/ InsertDesktop(h)
        BY <1>t, <2>3, ExactPreserved DEF HomeInit, InsertDesktop, network
    <2> QED
        BY <1>3, <2>1, <2>2, <2>3 DEF HomeStep
<1>4. ASSUME NEW r \in Remotes, RemoteStep(r)
      PROVE  ExactInv'
    <2>1. CASE RelayOffer(r)
        <3>1. Kept(inbound, inbound')
            BY <1>t, <2>1, ExactTake DEF RelayOffer, OfferArrives
        <3> QED
            BY <1>t, <2>1, <3>1, ExactRelayOffer, ExactPreserved DEF RelayOffer
    <2>2. CASE RelayOfferFails(r) \/ DesktopDisappeared(r) \/ RemoteDisconnects(r)
        <3>1. End(r, "closed")
            BY <2>2 DEF RelayOfferFails, DesktopDisappeared, RemoteDisconnects
        <3>2. Kept(inbound, inbound') /\ Kept(channel, channel')
            BY <1>t, <3>1, ExactEnd
        <3> QED
            BY <1>t, <2>2, <3>2, ExactPreserved
            DEF RelayOfferFails, DesktopDisappeared, RemoteDisconnects
    <2>3. CASE RemoteInit(r) \/ InsertPeer(r)
        BY <1>t, <2>3, ExactPreserved DEF RemoteInit, InsertPeer, network
    <2> QED
        BY <1>4, <2>1, <2>2, <2>3 DEF RemoteStep
<1>5. ASSUME NEW r \in Remotes, EggStep(r)
      PROVE  ExactInv'
    <2>1. KeptOut /\ UNCHANGED channel
        BY <1>t, <1>5, ExactTake
        DEF EggStep, EggSendsOffer, EggTakesAnswer, EggFails, Receives, Consume, server
    <2>2. Kept(inbound, inbound')
        <3>1. CASE EggSendsOffer(r)
            <4>1. Offer(0, r) \in Exact(r)
                BY PacketConstructors, PeerIdsLemma, ConnsAssumption DEF Exact
            <4> QED
                BY <1>t, <3>1, <4>1, ExactSend DEF EggSendsOffer, Send
        <3> QED
            BY <1>t, <1>5, <3>1 DEF EggStep, EggTakesAnswer, EggFails
    <2> QED
        BY <1>t, <2>1, <2>2, ExactPreserved
<1>6. ASSUME NEW h \in Homes, DesktopStep(h)
      PROVE  ExactInv'
    <2>1. KeptOut /\ UNCHANGED channel
        BY <1>t, <1>6, ExactTake
        DEF DesktopStep, DesktopTakesResponse, DesktopAnswers, Receives, Consume, server
    <2>2. Kept(inbound, inbound')
        <3>1. CASE DesktopAnswers(h)
            <4> DEFINE p == Head(outbound[h])
            <4>1. p \in RemoteOffer /\ p \in Exact(h)
                BY <1>t, <3>1, ExactTake, PacketKinds DEF DesktopAnswers, Receives
            <4>2. Answer(p.peer, p.payload) \in Exact(h)
                BY <4>1, PacketConstructors DEF Exact, RemoteOffer
            <4> QED
                BY <1>t, <3>1, <4>2, ExactSend DEF DesktopAnswers, Send
        <3> QED
            BY <1>t, <1>6, <3>1 DEF DesktopStep, DesktopTakesResponse
    <2> QED
        BY <1>t, <2>1, <2>2, ExactPreserved
<1>7. ASSUME NEW c \in Conns, ClientLeaves(c)
      PROVE  ExactInv'
    <2>1. <<>> \in Seq(Exact(c) \cup InitResponse)
        BY QueueLemma
    <2>2. KeptOut
        BY <1>7, <2>1 DEF ClientLeaves, KeptOut
    <2> QED
        BY <1>t, <1>7, <2>2, ExactPreserved DEF ClientLeaves, server
<1>8. ASSUME UNCHANGED vars
      PROVE  ExactInv'
    BY <1>t, <1>8, ExactPreserved DEF vars, server, network
<1> QED
    BY <1>1, <1>2, <1>3, <1>4, <1>5, <1>6, <1>7, <1>8 DEF Next, RoosterNext

\* With a name per desktop and fewer remotes than numbers, whatever comes and goes,
\* every answer on the way to an egg answers that egg's offer.
THEOREM AnswersReachOfferers ==
    ASSUME DistinctNames, FewRemotes
    PROVE  Spec => []AnswerReachesOfferer
<1>1. Init => AnswerInv
    BY TableInit, PacketInit, NumberInit, ExactInit DEF AnswerInv
<1>2. AnswerInv /\ [Next]_vars => AnswerInv'
    BY TableStep, PacketStep, NumberStep, ExactStep DEF AnswerInv
<1>3. AnswerInv => AnswerReachesOfferer
    <2> SUFFICES ASSUME AnswerInv, NEW r \in Remotes
                 PROVE  /\ \A i \in DOMAIN channel[r] : channel[r][i].payload = r
                        /\ \A i \in DOMAIN outbound[r] :
                              outbound[r][i] \in HomeAnswer => outbound[r][i].payload = r
        BY DEF AnswerReachesOfferer
    <2>1. /\ channel[r] \in Seq(Exact(r))
          /\ outbound[r] \in Seq(Exact(r) \cup InitResponse)
          /\ r \notin Homes
        BY ConnsAssumption DEF AnswerInv, ExactInv, Conns
    <2>2. \A i \in DOMAIN channel[r] : channel[r][i] \in Exact(r)
        BY <2>1, ElementOfSeq, LenProperties
    <2>3. \A i \in DOMAIN outbound[r] : outbound[r][i] \in Exact(r) \cup InitResponse
        BY <2>1, ElementOfSeq, LenProperties
    <2> QED
        BY <2>1, <2>2, <2>3, PacketKinds DEF Exact
<1> QED
    BY <1>1, <1>2, <1>3, PTL DEF Spec

-----------------------------------------------------------------------------
(***************************************************************************)
(* Why the server ends the handler of a desktop that is still there.       *)
(***************************************************************************)
Waiting(r) == pc[r] \in {"relaying", "disconnecting"}

\* A remote can be found under its number from its insertion to its own clean-up:
\* no other handler takes it, or its number, out of the entry.
WaitingPeerIsListed ==
    \A r \in Remotes :
        Waiting(r) /\ Registered(r) => desktops[HomeName[r]].peers[peerId[r]] = r

LEMMA WaitingInit == Init => WaitingPeerIsListed
BY ConnsAssumption DEF Init, RoosterInit, WaitingPeerIsListed, Waiting, Conns

\* Steps that leave peers and numbers alone, and let no remote start to wait.
LEMMA WaitingUnchanged ==
    ASSUME TableInv, WaitingPeerIsListed, UNCHANGED peerId,
           \A r \in Remotes : Waiting(r)' => Waiting(r),
           \A n \in Names : desktops'[n] # NoDesktop =>
               desktops[n] # NoDesktop /\ desktops'[n].peers = desktops[n].peers
    PROVE  WaitingPeerIsListed'
<1>1. \A r \in Remotes : HomeName[r] \in Names
    BY ConnsAssumption DEF Conns
<1> QED
    BY <1>1 DEF WaitingPeerIsListed, Registered

LEMMA WaitingStep ==
    ASSUME DistinctNames, FewRemotes, TableInv, NumberInv, WaitingPeerIsListed,
           [Next]_vars
    PROVE  WaitingPeerIsListed'
<1> USE DEF Goto
<1>t. /\ pc \in [Conns -> Stages]
      /\ desktops \in [Names -> DesktopAndPeers \cup {NoDesktop}]
      /\ peerId \in [Remotes -> PeerIds \cup {NoPeer}]
      /\ Remotes \subseteq Conns /\ Homes \subseteq Conns
      /\ \A c \in Conns : HomeName[c] \in Names
      /\ \A h \in Homes : h \notin Remotes
    BY ConnsAssumption DEF TableInv, TableTypeOK, Conns
<1>1. ASSUME NEW c \in Conns, ConnectStep(c) \/ RespondStep(c)
                              \/ ForwardStep(c) \/ ReadEndStep(c)
      PROVE  WaitingPeerIsListed'
    <2>1. UNCHANGED <<desktops, peerId>>
        BY <1>1 DEF ConnectStep, Accept, HandshakeFails, RespondStep, SendRefusal,
            SendGrant, SendResponseFails, ForwardStep, Forward, ForwardFails,
            ChannelEnds, ReadEndStep, ReadEnds, ReadFails
    <2>2. \/ pc' = pc
          \/ \E stage \in {"closed", "handshake", "registering"} :
                   pc' = [pc EXCEPT ![c] = stage]
          \/ pc[c] = "relaying" /\ pc' = [pc EXCEPT ![c] = "disconnecting"]
        BY <1>1 DEF ConnectStep, Accept, HandshakeFails, RespondStep, SendRefusal,
            SendGrant, SendResponseFails, ForwardStep, Forward, ForwardFails,
            ChannelEnds, ReadEndStep, ReadEnds, ReadFails, End
    <2>3. \A r \in Remotes : Waiting(r)' => Waiting(r)
        BY <1>t, <2>2 DEF Waiting
    <2> QED
        BY <2>1, <2>3, WaitingUnchanged
<1>2. ASSUME AcceptFails
      PROVE  WaitingPeerIsListed'
    BY <1>t, <1>2 DEF AcceptFails, WaitingPeerIsListed, Waiting
<1>3. ASSUME NEW h \in Homes, HomeStep(h)
      PROVE  WaitingPeerIsListed'
    <2>1. UNCHANGED peerId
        BY <1>3 DEF HomeStep, HomeInit, InsertDesktop, RelayAnswer, RelayAnswerFails,
            RelayAnswerPanics, HomeDisconnects
    <2>2. \A r \in Remotes : pc'[r] = pc[r]
        BY <1>t, <1>3 DEF HomeStep, HomeInit, InsertDesktop, RelayAnswer,
            RelayAnswerFails, RelayAnswerPanics, HomeDisconnects, End
    <2>3. CASE InsertDesktop(h)
        <3>1. \A r \in Remotes : SameName(h, r) => peerId[r] = NoPeer
            BY <2>3 DEF InsertDesktop, NumberInv, Inserted, Fresh, DistinctNames, SameName
        <3>2. \A r \in Remotes : Waiting(r) => peerId[r] # NoPeer
            BY ConnsAssumption DEF Waiting, TableInv, RemotesNumbered
        <3> QED
            BY <1>t, <2>1, <2>2, <2>3, <3>1, <3>2
            DEF InsertDesktop, WaitingPeerIsListed, Waiting, Registered, SameName
    <2>4. CASE ~InsertDesktop(h)
        <3>1. \/ UNCHANGED desktops
              \/ desktops' = [desktops EXCEPT ![HomeName[h]] = NoDesktop]
            BY <1>3, <2>4 DEF HomeStep, HomeInit, RelayAnswer, RelayAnswerFails,
                RelayAnswerPanics, HomeDisconnects
        <3> QED
            BY <1>t, <2>1, <2>2, <3>1, WaitingUnchanged DEF Waiting
    <2> QED
        BY <2>3, <2>4
<1>4. ASSUME NEW r \in Remotes, RemoteStep(r)
      PROVE  WaitingPeerIsListed'
    <2> DEFINE n == HomeName[r]
    <2>1. n \in Names /\ r \in Conns
        BY <1>t
    <2>2. CASE InsertPeer(r)
        <3> DEFINE id == desktops[n].counter
        <3>1. /\ desktops[n] \in DesktopAndPeers /\ desktops[n] # NoDesktop
              /\ id \in PeerIds /\ id \in Nat
            BY <1>t, <2>2, PeerIdsLemma DEF InsertPeer, Registered, DesktopAndPeers
        <3>2. /\ desktops' = [desktops EXCEPT ![n] = InsertPeerIn(desktops[n], r)]
              /\ peerId' = [peerId EXCEPT ![r] = id]
              /\ pc' = [pc EXCEPT ![r] = "relaying"]
            BY <1>t, <2>2 DEF InsertPeer
        <3>3. /\ InsertPeerIn(desktops[n], r).peers = [desktops[n].peers EXCEPT ![id] = r]
              /\ desktops[n].peers \in [PeerIds -> Remotes \cup {NoPeer}]
            BY <3>1 DEF InsertPeerIn, DesktopAndPeers
        <3>4. \A s \in Remotes : Waiting(s) /\ SameName(s, r) => peerId[s] # id
            <4> SUFFICES ASSUME NEW s \in Remotes, Waiting(s), SameName(s, r),
                                peerId[s] = id
                         PROVE  FALSE
                OBVIOUS
            <4>1. s \in Numbered(n)
                BY <3>1, ConnsAssumption
                DEF Numbered, SameName, Waiting, TableInv, RemotesNumbered
            <4> QED
                BY <2>1, <3>1, <4>1 DEF NumberInv
        <3>5. \A s \in Remotes : s # r => peerId'[s] = peerId[s] /\ pc'[s] = pc[s]
            BY <1>t, <3>2
        <3>6. /\ peerId'[r] = id
              /\ desktops'[n].peers = [desktops[n].peers EXCEPT ![id] = r]
              /\ \A m \in Names : m # n => desktops'[m] = desktops[m]
            BY <1>t, <2>1, <3>2, <3>3
        <3>7. desktops'[n].peers[id] = r
            BY <3>1, <3>3, <3>6
        <3> SUFFICES ASSUME NEW s \in Remotes, Waiting(s)', Registered(s)'
                     PROVE  desktops'[HomeName[s]].peers[peerId'[s]] = s
            BY DEF WaitingPeerIsListed
        <3>8. CASE s = r
            BY <3>6, <3>7, <3>8
        <3>9. CASE s # r /\ SameName(s, r)
            <4>1. Waiting(s) /\ peerId[s] # id /\ peerId'[s] = peerId[s]
                BY <3>4, <3>5, <3>9 DEF Waiting
            <4>2. desktops[n].peers[peerId[s]] = s /\ peerId[s] \in PeerIds
                BY <3>1, <3>9, <4>1 DEF WaitingPeerIsListed, Registered, SameName,
                    Waiting, TableInv, RemotesNumbered
            <4>3. desktops'[n].peers[peerId[s]] = s
                BY <3>1, <3>3, <3>6, <4>1, <4>2
            <4> QED
                BY <3>9, <4>1, <4>3 DEF SameName
        <3>10. CASE ~SameName(s, r)
            BY <1>t, <3>5, <3>6, <3>10
            DEF SameName, Waiting, Registered, WaitingPeerIsListed
        <3> QED
            BY <3>8, <3>9, <3>10
    <2>3. CASE RemoteDisconnects(r) /\ Registered(r)
        <3>1. /\ desktops[n] \in DesktopAndPeers /\ desktops[n] # NoDesktop
              /\ peerId[r] \in PeerIds
            BY <1>t, <2>3
            DEF RemoteDisconnects, Registered, TableInv, RemotesNumbered
        <3>2. /\ desktops' = [desktops EXCEPT
                                 ![n] = RemovePeerFrom(desktops[n], peerId[r])]
              /\ peerId' = peerId /\ pc' = [pc EXCEPT ![r] = "closed"]
            BY <1>t, <2>3 DEF RemoteDisconnects, End
        <3>3. /\ RemovePeerFrom(desktops[n], peerId[r]).peers
                    = [desktops[n].peers EXCEPT ![peerId[r]] = NoPeer]
              /\ desktops[n].peers \in [PeerIds -> Remotes \cup {NoPeer}]
            BY <3>1 DEF RemovePeerFrom, DesktopAndPeers
        <3>4. /\ desktops'[n].peers = [desktops[n].peers EXCEPT ![peerId[r]] = NoPeer]
              /\ \A m \in Names : m # n => desktops'[m] = desktops[m]
            BY <1>t, <2>1, <3>2, <3>3
        <3> SUFFICES ASSUME NEW s \in Remotes, Waiting(s)', Registered(s)'
                     PROVE  desktops'[HomeName[s]].peers[peerId[s]] = s
            BY <3>2 DEF WaitingPeerIsListed
        <3>5. s # r /\ Waiting(s)
            BY <1>t, <3>2 DEF Waiting
        <3>6. CASE SameName(s, r)
            <4>1. peerId[s] # peerId[r]
                BY <3>1, <3>5, <3>6, ConnsAssumption DEF NumberInv
            <4>2. desktops[n].peers[peerId[s]] = s /\ peerId[s] \in PeerIds
                BY <3>1, <3>5, <3>6 DEF WaitingPeerIsListed, Registered, SameName,
                    Waiting, TableInv, RemotesNumbered
            <4>3. desktops'[n].peers[peerId[s]] = s
                BY <3>1, <3>3, <3>4, <4>1, <4>2
            <4> QED
                BY <3>6, <4>3 DEF SameName
        <3>7. CASE ~SameName(s, r)
            BY <1>t, <3>4, <3>5, <3>7 DEF SameName, Registered, WaitingPeerIsListed
        <3> QED
            BY <3>6, <3>7
    <2>4. CASE ~InsertPeer(r) /\ ~(RemoteDisconnects(r) /\ Registered(r))
        <3>1. UNCHANGED <<desktops, peerId>>
            BY <1>4, <2>4 DEF RemoteStep, RemoteInit, DesktopDisappeared, RelayOffer,
                RelayOfferFails, RemoteDisconnects
        <3>2. \/ pc' = pc
              \/ \E stage \in {"closed", "refusing", "granting"} :
                    pc' = [pc EXCEPT ![r] = stage]
            BY <1>4, <2>4 DEF RemoteStep, RemoteInit, DesktopDisappeared, RelayOffer,
                RelayOfferFails, RemoteDisconnects, End
        <3>3. \A s \in Remotes : Waiting(s)' => Waiting(s)
            BY <1>t, <3>2 DEF Waiting
        <3> QED
            BY <3>1, <3>3, WaitingUnchanged
    <2> QED
        BY <2>2, <2>3, <2>4
<1>5. ASSUME UNCHANGED server
      PROVE  WaitingPeerIsListed'
    BY <1>5, WaitingUnchanged DEF server, Waiting
<1> QED
    BY <1>1, <1>2, <1>3, <1>4, <1>5
    DEF Next, RoosterNext, EggStep, EggSendsOffer, EggTakesAnswer, EggFails,
        DesktopStep, DesktopTakesResponse, DesktopAnswers, ClientLeaves, vars

-----------------------------------------------------------------------------
\* A step that ends the handler of a connected desktop, with the listener up, is the
\* relay of an answer that finds no receiver, or no entry.
LEMMA EndingStep ==
    ASSUME [Next]_vars, TableInv, NEW h \in Homes,
           pc[h] = "relaying", link[h] = "open", Ended(h)', listener' = "listening"
    PROVE  RelayAnswerFails(h) \/ RelayAnswerPanics(h)
<1> USE DEF Goto
<1>t. pc \in [Conns -> Stages] /\ h \in Conns /\ h \notin Remotes
    BY ConnsAssumption DEF TableInv, TableTypeOK, Conns
<1>0. pc' # pc
    BY DEF Ended
<1>1. ASSUME NEW c \in Conns, ConnectStep(c) \/ RespondStep(c)
                              \/ ForwardStep(c) \/ ReadEndStep(c)
      PROVE  FALSE
    <2>1. \/ pc' = pc
          \/ c # h /\ \E stage : pc' = [pc EXCEPT ![c] = stage]
          \/ pc' = [pc EXCEPT ![c] = "disconnecting"]
        BY <1>1, <1>t DEF ConnectStep, Accept, HandshakeFails, RespondStep, SendRefusal,
            SendGrant, SendResponseFails, ForwardStep, Forward, ForwardFails,
            ChannelEnds, ReadEndStep, ReadEnds, ReadFails, End
    <2> QED
        BY <1>t, <2>1 DEF Ended
<1>2. ~AcceptFails
    BY DEF AcceptFails
<1>3. ASSUME NEW g \in Homes, HomeStep(g)
      PROVE  RelayAnswerFails(h) \/ RelayAnswerPanics(h)
    <2>1. g = h
        BY <1>3, <1>t DEF HomeStep, HomeInit, InsertDesktop, HomeDisconnects,
            RelayAnswer, RelayAnswerFails, RelayAnswerPanics, End, Ended
    <2> QED
        BY <1>3, <1>t, <2>1 DEF HomeStep, HomeInit, InsertDesktop, HomeDisconnects,
            RelayAnswer, Ended
<1>4. ASSUME NEW r \in Remotes, RemoteStep(r)
      PROVE  FALSE
    BY <1>4, <1>t DEF RemoteStep, RemoteInit, InsertPeer, DesktopDisappeared,
        RelayOffer, RelayOfferFails, RemoteDisconnects, End, Ended
<1> QED
    BY <1>0, <1>1, <1>2, <1>3, <1>4
    DEF Next, RoosterNext, EggStep, EggSendsOffer, EggTakesAnswer, EggFails,
        DesktopStep, DesktopTakesResponse, DesktopAnswers, ClientLeaves, vars, server

GoneInv == AnswerInv /\ ListedInv /\ WaitingPeerIsListed

\* The number of an answer finds the remote it answers while that remote waits.
LEMMA FailedAnswerPeerGone ==
    ASSUME GoneInv, NEW h \in Homes, RelayAnswerFails(h)
    PROVE  inbound[h] # <<>> /\ Ended(Head(inbound[h]).payload)
<1> DEFINE p == Head(inbound[h])
           n == HomeName[h]
           r == p.payload
<1>1. h \in Conns /\ n \in Names /\ inbound[h] # <<>> /\ desktops[n] # NoDesktop
    BY ConnsAssumption DEF Conns, RelayAnswerFails, AnswerArrives, Registered
<1>2. p \in HomeAnswer /\ SameName(h, r) /\ p \in Exact(h)
    BY <1>1, TakeLemma, ExactTake DEF GoneInv, AnswerInv, FromClient
<1>3. p.peer \in PeerIds /\ r \in Remotes /\ p.peer = peerId[r]
    BY <1>2 DEF HomeAnswer, Exact
<1>4. r \in Conns /\ pc[r] \in Stages /\ peerId[r] # NoPeer
    BY <1>3, ConnsAssumption DEF Conns, GoneInv, AnswerInv, TableInv, TableTypeOK
<1>5. CASE Waiting(r)
    <2>1. desktops[n].peers[p.peer] = r
        BY <1>1, <1>2, <1>3, <1>5
        DEF GoneInv, WaitingPeerIsListed, Registered, SameName
    <2>2. AddressedPeer(h) # NoPeer /\ AddressedPeer(h) = r
        BY <1>3, <2>1, ConnsAssumption DEF AddressedPeer
    <2> QED
        BY <1>5, <2>2 DEF RelayAnswerFails, ReceiverAlive, Waiting
<1>6. CASE ~Waiting(r)
    BY <1>1, <1>3, <1>4, <1>6
    DEF Waiting, Stages, Ended, GoneInv, AnswerInv, TableInv, RemotesNumbered
<1> QED
    BY <1>5, <1>6

\* With a name per desktop and fewer remotes than numbers, no remote's coming, going
\* or lost link ends a desktop's handler but by an answer to it that finds it gone.
THEOREM HomeDroppedForGonePeer ==
    ASSUME DistinctNames, FewRemotes
    PROVE  Spec => HomeDroppedOnlyForGonePeer
<1> DEFINE Justified == \A h \in Homes :
               /\ pc[h] = "relaying" /\ link[h] = "open"
               /\ Ended(h)' /\ listener' = "listening"
               => /\ inbound[h] # <<>>
                  /\ Ended(Head(inbound[h]).payload)
<1>1. Init => GoneInv
    BY TableInit, PacketInit, NumberInit, ExactInit, ListedInit, WaitingInit
    DEF GoneInv, AnswerInv
<1>2. GoneInv /\ [Next]_vars => GoneInv'
    BY TableStep, PacketStep, NumberStep, ExactStep, ListedStep, WaitingStep
    DEF GoneInv, AnswerInv
<1>3. ASSUME GoneInv, [Next]_vars PROVE Justified
    <2> SUFFICES ASSUME NEW h \in Homes, pc[h] = "relaying", link[h] = "open",
                        Ended(h)', listener' = "listening"
                 PROVE  inbound[h] # <<>> /\ Ended(Head(inbound[h]).payload)
        OBVIOUS
    <2>1. RelayAnswerFails(h) \/ RelayAnswerPanics(h)
        BY <1>3, EndingStep DEF GoneInv, AnswerInv
    <2>2. ~RelayAnswerPanics(h)
        BY <1>3 DEF RelayAnswerPanics, AnswerArrives, Registered, GoneInv, ListedInv,
            ServedHomeIsListed
    <2> QED
        BY <1>3, <2>1, <2>2, FailedAnswerPeerGone
<1>4. GoneInv /\ [Next]_vars => [Justified]_vars
    BY <1>3
<1> QED
    BY <1>1, <1>2, <1>4, PTL DEF Spec, HomeDroppedOnlyForGonePeer
=============================================================================
