------------------------- MODULE EggSignallingProofs -------------------------
(***************************************************************************)
(* Proofs about EggSignalling, for any number of submissions.              *)
(*                                                                         *)
(* Phase says how far page and server can be apart: between them there is  *)
(* one packet, in the inbox or with a suspended handler, and only while    *)
(* the page's state is the one that the packet asks for.                   *)
(***************************************************************************)
EXTENDS EggSignalling, TLAPS

Silent(a) == inbox[a] = <<>> /\ suspended[a] = {}

\* One of these packets was sent; it is in the inbox, or was handled, or is being
\* handled.
Pending(a, packets, awaited) ==
    \/ inbox[a] = <<>> /\ suspended[a] = {}
    \/ inbox[a] = <<>> /\ suspended[a] = {awaited} /\ socket[a] # "closed"
    \/ suspended[a] = {} /\ \E p \in packets : inbox[a] = <<p>>

Before(a) ==
    /\ state[a] \in {"none", "reading", "rejected", "init"}
    /\ server[a] = "none" /\ Silent(a)
    /\ socket[a] \notin {"open", "closed"}

Asked(a) == state[a] = "waitRemoteInitResponse" /\ server[a] = "asked" /\ Silent(a)

Responded(a) ==
    /\ state[a] = "waitRemoteInitResponse" /\ server[a] = "responded"
    /\ Pending(a, {"granted", "refused"}, "granted")

\* On a socket that is not open the offer goes nowhere.
Offered(a) ==
    /\ state[a] = "waitHomeAnswerResponse" /\ Silent(a)
    /\ server[a] \in {"responded", "offered"}
    /\ server[a] = "responded" => socket[a] # "open"

Answered(a) ==
    /\ state[a] = "waitHomeAnswerResponse" /\ server[a] = "answered"
    /\ Pending(a, {"success", "failure"}, "success")

Finished(a) ==
    state[a] = "done" /\ server[a] = "answered" /\ Silent(a) /\ socket[a] = "closed"

Phase(a) ==
    /\ \/ Before(a) \/ Asked(a) \/ Responded(a)
       \/ Offered(a) \/ Answered(a) \/ Finished(a)
    /\ socket[a] = "connecting" => state[a] = "init"

\* Submissions that do not overlap follow one another.
InTurn ==
    /\ \A a, b \in Attempts : UnderWay(a) /\ UnderWay(b) => a = b
    /\ \A a \in Attempts : UnderWay(a) => inputs = None
    /\ \A a \in Attempts : state[a] = "done" => inputs = a

Inv ==
    /\ TypeOK
    /\ \A a \in Attempts : Phase(a)
    /\ error # "state"
    /\ ~overlapped => InTurn
    /\ video # None => video \in described

LEMMA InvInit == Init => Inv
<1> SUFFICES ASSUME Init PROVE Inv
    OBVIOUS
<1>1. TypeOK
    <2>1. <<>> \in Seq({"granted", "refused", "success", "failure"})
        OBVIOUS
    <2> QED
        BY <2>1, NoneAssumption DEF Init, TypeOK, States
<1>2. \A a \in Attempts : Phase(a)
    BY DEF Init, Phase, Before, Silent
<1> QED
    BY <1>1, <1>2, NoneAssumption DEF Init, Inv, InTurn, UnderWay

\* A step of one attempt says nothing about another's phase.
LEMMA PhaseFrame ==
    ASSUME Inv, NEW b \in Attempts,
           state'[b] = state[b], socket'[b] = socket[b], inbox'[b] = inbox[b],
           suspended'[b] = suspended[b], server'[b] = server[b]
    PROVE  Phase(b)'
BY DEF Inv, Phase, Before, Asked, Responded, Offered, Answered, Finished, Pending, Silent

LEMMA InvStep == ASSUME Inv, [Next]_vars PROVE Inv'
<1> USE NoneAssumption DEF States, Set, connections, page
<1>1. CASE UNCHANGED vars
    <2>1. \A b \in Attempts : Phase(b)'
        BY <1>1, PhaseFrame DEF vars
    <2> QED
        BY <1>1, <2>1 DEF Inv, TypeOK, vars, InTurn, UnderWay
<1>2. ASSUME NEW a \in Attempts, Submit(a) PROVE Inv'
    <2>1. Before(a)
        BY <1>2 DEF Inv, Submit, Phase, Before, Asked, Responded, Offered, Answered,
           Finished, Pending, Silent
    <2>2. TypeOK'
        BY <1>2, <2>1 DEF Inv, TypeOK, Submit, Before
    <2>3. Before(a)'
        BY <1>2, <2>1 DEF Inv, TypeOK, Submit, Before, Silent
    <2>4. ASSUME NEW b \in Attempts \ {a} PROVE Phase(b)'
        BY <1>2, PhaseFrame DEF Inv, TypeOK, Submit
    <2>5. (~overlapped => InTurn)'
        BY <1>2, <2>1 DEF Inv, TypeOK, Submit, InTurn, UnderWay, Before
    <2> QED
        BY <1>2, <2>1, <2>2, <2>3, <2>4, <2>5 DEF Inv, TypeOK, Submit, Phase
<1>3. ASSUME NEW a \in Attempts, Rejected(a) PROVE Inv'
    <2>1. Before(a)
        BY <1>3 DEF Inv, Rejected, Phase, Before, Asked, Responded, Offered, Answered,
           Finished, Pending, Silent
    <2>2. TypeOK'
        BY <1>3, <2>1 DEF Inv, TypeOK, Rejected, Before
    <2>3. Before(a)'
        BY <1>3, <2>1 DEF Inv, TypeOK, Rejected, Before, Silent
    <2>4. ASSUME NEW b \in Attempts \ {a} PROVE Phase(b)'
        BY <1>3, PhaseFrame DEF Inv, TypeOK, Rejected
    <2>5. (~overlapped => InTurn)'
        BY <1>3, <2>1 DEF Inv, TypeOK, Rejected, InTurn, UnderWay, Before
    <2> QED
        BY <1>3, <2>1, <2>2, <2>3, <2>4, <2>5 DEF Inv, TypeOK, Rejected, Phase
<1>14. ASSUME NEW a \in Attempts, ConnectThrows(a) PROVE Inv'
    <2>1. Before(a)
        BY <1>14 DEF Inv, ConnectThrows, Phase, Before, Asked, Responded, Offered, Answered,
           Finished, Pending, Silent
    <2>2. TypeOK'
        BY <1>14, <2>1 DEF Inv, TypeOK, ConnectThrows, Before
    <2>3. Before(a)'
        BY <1>14, <2>1 DEF Inv, TypeOK, ConnectThrows, Before, Silent
    <2>4. ASSUME NEW b \in Attempts \ {a} PROVE Phase(b)'
        BY <1>14, PhaseFrame DEF Inv, TypeOK, ConnectThrows
    <2>5. (~overlapped => InTurn)'
        BY <1>14, <2>1 DEF Inv, TypeOK, ConnectThrows, InTurn, UnderWay, Before
    <2> QED
        BY <1>14, <2>1, <2>2, <2>3, <2>4, <2>5 DEF Inv, TypeOK, ConnectThrows, Phase
<1>4. ASSUME NEW a \in Attempts, Connects(a) PROVE Inv'
    <2>1. Before(a)
        BY <1>4 DEF Inv, Connects, Phase, Before, Asked, Responded, Offered, Answered,
           Finished, Pending, Silent
    <2>2. TypeOK'
        BY <1>4, <2>1 DEF Inv, TypeOK, Connects, Before
    <2>3. Before(a)'
        BY <1>4, <2>1 DEF Inv, TypeOK, Connects, Before, Silent
    <2>4. ASSUME NEW b \in Attempts \ {a} PROVE Phase(b)'
        BY <1>4, PhaseFrame DEF Inv, TypeOK, Connects
    <2>5. (~overlapped => InTurn)'
        BY <1>4, <2>1 DEF Inv, TypeOK, Connects, InTurn, UnderWay, Before
    <2> QED
        BY <1>4, <2>1, <2>2, <2>3, <2>4, <2>5 DEF Inv, TypeOK, Connects, Phase
<1>5. ASSUME NEW a \in Attempts, OnOpen(a) PROVE Inv'
    <2>1. Before(a) /\ state[a] = "init"
        BY <1>5 DEF Inv, OnOpen, Phase, Before, Asked, Responded, Offered, Answered,
           Finished, Pending, Silent
    <2>2. TypeOK'
        BY <1>5, <2>1 DEF Inv, TypeOK, OnOpen, Before
    <2>3. Asked(a)' /\ socket'[a] = "open"
        BY <1>5, <2>1 DEF Inv, TypeOK, OnOpen, Before, Asked, Silent
    <2>4. ASSUME NEW b \in Attempts \ {a} PROVE Phase(b)'
        BY <1>5, PhaseFrame DEF Inv, TypeOK, OnOpen
    <2>5. (~overlapped => InTurn)'
        BY <1>5, <2>1 DEF Inv, TypeOK, OnOpen, InTurn, UnderWay, Before
    <2> QED
        BY <1>5, <2>1, <2>2, <2>3, <2>4, <2>5 DEF Inv, TypeOK, OnOpen, Phase, Before
<1>6. ASSUME NEW a \in Attempts, OnMessageFails(a) PROVE Inv'
    <2>1. Responded(a) \/ Answered(a)
        BY <1>6 DEF Inv, OnMessageFails, Resume, Catch, Phase, Before, Asked, Responded,
           Offered, Answered, Finished, Pending, Silent
    <2>2. TypeOK'
        BY <1>6, <2>1 DEF Inv, TypeOK, OnMessageFails, Resume, Catch, Responded,
           Answered
    <2>3. Responded(a)' \/ Answered(a)'
        BY <1>6, <2>1 DEF Inv, TypeOK, OnMessageFails, Resume, Catch, Responded,
           Answered, Silent, Pending
    <2>4. ASSUME NEW b \in Attempts \ {a} PROVE Phase(b)'
        BY <1>6, PhaseFrame DEF Inv, TypeOK, OnMessageFails, Resume, Catch
    <2>5. (~overlapped => InTurn)'
        BY <1>6, <2>1 DEF Inv, TypeOK, OnMessageFails, Resume, Catch, InTurn, UnderWay,
           Responded, Answered
    <2> QED
        BY <1>6, <2>1, <2>2, <2>3, <2>4, <2>5 DEF Inv, TypeOK, OnMessageFails, Resume,
           Catch, Phase
<1>7. ASSUME NEW a \in Attempts, OfferReady(a) PROVE Inv'
    <2>1. Responded(a) /\ suspended[a] = {"granted"}
        BY <1>7 DEF Inv, OfferReady, Resume, Phase, Before, Asked, Responded, Offered,
           Answered, Finished, Pending, Silent
    <2>2. TypeOK'
        BY <1>7, <2>1 DEF Inv, TypeOK, OfferReady, Resume, Responded
    <2>3. Offered(a)'
        BY <1>7, <2>1 DEF Inv, TypeOK, OfferReady, Resume, Responded, Offered, Silent,
           Pending
    <2>4. ASSUME NEW b \in Attempts \ {a} PROVE Phase(b)'
        BY <1>7, PhaseFrame DEF Inv, TypeOK, OfferReady, Resume
    <2>5. (~overlapped => InTurn)'
        BY <1>7, <2>1 DEF Inv, TypeOK, OfferReady, Resume, InTurn, UnderWay, Responded
    <2> QED
        BY <1>7, <2>1, <2>2, <2>3, <2>4, <2>5 DEF Inv, TypeOK, OfferReady, Resume,
           Phase, Responded
<1>8. ASSUME NEW a \in Attempts, AnswerDecrypted(a) PROVE Inv'
    <2>1. Answered(a) /\ suspended[a] = {"success"} /\ socket[a] # "closed"
        BY <1>8 DEF Inv, AnswerDecrypted, Resume, Phase, Before, Asked, Responded,
           Offered, Answered, Finished, Pending, Silent
    <2>2. TypeOK'
        BY <1>8, <2>1 DEF Inv, TypeOK, AnswerDecrypted, Resume, Answered
    <2>3. Finished(a)'
        BY <1>8, <2>1 DEF Inv, TypeOK, AnswerDecrypted, Resume, Answered, Finished,
           Silent, Pending
    <2>4. ASSUME NEW b \in Attempts \ {a} PROVE Phase(b)'
        BY <1>8, PhaseFrame DEF Inv, TypeOK, AnswerDecrypted, Resume
    <2>5. (~overlapped => InTurn)'
        BY <1>8, <2>1 DEF Inv, TypeOK, AnswerDecrypted, Resume, InTurn, UnderWay,
           Answered
    <2> QED
        BY <1>8, <2>1, <2>2, <2>3, <2>4, <2>5 DEF Inv, TypeOK, AnswerDecrypted, Resume,
           Phase, Answered
<1>9. ASSUME NEW a \in Attempts, OnTrack(a) PROVE Inv'
    <2>1. a \in described
        BY <1>9 DEF Inv, OnTrack, Phase, Before, Asked, Responded, Offered, Answered,
           Finished, Pending, Silent
    <2>2. TypeOK'
        BY <1>9, <2>1 DEF Inv, TypeOK, OnTrack
    <2>3. Phase(a)'
        BY <1>9, PhaseFrame DEF OnTrack
    <2>4. ASSUME NEW b \in Attempts \ {a} PROVE Phase(b)'
        BY <1>9, PhaseFrame DEF Inv, TypeOK, OnTrack
    <2>5. (~overlapped => InTurn)'
        BY <1>9, <2>1 DEF Inv, TypeOK, OnTrack, InTurn, UnderWay
    <2> QED
        BY <1>9, <2>1, <2>2, <2>3, <2>4, <2>5 DEF Inv, TypeOK, OnTrack, Phase
<1>10. ASSUME NEW a \in Attempts, Respond(a) PROVE Inv'
    <2>1. Asked(a)
        BY <1>10 DEF Inv, Respond, Deliver, Phase, Before, Asked, Responded, Offered,
           Answered, Finished, Pending, Silent
    <2>2. TypeOK'
        BY <1>10, <2>1 DEF Inv, TypeOK, Respond, Deliver, Asked
    <2>3. Responded(a)'
        BY <1>10, <2>1 DEF Inv, TypeOK, Respond, Deliver, Asked, Responded, Silent,
           Pending
    <2>4. ASSUME NEW b \in Attempts \ {a} PROVE Phase(b)'
        BY <1>10, PhaseFrame DEF Inv, TypeOK, Respond, Deliver
    <2>5. (~overlapped => InTurn)'
        BY <1>10, <2>1 DEF Inv, TypeOK, Respond, Deliver, InTurn, UnderWay, Asked
    <2> QED
        BY <1>10, <2>1, <2>2, <2>3, <2>4, <2>5 DEF Inv, TypeOK, Respond, Deliver, Phase,
           Asked
<1>11. ASSUME NEW a \in Attempts, AnswerOffer(a) PROVE Inv'
    <2>1. Offered(a)
        BY <1>11 DEF Inv, AnswerOffer, Deliver, Phase, Before, Asked, Responded,
           Offered, Answered, Finished, Pending, Silent
    <2>2. TypeOK'
        BY <1>11, <2>1 DEF Inv, TypeOK, AnswerOffer, Deliver, Offered
    <2>3. Answered(a)'
        BY <1>11, <2>1 DEF Inv, TypeOK, AnswerOffer, Deliver, Offered, Answered, Silent,
           Pending
    <2>4. ASSUME NEW b \in Attempts \ {a} PROVE Phase(b)'
        BY <1>11, PhaseFrame DEF Inv, TypeOK, AnswerOffer, Deliver
    <2>5. (~overlapped => InTurn)'
        BY <1>11, <2>1 DEF Inv, TypeOK, AnswerOffer, Deliver, InTurn, UnderWay, Offered
    <2> QED
        BY <1>11, <2>1, <2>2, <2>3, <2>4, <2>5 DEF Inv, TypeOK, AnswerOffer, Deliver,
           Phase, Offered
<1>12. ASSUME NEW a \in Attempts, Drop(a) PROVE Inv'
    <2>1. Phase(a) /\ socket[a] \in {"connecting", "open"}
        BY <1>12 DEF Inv, Drop, Phase, Before, Asked, Responded, Offered, Answered,
           Finished, Pending, Silent
    <2>2. TypeOK'
        BY <1>12, <2>1 DEF Inv, TypeOK, Drop
    <2>3. Phase(a)'
        BY <1>12, <2>1 DEF Inv, TypeOK, Drop, Phase, Before, Asked, Responded, Offered,
           Answered, Finished, Pending, Silent
    <2>4. ASSUME NEW b \in Attempts \ {a} PROVE Phase(b)'
        BY <1>12, PhaseFrame DEF Inv, TypeOK, Drop
    <2>5. (~overlapped => InTurn)'
        BY <1>12, <2>1 DEF Inv, TypeOK, Drop, InTurn, UnderWay
    <2> QED
        BY <1>12, <2>1, <2>2, <2>3, <2>4, <2>5 DEF Inv, TypeOK, Drop, Phase
<1>13. ASSUME NEW a \in Attempts, OnMessage(a) PROVE Inv'
    <2>1. Responded(a) \/ Answered(a)
        BY <1>13 DEF Inv, OnMessage, Phase, Before, Asked, Responded, Offered, Answered,
           Finished, Pending, Silent
    <2>2. PICK p \in {"granted", "refused", "success", "failure"} :
              inbox[a] = <<p>> /\ state[a] = Expected(p) /\ suspended[a] = {}
        BY <1>13, <2>1 DEF OnMessage, Responded, Answered, Pending, Expected
    <2>3. Head(inbox[a]) = p /\ Tail(inbox[a]) = <<>>
        BY <2>2
    <2>4. CASE p \in {"granted", "success"}
        <3>1. /\ inbox' = [inbox EXCEPT ![a] = <<>>]
              /\ suspended' = [suspended EXCEPT ![a] = {p}]
              /\ UNCHANGED <<state, socket, described, server, page>>
              /\ socket[a] # "closed"
            BY <1>13, <2>2, <2>3, <2>4 DEF OnMessage
        <3>2. TypeOK'
            BY <2>4, <3>1 DEF Inv, TypeOK
        <3>3. Responded(a)' \/ Answered(a)'
            BY <2>1, <2>2, <2>4, <3>1
            DEF Inv, TypeOK, Responded, Answered, Pending, Expected
        <3>4. ASSUME NEW b \in Attempts \ {a} PROVE Phase(b)'
            BY <3>1, PhaseFrame DEF Inv, TypeOK
        <3> QED
            BY <2>1, <3>1, <3>2, <3>3, <3>4 DEF Inv, Phase, InTurn, UnderWay
    <2>5. CASE p \notin {"granted", "success"}
        <3>1. /\ inbox' = [inbox EXCEPT ![a] = <<>>]
              /\ socket' = [socket EXCEPT ![a] = "closed"]
              /\ error' = "signalling"
              /\ UNCHANGED <<state, suspended, described, server, inputs, video, overlapped>>
            BY <1>13, <2>2, <2>3, <2>5 DEF OnMessage, Catch
        <3>2. TypeOK'
            BY <3>1 DEF Inv, TypeOK
        <3>3. Responded(a)' \/ Answered(a)'
            BY <2>1, <2>2, <3>1 DEF Inv, TypeOK, Responded, Answered, Pending
        <3>4. ASSUME NEW b \in Attempts \ {a} PROVE Phase(b)'
            BY <3>1, PhaseFrame DEF Inv, TypeOK
        <3>5. (~overlapped => InTurn)'
            BY <3>1 DEF Inv, TypeOK, InTurn, UnderWay
        <3> QED
            BY <3>1, <3>2, <3>3, <3>4, <3>5 DEF Inv, TypeOK, Phase
    <2> QED
        BY <2>4, <2>5
<1> QED
    BY <1>1, <1>2, <1>3, <1>4, <1>5, <1>6, <1>7, <1>8, <1>9, <1>10, <1>11, <1>12,
       <1>13, <1>14 DEF Next, PageStep

LEMMA InvHolds == Spec => []Inv
BY InvInit, InvStep, PTL DEF Spec

\* Every variable of the page keeps its type, and only an attempt that is done has
\* described its peer connection.
THEOREM TypeCorrect == Spec => []TypeOK
BY InvHolds, PTL DEF Inv

\* assertState never throws, for any number of submissions at once.
THEOREM EveryPacketExpected == Spec => []PacketsFindTheirState
<1>1. Inv => PacketsFindTheirState
    BY DEF Inv, PacketsFindTheirState
<1> QED
    BY <1>1, InvHolds, PTL

\* Submissions that do not overlap show the desktop that gets the input.
THEOREM SubmissionsDoNotMix == Spec => []StreamsAgree
<1>1. Inv => StreamsAgree
    BY DEF Inv, TypeOK, InTurn, StreamsAgree
<1> QED
    BY <1>1, InvHolds, PTL
=============================================================================
