------------------------- MODULE InputStreamProofs -------------------------
(***************************************************************************)
(* What the desktop holds down follows the remote's hands, for every       *)
(* keyboard, every mouse and every length of the channel.                  *)
(***************************************************************************)
EXTENDS InputStream, TLAPS

-----------------------------------------------------------------------------
(***************************************************************************)
(* Inputs, and what they reach.                                            *)
(***************************************************************************)
\* Whatever is held down, a control is sent as one of the inputs.
LEMMA InputsCover == ASSUME NEW c \in Controls, NEW down PROVE InputOf(c, down) \in Inputs
  BY DEF InputOf, Inputs

\* An input for which a packet is sent is of one of three kinds.
LEMMA ThreeKinds ==
  ASSUME NEW i \in Inputs, i # Nothing
  PROVE  \/ \E s : i = Special(s)
         \/ \E s : i = Alpha(s)
         \/ \E s : i = Button(s)
<1>1. PICK c \in Controls : \E down : i = InputOf(c, down)  BY DEF Inputs
<1>2. CASE c \in Buttons
  BY <1>1, <1>2 DEF InputOf, ButtonToInput
<1>3. CASE c \notin Buttons
  BY <1>1, <1>3 DEF InputOf, KeyEventToKeyInput
<1> QED BY <1>2, <1>3

\* Two inputs never press the same thing on the desktop (input.rs convert_key and
\* convert_button keep them apart).
LEMMA ConvertedApart ==
  ASSUME NEW i \in Inputs, NEW j \in Inputs, i # Nothing, j # Nothing,
         Converted(i) = Converted(j)
  PROVE  i = j
<1>1. \A s : /\ Converted(Special(s)) = [key |-> s]
             /\ Converted(Alpha(s)) = [layout |-> s]
             /\ Converted(Button(s)) = [button |-> s]
  BY DEF Converted, Special, Alpha, Button
<1>2. \A s, t : /\ [key |-> s] # [layout |-> t]
                /\ [key |-> s] # [button |-> t]
                /\ [layout |-> s] # [button |-> t]
  OBVIOUS
<1>3. \A s, t : /\ [key |-> s] = [key |-> t] => s = t
                /\ [layout |-> s] = [layout |-> t] => s = t
                /\ [button |-> s] = [button |-> t] => s = t
  OBVIOUS
<1> QED BY ThreeKinds, <1>1, <1>2, <1>3

\* What a set of inputs reaches, by its members.
LEMMA Reached ==
  ASSUME NEW inputs, NEW o
  PROVE  o \in Reaching(inputs) <=> \E i \in inputs : o \in Reaching({i})
  BY DEF Reaching

LEMMA ReachedOnce ==
  ASSUME NEW i \in Inputs, NEW j \in Inputs, NEW o,
         o \in Reaching({i}), o \in Reaching({j})
  PROVE  i = j
  BY ConvertedApart DEF Reaching

LEMMA NothingReaches == Reaching({Nothing}) = {}
  BY DEF Reaching

-----------------------------------------------------------------------------
(***************************************************************************)
(* Packets that are handled one after the other.                           *)
(***************************************************************************)
\* A packet behind all others has the last word.
LEMMA HandledLast ==
  ASSUME NEW desktop, NEW packets \in Seq(Packets), NEW p \in Packets
  PROVE  HandledAll(desktop, Append(packets, p)) = HandleInput(HandledAll(desktop, packets), p)
<1> DEFINE n == Len(packets)
           longer == Append(packets, p)
<1>1. /\ n \in Nat
      /\ Len(longer) = n + 1
      /\ longer[n + 1] = p
      /\ \A i \in 1..n : longer[i] = packets[i]
  OBVIOUS
<1>2. p.input \in Inputs  BY DEF Packets
<1> SUFFICES ASSUME NEW o \in Reaching(Inputs)
             PROVE  o \in HandledAll(desktop, longer)
                      <=> o \in HandleInput(HandledAll(desktop, packets), p)
  BY <1>2, Reached DEF HandledAll, HandleInput
<1>3. /\ About(o, longer) = {i \in 1..(n + 1) : o \in Reaching({longer[i].input})}
      /\ About(o, packets) = {i \in 1..n : o \in Reaching({packets[i].input})}
  BY <1>1 DEF About
<1> HIDE DEF n, longer
<1>4. CASE o \in Reaching({p.input})
  <2>1. n + 1 \in About(o, longer) /\ \A j \in About(o, longer) : j <= n + 1
    <3>1. n + 1 \in 1..(n + 1) /\ \A j \in 1..(n + 1) : j <= n + 1  BY <1>1
    <3>2. o \in Reaching({longer[n + 1].input})  BY <1>1, <1>4
    <3> QED BY <1>3, <3>1, <3>2
  <2>2. \A i \in About(o, longer) : (\A j \in About(o, longer) : j <= i) => i = n + 1
    <3> SUFFICES ASSUME NEW i \in About(o, longer), n + 1 <= i  PROVE i = n + 1
      BY <2>1
    <3>1. i \in 1..(n + 1)  BY <1>3
    <3>2. n \in Nat  BY <1>1
    <3> QED BY <3>1, <3>2
  <2>3. o \in HandledAll(desktop, longer) <=> p.event = "down"
    BY <1>1, <2>1, <2>2 DEF HandledAll
  <2> QED BY <1>4, <2>3 DEF HandleInput
<1>5. CASE o \notin Reaching({p.input})
  <2>1. About(o, longer) = About(o, packets)
    <3>1. \A i : i \in 1..(n + 1) <=> i \in 1..n \/ i = n + 1
      BY <1>1
    <3>2. \A i : i \in About(o, longer) <=> i \in About(o, packets)
      BY <1>1, <1>5, <1>3, <3>1
    <3> QED BY <3>2, <1>3
  <2>2. \A i \in About(o, packets) : longer[i] = packets[i]
    BY <1>1, <1>3
  <2>3. o \in HandledAll(desktop, longer) <=> o \in HandledAll(desktop, packets)
    BY <2>1, <2>2 DEF HandledAll
  <2> QED BY <1>5, <2>3 DEF HandleInput
<1> QED BY <1>4, <1>5

\* A packet before all others does to the desktop what it would do alone.
LEMMA HandledFirst ==
  ASSUME NEW desktop, NEW packets \in Seq(Packets), NEW p \in Packets
  PROVE  HandledAll(desktop, <<p>> \o packets) = HandledAll(HandleInput(desktop, p), packets)
<1> DEFINE n == Len(packets)
           longer == <<p>> \o packets
<1>1. /\ n \in Nat
      /\ Len(longer) = n + 1
      /\ longer[1] = p
      /\ \A i \in 1..n : longer[i + 1] = packets[i]
  OBVIOUS
<1> SUFFICES ASSUME NEW o \in Reaching(Inputs)
             PROVE  o \in HandledAll(desktop, longer)
                      <=> o \in HandledAll(HandleInput(desktop, p), packets)
  BY DEF HandledAll
<1>2. /\ About(o, longer) = {i \in 1..(n + 1) : o \in Reaching({longer[i].input})}
      /\ About(o, packets) = {i \in 1..n : o \in Reaching({packets[i].input})}
  BY <1>1 DEF About
<1> HIDE DEF n, longer
<1>3. \A i \in 1..n : i + 1 \in About(o, longer) <=> i \in About(o, packets)
  <2> SUFFICES ASSUME NEW i \in 1..n
               PROVE  i + 1 \in About(o, longer) <=> i \in About(o, packets)
    OBVIOUS
  <2>1. i + 1 \in 1..(n + 1) /\ longer[i + 1] = packets[i]  BY <1>1
  <2> QED BY <1>2, <2>1
<1>4. 1 \in About(o, longer) <=> o \in Reaching({p.input})
  <2>1. 1 \in 1..(n + 1)  BY <1>1
  <2> QED BY <1>1, <1>2, <2>1
<1>5. About(o, longer) \subseteq 1..(n + 1) /\ About(o, packets) \subseteq 1..n
  BY <1>2
<1>6. CASE About(o, packets) = {}
  <2>1. About(o, longer) \subseteq {1}
    <3> SUFFICES ASSUME NEW i \in About(o, longer), i # 1  PROVE FALSE
      OBVIOUS
    <3>1. i - 1 \in 1..n /\ (i - 1) + 1 = i  BY <1>1, <1>5
    <3>2. (i - 1) + 1 \in About(o, longer)  BY <3>1
    <3> QED BY <3>1, <3>2, <1>3, <1>6
  <2>2. o \in HandledAll(HandleInput(desktop, p), packets) <=> o \in HandleInput(desktop, p)
    BY <1>6 DEF HandledAll
  <2>3. CASE o \in Reaching({p.input})
    <3>1. About(o, longer) = {1}  BY <2>1, <1>4, <2>3
    <3>2. o \in HandledAll(desktop, longer)
            <=> \E i \in {1} : longer[i].event = "down" /\ \A j \in {1} : j <= i
      BY <3>1 DEF HandledAll
    <3>3. o \in HandledAll(desktop, longer) <=> p.event = "down"
      BY <3>2, <1>1
    <3> QED BY <3>3, <2>2, <2>3 DEF HandleInput
  <2>4. CASE o \notin Reaching({p.input})
    <3>1. About(o, longer) = {}  BY <2>1, <1>4, <2>4
    <3>2. o \in HandledAll(desktop, longer) <=> o \in desktop
      BY <3>1 DEF HandledAll
    <3> QED BY <3>2, <2>2, <2>4 DEF HandleInput
  <2> QED BY <2>3, <2>4
<1>7. CASE About(o, packets) # {}
  <2>1. PICK k \in 1..n : k \in About(o, packets) /\ k + 1 \in About(o, longer)
    BY <1>3, <1>5, <1>7
  <2>2. ASSUME NEW i \in About(o, packets), packets[i].event = "down",
               \A j \in About(o, packets) : j <= i
        PROVE  o \in HandledAll(desktop, longer)
    <3>1. i \in 1..n /\ i + 1 \in About(o, longer) /\ longer[i + 1].event = "down"
      BY <1>1, <1>3, <1>5, <2>2
    <3>2. ASSUME NEW j \in About(o, longer)  PROVE j <= i + 1
      <4>1. CASE j = 1  BY <3>1, <4>1
      <4>2. CASE j # 1
        <5>1. j \in 1..(n + 1) /\ j - 1 \in 1..n /\ j = (j - 1) + 1
          BY <1>1, <1>5, <4>2
        <5>2. j - 1 \in About(o, packets)
          BY <5>1, <1>3
        <5> QED BY <5>1, <5>2, <2>2, <3>1
      <4> QED BY <4>1, <4>2
    <3> QED BY <3>1, <3>2 DEF HandledAll
  <2>3. ASSUME NEW i \in About(o, longer), longer[i].event = "down",
               \A j \in About(o, longer) : j <= i
        PROVE  \E h \in About(o, packets) :
                  packets[h].event = "down" /\ \A j \in About(o, packets) : j <= h
    <3>1. i \in 1..(n + 1) /\ k + 1 <= i
      BY <1>5, <2>1, <2>3
    <3>2. i - 1 \in 1..n /\ i = (i - 1) + 1
      BY <3>1, <1>1
    <3>3. i - 1 \in About(o, packets) /\ packets[i - 1].event = "down"
      BY <3>2, <1>1, <1>3, <2>3
    <3>4. ASSUME NEW j \in About(o, packets)  PROVE j <= i - 1
      <4>1. j \in 1..n /\ j + 1 \in About(o, longer)
        BY <1>3, <1>5
      <4> QED BY <4>1, <2>3, <3>1, <1>1
    <3> QED BY <3>3, <3>4
  <2>4. About(o, longer) # {}  BY <2>1
  <2> QED BY <2>2, <2>3, <2>4, <1>7 DEF HandledAll
<1> QED BY <1>6, <1>7

-----------------------------------------------------------------------------
(***************************************************************************)
(* Type correctness.                                                       *)
(***************************************************************************)
LEMMA SentCovers == ASSUME NEW c \in Controls, NEW down PROVE Sent(c, down) \in Inputs
  BY InputsCover DEF Sent, Inputs

\* A packet is sent for every input but Nothing.
LEMMA Sending ==
  ASSUME NEW event \in {"down", "up"}, NEW input \in Inputs, TypeOK, Send(event, input)
  PROVE  /\ channel' \in Seq(Packets)
         /\ input # Nothing =>
              /\ [event |-> event, input |-> input] \in Packets
              /\ channel' = Append(channel, [event |-> event, input |-> input])
         /\ input = Nothing => channel' = channel
<1>1. input # Nothing => [event |-> event, input |-> input] \in Packets
  BY DEF Packets
<1> QED BY <1>1 DEF Send, TypeOK

\* Whatever is reached, the desktop can hold down.
LEMMA ReachedCovers ==
  ASSUME NEW inputs, inputs \subseteq Inputs
  PROVE  Reaching(inputs) \subseteq Reaching(Inputs)
  BY DEF Reaching

LEMMA Handling ==
  ASSUME NEW desktop, desktop \subseteq Reaching(Inputs), NEW p \in Packets
  PROVE  HandleInput(desktop, p) \subseteq Reaching(Inputs)
<1>1. Reaching({p.input}) \subseteq Reaching(Inputs)
  BY ReachedCovers DEF Packets
<1> QED BY <1>1 DEF HandleInput

LEMMA TypeInit == Init => TypeOK
<1> SUFFICES ASSUME Init PROVE TypeOK
  OBVIOUS
<1>1. Reaching({InputOf(c, {}) : c \in Keys}) \subseteq Reaching(Inputs)
  <2>1. {InputOf(c, {}) : c \in Keys} \subseteq Inputs
    BY DEF Inputs, Controls
  <2> QED BY <2>1, ReachedCovers
<1>2. [c \in Controls |-> Nothing] \in [Controls -> Inputs]
  BY DEF Inputs
<1>3. held \subseteq Reaching(Inputs) /\ stuck \subseteq Reaching(Inputs)
  BY <1>1 DEF Init
<1>4. <<>> \in Seq(Packets)
  OBVIOUS
<1> QED BY <1>2, <1>3, <1>4 DEF Init, TypeOK

LEMMA TypeStep == TypeOK /\ [Next]_vars => TypeOK'
<1> SUFFICES ASSUME TypeOK, [Next]_vars PROVE TypeOK'
  OBVIOUS
<1> USE DEF TypeOK
<1>0. Nothing \in Inputs  BY DEF Inputs
<1>1. ASSUME NEW c \in Controls, Press(c)  PROVE TypeOK'
  <2> DEFINE input == Sent(c, pressed')
  <2>1. input \in Inputs  BY SentCovers
  <2>2. channel' \in Seq(Packets)  BY <1>1, <2>1, Sending DEF Press
  <2>3. sentAs' \in [Controls -> Inputs]
    BY <1>1, <2>1 DEF Press
  <2>4. stuck' \subseteq Reaching(Inputs)
    <3>1. {sentAs[c]} \ {sentAs'[c]} \subseteq Inputs  OBVIOUS
    <3> QED BY <1>1, <3>1, ReachedCovers DEF Press
  <2> QED BY <1>1, <2>2, <2>3, <2>4 DEF Press
<1>2. ASSUME NEW c \in Controls, Release(c)  PROVE TypeOK'
  <2> DEFINE input == Sent(c, pressed')
  <2>1. input \in Inputs  BY SentCovers
  <2>2. channel' \in Seq(Packets)  BY <1>2, <2>1, Sending DEF Release
  <2>3. sentAs' \in [Controls -> Inputs]
    BY <1>0, <1>2 DEF Release
  <2>4. stuck' \subseteq Reaching(Inputs)
    <3>1. {sentAs[c]} \subseteq Inputs  OBVIOUS
    <3> QED BY <1>2, <3>1, ReachedCovers DEF Release
  <2> QED BY <1>2, <2>2, <2>3, <2>4 DEF Release
<1>10. ASSUME NEW c \in Controls, ReleaseElsewhere(c)  PROVE TypeOK'
  <2>1. {sentAs[c]} \subseteq Inputs  OBVIOUS
  <2> QED BY <1>0, <1>10, <2>1, ReachedCovers DEF ReleaseElsewhere
<1>3. CASE Compose
  BY <1>3 DEF Compose
<1>11. CASE ChannelOpens
  BY <1>11 DEF ChannelOpens
<1>4. CASE LoseFocus
  <2>1. {sentAs[c] : c \in Controls} \subseteq Inputs  OBVIOUS
  <2> QED BY <1>0, <1>4, <2>1, ReachedCovers DEF LoseFocus
<1>5. CASE Receive
  <2>1. Head(channel) \in Packets /\ Tail(channel) \in Seq(Packets)
    BY <1>5 DEF Receive
  <2> QED BY <1>5, <2>1 DEF Receive
<1>6. CASE Handle
  BY <1>6, Handling DEF Handle
<1>7. CASE StartReturns
  <2>1. handling.input \in Inputs  BY <1>0 DEF Packets, NoPacket
  <2>2. Reaching({handling.input}) \subseteq Reaching(Inputs)  BY <2>1, ReachedCovers
  <2>3. <<>> \in Seq(Packets)  OBVIOUS
  <2> QED BY <1>0, <1>7, <2>2, <2>3 DEF StartReturns
<1>8. CASE HandleTooLate
  BY <1>8, Handling DEF HandleTooLate
<1>9. CASE UNCHANGED vars
  BY <1>9 DEF vars
<1> QED BY <1>1, <1>2, <1>3, <1>4, <1>5, <1>6, <1>7, <1>8, <1>9, <1>10, <1>11
    DEF Next, Done

\* The channel carries packets that the desktop's callback can read, in one of the
\* two senses, and what either side holds down can be held down
\* (hammeregg_core InputPacket).
THEOREM TypeCorrect == Spec => []TypeOK
  BY TypeInit, TypeStep, PTL DEF Spec

-----------------------------------------------------------------------------
(***************************************************************************)
(* The desktop follows the remote's hands.  The invariant is inductive     *)
(* together with the types: a packet that is sent changes what the desktop *)
(* will hold as it changes what the remote does, and one that is received  *)
(* or handled changes nothing of what it will hold.                        *)
(***************************************************************************)
LEMMA WantedBy ==
  ASSUME TypeOK, NEW o
  PROVE  o \in Wanted <=> \E c \in Controls : o \in Reaching({sentAs[c]})
  BY DEF Wanted, Reaching

\* A packet that is sent is handled after all the others.
LEMMA SentIsLast ==
  ASSUME TypeOK, NEW p \in Packets, channel' = Append(channel, p),
         UNCHANGED <<handling, held>>
  PROVE  Drained' = HandleInput(Drained, p)
<1>1. Pending \in Seq(Packets)
  <2>1. CASE handling = NoPacket
    BY <2>1 DEF Pending, TypeOK
  <2>2. CASE handling # NoPacket
    BY <2>2 DEF Pending, TypeOK
  <2> QED BY <2>1, <2>2
<1>2. Pending' = Append(Pending, p)
  <2>1. CASE handling = NoPacket
    BY <2>1 DEF Pending, TypeOK
  <2>2. CASE handling # NoPacket
    BY <2>2 DEF Pending, TypeOK
  <2> QED BY <2>1, <2>2
<1>3. HandledAll(held', Pending') = HandledAll(held, Append(Pending, p))
  BY <1>2
<1> QED BY <1>1, <1>3, HandledLast DEF Drained

\* Receiving a packet and handling it are what Drained expects of the desktop.
LEMMA ReceiveAsDrained == TypeOK /\ Receive => Drained' = Drained
<1> SUFFICES ASSUME TypeOK, Receive PROVE Drained' = Drained
  OBVIOUS
<1>1. /\ channel \in Seq(Packets) /\ channel # <<>>
      /\ handling = NoPacket /\ handling' = Head(channel) /\ channel' = Tail(channel)
      /\ held' = held
  BY DEF Receive, TypeOK
<1>2. handling' # NoPacket
  BY <1>1 DEF Packets, NoPacket
<1>3. Pending = channel /\ Pending' = <<Head(channel)>> \o Tail(channel)
  BY <1>1, <1>2 DEF Pending
<1>4. Pending' = Pending
  BY <1>1, <1>3
<1> QED BY <1>1, <1>4 DEF Drained

LEMMA HandleAsDrained == TypeOK /\ Handle => Drained' = Drained
<1> SUFFICES ASSUME TypeOK, Handle PROVE Drained' = Drained
  OBVIOUS
<1>1. /\ channel \in Seq(Packets) /\ channel' = channel
      /\ handling \in Packets /\ handling' = NoPacket
      /\ held' = HandleInput(held, handling)
  BY DEF Handle, TypeOK
<1>2. Pending = <<handling>> \o channel /\ Pending' = channel
  BY <1>1 DEF Pending, Handle
<1> QED BY <1>1, <1>2, HandledFirst DEF Drained

LEMMA FollowsInit == Init => DesktopFollowsHands
<1> SUFFICES ASSUME Init PROVE DesktopFollowsHands
  OBVIOUS
<1>1. TypeOK  BY TypeInit
<1>2. Wanted = {}
  <2>1. \A c \in Controls : sentAs[c] = Nothing  BY DEF Init
  <2> QED BY <1>1, <2>1, WantedBy, NothingReaches
<1>3. Pending = <<>>  BY DEF Init, Pending
<1>4. Drained \subseteq held  BY <1>3 DEF Drained, HandledAll, About
<1> QED BY <1>2, <1>4 DEF Init, DesktopFollowsHands

LEMMA PressFollows ==
  ASSUME TypeOK, DesktopFollowsHands, NEW c \in Controls, Press(c)
  PROVE  DesktopFollowsHands'
<1> DEFINE input == Sent(c, pressed')
           p == [event |-> "down", input |-> input]
<1>1. TypeOK'  BY TypeStep DEF Next
<1>2. /\ Wanted \subseteq Drained /\ Drained \subseteq Wanted \cup stuck
  BY DEF DesktopFollowsHands, Press
<1>3. input \in Inputs  BY SentCovers
<1>4. CASE input = Nothing
  <2>1. channel' = channel  BY <1>3, <1>4, Sending DEF Press
  <2>2. sentAs' = sentAs  BY <1>4 DEF Press, TypeOK
  <2>3. stuck \subseteq stuck'  BY DEF Press
  <2>4. Drained' = Drained  BY <2>1 DEF Press, Drained, Pending
  <2>5. Wanted' = Wanted  BY <2>2 DEF Wanted
  <2> QED BY <1>2, <2>3, <2>4, <2>5 DEF DesktopFollowsHands
<1>5. CASE input # Nothing
  <2>1. p \in Packets /\ channel' = Append(channel, p)
    BY <1>3, <1>5, Sending DEF Press
  <2>2. Drained' = Drained \cup Reaching({input})
    BY <2>1, SentIsLast DEF Press, HandleInput
  <2>3. sentAs' = [sentAs EXCEPT ![c] = input]
    BY <1>5 DEF Press
  <2>4. \A o : o \in Wanted'
              <=> \E d \in Controls : o \in Reaching({sentAs'[d]})
    BY <1>1 DEF Wanted, Reaching
  <2>5. \A d \in Controls : sentAs'[d] = IF d = c THEN input ELSE sentAs[d]
    BY <2>3 DEF TypeOK
  <2>6. stuck' = stuck \cup Reaching({sentAs[c]} \ {input})
    BY <2>5 DEF Press
  <2>7. Wanted' \subseteq Wanted \cup Reaching({input}) /\ Reaching({input}) \subseteq Wanted'
    BY <2>4, <2>5, WantedBy
  <2>8. Wanted \subseteq Wanted' \cup stuck'
    <3> SUFFICES ASSUME NEW d \in Controls, NEW o \in Reaching({sentAs[d]})
                 PROVE  o \in Wanted' \cup stuck'
      BY WantedBy
    <3>1. CASE d # c  BY <2>4, <2>5, <3>1
    <3>2. CASE d = c /\ sentAs[c] = input  BY <2>7, <3>2
    <3>3. CASE d = c /\ sentAs[c] # input
      <4>1. {sentAs[c]} \ {input} = {sentAs[c]}  BY <3>3
      <4> QED BY <2>6, <3>3, <4>1
    <3> QED BY <3>1, <3>2, <3>3
  <2>9. stuck \subseteq stuck'  BY <2>6
  <2> QED BY <1>2, <2>2, <2>7, <2>8, <2>9 DEF DesktopFollowsHands
<1> QED BY <1>4, <1>5

LEMMA ReleaseFollows ==
  ASSUME TypeOK, DesktopFollowsHands, NEW c \in Controls, Release(c)
  PROVE  DesktopFollowsHands'
<1> DEFINE input == Sent(c, pressed')
           p == [event |-> "up", input |-> input]
<1>1. TypeOK'  BY TypeStep DEF Next
<1>2. /\ Wanted \subseteq Drained /\ Drained \subseteq Wanted \cup stuck
  BY DEF DesktopFollowsHands, Release
<1>3. input \in Inputs  BY SentCovers
<1>4. Drained' = Drained \ Reaching({input})
  <2>1. CASE input = Nothing
    <3>1. channel' = channel  BY <1>3, <2>1, Sending DEF Release
    <3>2. Drained' = Drained  BY <3>1 DEF Release, Drained, Pending
    <3> QED BY <2>1, <3>2, NothingReaches
  <2>2. CASE input # Nothing
    <3>1. p \in Packets /\ channel' = Append(channel, p)
      BY <1>3, <2>2, Sending DEF Release
    <3> QED BY <3>1, SentIsLast DEF Release, HandleInput
  <2> QED BY <2>1, <2>2
<1>5. \A d \in Controls :
        sentAs'[d] = IF d = c \/ sentAs[d] = input THEN Nothing ELSE sentAs[d]
  BY DEF Release
<1>6. stuck' = (stuck \cup Reaching({sentAs[c]})) \ Reaching({input})
  BY DEF Release
<1>7. \A o : o \in Wanted' <=> \E d \in Controls : o \in Reaching({sentAs'[d]})
  BY <1>1 DEF Wanted, Reaching
<1>8. Wanted' \subseteq Wanted \ Reaching({input})
  <2> SUFFICES ASSUME NEW d \in Controls, NEW o \in Reaching({sentAs'[d]})
               PROVE  o \in Wanted /\ o \notin Reaching({input})
    BY <1>7
  <2>1. sentAs'[d] = sentAs[d] /\ sentAs[d] # input
    BY <1>5, NothingReaches
  <2>2. sentAs[d] \in Inputs  BY DEF TypeOK
  <2> QED BY <1>3, <2>1, <2>2, WantedBy, ReachedOnce
<1>9. Wanted \subseteq Wanted' \cup Reaching({sentAs[c]}) \cup Reaching({input})
  <2> SUFFICES ASSUME NEW d \in Controls, NEW o \in Reaching({sentAs[d]})
               PROVE  o \in Wanted' \cup Reaching({sentAs[c]}) \cup Reaching({input})
    BY WantedBy
  <2>1. CASE d = c \/ sentAs[d] = input  BY <2>1
  <2>2. CASE ~(d = c \/ sentAs[d] = input)  BY <1>5, <1>7, <2>2
  <2> QED BY <2>1, <2>2
<1> QED BY <1>2, <1>4, <1>6, <1>8, <1>9 DEF DesktopFollowsHands

LEMMA ReleaseElsewhereFollows ==
  ASSUME TypeOK, DesktopFollowsHands, NEW c \in Controls, ReleaseElsewhere(c)
  PROVE  DesktopFollowsHands'
<1>1. \A d \in Controls : sentAs'[d] = IF d = c THEN Nothing ELSE sentAs[d]
  BY DEF ReleaseElsewhere, TypeOK
<1>2. \A o : o \in Wanted' <=> \E d \in Controls : o \in Reaching({sentAs'[d]})
  BY DEF Wanted, Reaching
<1>3. Wanted' \subseteq Wanted
  BY <1>1, <1>2, WantedBy, NothingReaches
<1>4. Wanted \subseteq Wanted' \cup stuck'
  BY <1>1, <1>2, WantedBy DEF ReleaseElsewhere
<1>5. Drained' = Drained /\ stuck \subseteq stuck' /\ server # "returned"
  BY DEF ReleaseElsewhere, Drained, Pending
<1> QED BY <1>3, <1>4, <1>5 DEF DesktopFollowsHands

LEMMA FollowsStep == TypeOK /\ DesktopFollowsHands /\ [Next]_vars => DesktopFollowsHands'
<1> SUFFICES ASSUME TypeOK, DesktopFollowsHands, [Next]_vars PROVE DesktopFollowsHands'
  OBVIOUS
<1>1. ASSUME NEW c \in Controls, Press(c) \/ Release(c)  PROVE DesktopFollowsHands'
  BY <1>1, PressFollows, ReleaseFollows
<1>9. ASSUME NEW c \in Controls, ReleaseElsewhere(c)  PROVE DesktopFollowsHands'
  BY <1>9, ReleaseElsewhereFollows
<1>10. CASE ChannelOpens
  BY <1>10 DEF ChannelOpens, DesktopFollowsHands, Drained, Pending, Wanted
<1>2. CASE Compose
  BY <1>2 DEF Compose, DesktopFollowsHands, Drained, Pending, Wanted
<1>3. CASE LoseFocus
  <2>1. TypeOK'  BY TypeStep
  <2>2. Wanted \subseteq stuck'  BY <1>3 DEF LoseFocus, Wanted
  <2>3. \A c \in Controls : sentAs'[c] = Nothing  BY <1>3 DEF LoseFocus
  <2>4. Wanted' = {}
    <3>1. \A o : o \in Wanted' <=> \E c \in Controls : o \in Reaching({sentAs'[c]})
      BY DEF Wanted, Reaching
    <3> QED BY <2>3, <3>1, NothingReaches
  <2>5. Drained' = Drained  BY <1>3 DEF LoseFocus, Drained, Pending
  <2>6. stuck \subseteq stuck'  BY <1>3 DEF LoseFocus
  <2>7. server # "returned"  BY <1>3 DEF LoseFocus
  <2> QED BY <2>2, <2>4, <2>5, <2>6, <2>7 DEF DesktopFollowsHands
<1>4. CASE Receive
  BY <1>4, ReceiveAsDrained DEF Receive, DesktopFollowsHands, Wanted
<1>5. CASE Handle
  BY <1>5, HandleAsDrained DEF Handle, DesktopFollowsHands, Wanted
<1>6. CASE StartReturns
  BY <1>6 DEF StartReturns, DesktopFollowsHands
<1>7. CASE HandleTooLate
  BY <1>7 DEF HandleTooLate, DesktopFollowsHands
<1>8. CASE UNCHANGED vars
  BY <1>8 DEF vars, DesktopFollowsHands, Drained, Pending, Wanted
<1> QED BY <1>1, <1>2, <1>3, <1>4, <1>5, <1>6, <1>7, <1>8, <1>9, <1>10
    DEF Next, Done

\* Once the channel is empty the desktop holds down what the remote holds down, as
\* it was sent, and beyond that only what no release can be expected for: for every
\* keyboard, also one with two keys of the same value, and every mouse, however
\* many packets are in the channel (input.ts:7-43, net.rs:402-410, input.rs:6-26).
THEOREM DesktopKeepsUp == Spec => []DesktopFollowsHands
<1>1. Init => TypeOK /\ DesktopFollowsHands
  BY TypeInit, FollowsInit
<1>2. TypeOK /\ DesktopFollowsHands /\ [Next]_vars => (TypeOK /\ DesktopFollowsHands)'
  BY TypeStep, FollowsStep
<1> QED BY <1>1, <1>2, PTL DEF Spec
=============================================================================
