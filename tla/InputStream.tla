---------------------------- MODULE InputStream ----------------------------
(***************************************************************************)
(* One remote at the desktop: the keys and buttons it holds down over the  *)
(* stream, the ordered data channel of hammeregg-input, and what is held   *)
(* down on the desktop by hammer_rtp2rtc_start's input callback.           *)
(*                                                                         *)
(* The video element has the focus until it loses it.  The pointer's       *)
(* places are in PointerPosition; the wheel changes nothing that is held.  *)
(*                                                                         *)
(* A definition F_Change is F with a plausible mistake in it, used by no   *)
(* action.                                                                 *)
(***************************************************************************)
EXTENDS InputPackets, Sequences

CONSTANTS
    Keys,           \* keys of the remote's keyboard, besides Shift
    Buttons,        \* numbers of its mouse buttons
    ShiftKey,       \* the key that selects a key's second value
    Plain,          \* a key's value
    Shifted,        \* its value while Shift is held
    MaxInFlight     \* bound: packets in the channel

Controls == Keys \cup Buttons \cup {ShiftKey}

ASSUME ControlsAssumption ==
    /\ ShiftKey \notin Keys /\ (Keys \cup {ShiftKey}) \cap Buttons = {}
    /\ \A k \in Keys \cup {ShiftKey} : {Plain[k], Shifted[k]} \subseteq KeyValues

VARIABLES
    pressed,    \* the controls that the remote holds down
    composing,  \* an input method takes the keys
    sentAs,     \* the input that a held control was last sent as, not released under since
    channel,    \* packets on their way
    handling,   \* the packet of the running input callback
    held,       \* what Enigo holds down on the desktop
    stuck,      \* held without a release to come
    server      \* hammer_rtp2rtc_start: opening the channel, streaming, or returned

vars == <<pressed, composing, sentAs, channel, handling, held, stuck, server>>

NoPacket == [event |-> "none", input |-> Nothing]

InputOf(control, down) ==
    IF control \in Buttons THEN ButtonToInput(control)
    ELSE KeyEventToKeyInput(IF ShiftKey \in down THEN Shifted[control] ELSE Plain[control])

Inputs == {Nothing} \cup {InputOf(c, {}) : c \in Controls} \cup {InputOf(c, {ShiftKey}) : c \in Controls}

Packets == [event : {"down", "up"}, input : Inputs \ {Nothing}]

\* What the desktop can hold down.
Reaching(inputs) == {Converted(i) : i \in {j \in inputs \ {Nothing} : Deserializes(j)}}

TypeOK ==
    /\ pressed \subseteq Controls
    /\ composing \in BOOLEAN
    /\ sentAs \in [Controls -> Inputs]
    /\ channel \in Seq(Packets)
    /\ handling \in Packets \cup {NoPacket}
    /\ held \subseteq Reaching(Inputs)
    /\ stuck \subseteq Reaching(Inputs)
    /\ server \in {"opening", "streaming", "returned"}

\* A stream before this one may have left anything held down.
Init ==
    /\ pressed = {} /\ composing = FALSE
    /\ sentAs = [c \in Controls |-> Nothing]
    /\ channel = <<>> /\ handling = NoPacket
    /\ held \in {{}, Reaching({InputOf(c, {}) : c \in Keys})} /\ stuck = held
    /\ server = "opening"

-----------------------------------------------------------------------------
(***************************************************************************)
(* The remote's page.                                                      *)
(***************************************************************************)
Send_AlsoNothing(event, input) ==
    channel' = Append(channel, [event |-> event, input |-> input])

Send(event, input) ==
    channel' = IF input = Nothing THEN channel
               ELSE Append(channel, [event |-> event, input |-> input])

\* keyHandler and buttHandler: what is sent for a control, the held ones being given.
\* input.setup does not wait for the channel: until it is open, send throws.
Sent(control, down) ==
    IF server = "opening" \/ (composing /\ control \notin Buttons) THEN Nothing
    ELSE InputOf(control, down)

\* Also a repeated press of a key that is held.  The value under which it was sent
\* before is then never released.
Press(c) ==
    /\ server # "returned" /\ Len(channel) < MaxInFlight
    /\ pressed' = pressed \cup {c}
    /\ LET input == Sent(c, pressed') IN
       /\ Send("down", input)
       /\ sentAs' = [sentAs EXCEPT ![c] = IF input = Nothing THEN @ ELSE input]
       /\ stuck' = stuck \cup Reaching({sentAs[c]} \ {sentAs'[c]})
    /\ UNCHANGED <<composing, handling, held, server>>

\* A release that is sent under another value, or not at all, leaves what was
\* pressed held down.  One that is sent also ends what another control holds down
\* under the same value, as the digits of the two halves of a keyboard do.
Release(c) ==
    /\ server # "returned" /\ Len(channel) < MaxInFlight
    /\ c \in pressed
    /\ pressed' = pressed \ {c}
    /\ LET input == Sent(c, pressed') IN
       /\ Send("up", input)
       /\ sentAs' = [d \in Controls |-> IF d = c \/ sentAs[d] = input THEN Nothing ELSE sentAs[d]]
       /\ stuck' = (stuck \cup Reaching({sentAs[c]})) \ Reaching({input})
    /\ UNCHANGED <<composing, handling, held, server>>

\* The pointer has left the video: buttHandler does not see the button go up.
ReleaseElsewhere(c) ==
    /\ server # "returned" /\ c \in Buttons \cap pressed
    /\ pressed' = pressed \ {c}
    /\ sentAs' = [sentAs EXCEPT ![c] = Nothing]
    /\ stuck' = stuck \cup Reaching({sentAs[c]})
    /\ UNCHANGED <<composing, channel, handling, held, server>>

Compose ==
    /\ server # "returned"
    /\ composing' = ~composing
    /\ UNCHANGED <<pressed, sentAs, channel, handling, held, stuck, server>>

\* The window loses the focus: the releases go elsewhere.
LoseFocus ==
    /\ server # "returned" /\ pressed # {}
    /\ pressed' = {} /\ composing' = FALSE
    /\ sentAs' = [c \in Controls |-> Nothing]
    /\ stuck' = stuck \cup Reaching({sentAs[c] : c \in Controls})
    /\ UNCHANGED <<channel, handling, held, server>>

-----------------------------------------------------------------------------
(***************************************************************************)
(* The desktop.  Pion's goroutine calls OnMessage, which crosses two       *)
(* bridges before the closure reads the packet.                            *)
(***************************************************************************)
ChannelOpens ==
    /\ server = "opening"
    /\ server' = "streaming"
    /\ UNCHANGED <<pressed, composing, sentAs, channel, handling, held, stuck>>

Receive_LastFirst ==
    /\ server = "streaming" /\ handling = NoPacket /\ channel # <<>>
    /\ handling' = channel[Len(channel)]
    /\ channel' = SubSeq(channel, 1, Len(channel) - 1)
    /\ UNCHANGED <<pressed, composing, sentAs, held, stuck, server>>

Receive ==
    /\ server = "streaming" /\ handling = NoPacket /\ channel # <<>>
    /\ handling' = Head(channel)
    /\ channel' = Tail(channel)
    /\ UNCHANGED <<pressed, composing, sentAs, held, stuck, server>>

\* handle_input.
HandleInput_PressesOnce(desktop, packet) ==
    LET outputs == Reaching({packet.input}) IN
    IF packet.event = "down" /\ ~(outputs \subseteq desktop) THEN desktop \cup outputs
    ELSE desktop \ outputs

HandleInput(desktop, packet) ==
    LET outputs == Reaching({packet.input}) IN
    IF packet.event = "down" THEN desktop \cup outputs ELSE desktop \ outputs

Handle ==
    /\ server = "streaming" /\ handling # NoPacket
    /\ held' = HandleInput(held, handling)
    /\ handling' = NoPacket
    /\ UNCHANGED <<pressed, composing, sentAs, channel, stuck, server>>

\* The server is stopped: the input channel is closed, hammer_rtp2rtc_start returns
\* and start_pion_server_inner drops its closures, whatever is held down.
StartReturns ==
    /\ server # "returned"
    /\ server' = "returned"
    /\ channel' = <<>>
    /\ pressed' = {} /\ composing' = FALSE
    /\ sentAs' = [c \in Controls |-> Nothing]
    /\ stuck' = stuck \cup held \cup Reaching({handling.input})
    /\ UNCHANGED <<handling, held>>

\* Closing does not wait for the callback: it finds its closure's memory free, and
\* may still do what it would have done.
HandleTooLate ==
    /\ server = "returned" /\ handling # NoPacket
    /\ held' \in {held, HandleInput(held, handling)}
    /\ handling' = NoPacket
    /\ UNCHANGED <<pressed, composing, sentAs, channel, stuck, server>>

\* Nobody uses the server any more.
Done == server = "returned" /\ handling = NoPacket /\ UNCHANGED vars

Next ==
    \/ \E c \in Controls : Press(c) \/ Release(c) \/ ReleaseElsewhere(c)
    \/ Compose \/ LoseFocus \/ ChannelOpens
    \/ Receive \/ Handle \/ StartReturns \/ HandleTooLate \/ Done

Spec == Init /\ [][Next]_vars

\* Pion's goroutine goes on reading, and the callback returns.
FairSpec == Spec /\ WF_vars(Receive) /\ WF_vars(Handle) /\ WF_vars(HandleTooLate)

-----------------------------------------------------------------------------
\* The positions of the packets that press or release an output.
About(output, packets) == {i \in 1..Len(packets) : output \in Reaching({packets[i].input})}

\* What is down on the desktop once packets have been handled in their order: what
\* the last packet about it presses, and what no packet is about stays as it is.
HandledAll(desktop, packets) ==
    {output \in Reaching(Inputs) :
        \/ About(output, packets) = {} /\ output \in desktop
        \/ \E i \in About(output, packets) :
              packets[i].event = "down" /\ \A j \in About(output, packets) : j <= i}

\* The packet of the running callback, and those behind it.
Pending == (IF handling = NoPacket THEN <<>> ELSE <<handling>>) \o channel

Drained == HandledAll(held, Pending)

\* What the remote holds down, as it was sent.
Wanted == Reaching({sentAs[c] : c \in Controls})

\* No press or release is lost, repeated or overtaken between the remote's hands and
\* the desktop: once the channel is empty, the desktop holds what the remote holds,
\* and beyond that only what no release can be expected for, because Shift or an
\* input method changed in between, the window lost the focus, a button went up
\* beside the video, or an earlier stream left it so (input.ts:7-43,
\* net.rs:402-410, input.rs:6-26).
DesktopFollowsHands ==
    server # "returned" =>
        /\ Wanted \subseteq Drained
        /\ Drained \subseteq Wanted \cup stuck

\* Something that the remote has let go of, with a release that was sent, is
\* eventually let go of on the desktop, unless it is pressed again or the stream
\* ends (main.go OnMessage, input.rs:9-11).
ReleasesArrive ==
    \A output \in Reaching(Inputs) :
        output \notin Wanted \cup stuck
            ~> output \notin held \/ output \in Wanted \cup stuck
=============================================================================
