# A verification of Hammeregg

Hammeregg lets a browser (the egg) see and control a home computer (running
Hammeregg Desktop). The two find each other through a signalling server
(Rooster) and then talk over WebRTC. This directory models the parts of it that
carry state between concurrent actors, checks the models on small instances with
TLC, and proves the most important results for instances of every size with
TLAPS. Paths below are relative to the root of the repository's sources.

    tlc -config SignallingReuse.cfg MCSignalling.tla     check a run
    tlapm SignallingProofs.tla                           check the proofs

## 1. Inventory

| Component | Source | State | Operations | Hard because |
|---|---|---|---|---|
| Rooster | `hammer/hammeregg_rooster/src/main.rs` | map from name to desktop sender and numbered peers, one channel and one socket per task | accept, home init, remote init, relay offer, relay answer, disconnect | one task per connection; the map's lock is taken and released for each access, with awaits in between |
| Packets | `hammer/hammeregg_core/src/lib.rs`, `egg/src/hammeregg_core.ts` | none | serialise, deserialise, validate | peer numbers are a `u32` |
| Desktop, remote connections | `hammer/hammeregg_backend/src/net.rs`, `stream.rs` | the kept `RemoteConnection` | handle an offer, replace the stream, end | failure at every stage, each with other things to undo; a work thread shared by all tasks |
| rtp2rtc | `hammer/rtp2rtc/main.go`, `pion.rs` | a peer connection and a stop channel per offer | init, build and signal offer, start, stop, free | one OS thread per offer, a rendezvous channel between two of them |
| Egg, signalling | `egg/src/index.ts` | a state machine per connection | submit, onopen, onmessage | handlers suspended at awaits, no handler for a closed socket |
| Desktop, user interface | `hammer/hammeregg_backend/src/ui/*.rs`, `work.rs` | the current screen, the receivers it polls | start, poll, go back, save | screens move sockets and threads between each other; tasks outlive screens |
| Input | `egg/src/input.ts`, `hammer/hammeregg_backend/src/input.rs` | keys held on the desktop | key, button, pointer, wheel | translation through strings, floats and integers |
| Keys | `hammer/hammeregg_backend/src/key.rs`, `egg/src/hammeregg_key.ts` | none | generate, import | library cryptography |

How they interact: a desktop opens a WebSocket, sends `HomeInit` and waits for the
response; eggs do the same with `RemoteInit`. Rooster fills the peer number into an
egg's `RemoteOffer` and passes it on to the desktop registered under the name; the
desktop starts a Pion server and ffmpeg, and sends `HomeAnswerSuccess` or
`HomeAnswerFailure` with that number back, by which Rooster finds the egg. The
egg then closes its signalling socket, and media and input flow without Rooster.

What makes each correct:

- **Rooster**: an answer reaches the remote that made the offer; nothing crosses
  between names; the table never refers to a connection of another name or
  under another number; a handler whose entry is gone ends; a desktop is refused or
  dropped only for a reason; no handler panics.
- **Remote connections**: at most one stream, and its server stays up; a failed offer
  disturbs nothing; each offer is answered; replacing a stream does not hang the
  program; what was started is stopped and freed.
- **Egg**: what the server sends finds the state that expects it and ends the attempt with
  a stream or an error; input goes to the desktop that is seen.
- **User interface**: one connection at a time, whose holder is known; no task loses its
  receiver; what runs behind a screen is shown by it; starting up ends.
- **Input**: what is pressed is released; positions land where the pointer is.

## 2. Modules

| Module | What it is |
|---|---|
| `HandshakePackets` | the packet kinds, and the peer number with its width |
| `Rooster` | the server: state, actions, fairness |
| `Signalling` | Rooster composed with eggs and desktops; the properties |
| `SignallingService` | what signalling promises an egg: the abstract specification |
| `SignallingRefinement` | how `Signalling` implements it |
| `MCSignalling` | instances for TLC |
| `SignallingProofs` | types, the table, isolation of names: for all constants |
| `DistinctNamesProofs` | what holds when desktops have different names |
| `ExchangeProofs` | where the packets of an exchange are: single copies, the refinement, nothing lost |
| `RemoteConnections`, `MCRemoteConnections`, `RemoteConnectionsProofs` | one desktop's signalling loop, Pion threads and ffmpeg processes |
| `WorkThread` | how the interface's thread starts the work thread |
| `DesktopApp`, `MCDesktopApp`, `DesktopAppProofs` | the screens over the work thread and its tasks |
| `EggSignalling`, `MCEggSignalling`, `EggSignallingProofs` | the egg's page: form, sockets, `onmessage` with its awaits |
| `InputPackets` | what becomes of a key, a button and a position between browser, packet and Enigo |
| `InputStream`, `MCInputStream`, `InputStreamProofs` | what is held down, from the remote's hands to the desktop |
| `PointerPosition`, `MCPointerPosition`, `PointerPositionProofs` | where the pointer goes |

A definition named `F_Change` is `F` with a plausible mistake. No action uses it; it
documents which mistake the property listed for it in `PROJECT.json` catches.

### Rooster and Signalling

One action is what a Tokio task does between two points where another task can
run: an `await`, or the release of the `parking_lot` lock. So `contains_key`
(`HomeInit`, `RemoteInit`), the response (`SendGrant`, `SendRefusal`,
`SendResponseFails`) and the insertion (`InsertDesktop`, `InsertPeer`,
`DesktopDisappeared`) are separate, and the relay of one packet, which holds the lock
from the look-up to `unbounded_send`, is one action. `pc` is how far a handler is.

- `desktops[n]` is the map's entry: the desktop whose sender it holds, the counter,
  and the peers by number. Senders are not modelled as objects: a sender exists
  exactly while the entry that holds it does (`SenderAlive`), a receiver
  while its handler runs (`ReceiverAlive`).
- `channel[c]` is what is buffered between the tasks; `inbound` and `outbound` are the
  two directions of the socket, each in order, for TCP neither reorders nor
  duplicates. `link[c]` says whether the socket is open, left by the client or
  dropped by the server. What is lost is the tail: a client that leaves reads no more, a
  handler that ends reads no more.
- The three ends of `select` differ and are kept apart. If the forwarding side ends (its
  sender is gone: `ChannelEnds`; the socket cannot be written: `ForwardFails`) or
  the stream of packets ends (`ReadEnds`), the clean-up below `select` runs
  (`HomeDisconnects`, `RemoteDisconnects`). If the reading side ends with an error
  (`ReadFails`, `RelayAnswerFails`, `RelayOfferFails`) the `?` behind `select`
  returns past the clean-up. A WebSocket `Close` message is such an error, since
  `deserialize_packet` accepts binary messages alone; so most closed tabs end in
  `ReadFails`, and `ReadEnds` is what remains.
- Clean-up goes by name, and by number within the name, as in the code: it affects
  whatever entry has the name then.
- An error of `accept` ends `main`, and with it the runtime: `AcceptFails` ends every
  handler and drops the map.
- The counter wraps at `IdModulus`, as a release build's `u32` does (a debug build
  panics at that point instead).
- Packets that a well-behaved client does not send (a second init, an offer from a
  desktop) are not enumerated: the model's clients are the repository's.

The clients are reduced to what the server can see. An egg waits for the response, sends
one offer and takes one answer; gathering candidates, encrypting and decrypting
happen inside those steps (`EggSignalling` takes them apart). A desktop answers each offer
it is sent with the number the offer came with. Either may leave at any time
(`ClientLeaves`). A program that reconnects is another element of `Homes` or `Remotes`,
which is how restarts are covered.

### SignallingService and its refinement

`SignallingService` knows nothing of servers, names and queues: an egg's exchange goes
`none`, `offered`, `answered`, `connected`, each step once, or to `over`, from which nothing
leads back. `SignallingRefinement` maps a state of `Signalling` to it. The stage of an
exchange is where its one packet is: an offer anywhere on its way (`Travels(RemoteOffer, r)`),
an answer that is at a desktop's connection or at that of `r` itself, or none, in which case
it is over. An answer at another remote's connection is deliberately counted as lost: only
an answer that arrives where it should can lead to `connected`. The code has no
message that tells anybody of an exchange that is over, so the mapping is the only place
where it is seen.

### RemoteConnections

`loop` is the place of `handle_signalling_requests` among its awaits, `current` the offer
in hand, `remote` the connection kept in `remote_ref`, `victim` one that is being dropped.
`thread[o]` is the OS thread of an offer. The results that the thread sends over
`connection_tx`, `answer_tx` and `ports_tx` are read off its stage. The unbuffered Go
channel `StopNotifier` is a rendezvous: `receiver[o]` is the receive at the end of
`hammer_rtp2rtc_start`, and `Stop` is a send and the receive in one step, for the
signalling loop (`RemoteConnection::drop`) or for the server's own thread
(`PionServer::drop`). The second sender never meets a receive: its own thread is the
only one that would. The model keeps the case, for that is what the finding is about;
for the same reason the branch of `DropRemote` for a raised flag is never taken. `KeptServerIsUp`
says why: the flag of a kept connection is down.

Every early return is an action or a branch: an offer that does not decrypt, a null
connection, a null description or answer, ffmpeg that does not start, an answer that cannot
be encrypted, an answer that cannot be sent. A Go panic (ports, tracks, closing)
aborts the program (`process`).

### DesktopApp and WorkThread

The interface is drawn frame by frame, and a screen does everything it does while it is
drawn: it looks at its widgets, polls its channel, and returns the screen that is to follow.
One frame is one action, `Frame(s, next)`; `Pack` is what `UI::update` does around it, with
the flag that asks for the window to be measured. An attempt is one click on Start whose
input was valid: its task on the work thread (`task`), the receiver that the set-up screen
polls (`polled`), its WebSocket (`socket`) and, once the socket went on to the key
generation screen and the signalling loop, `wss`. A task that returns when its receiver is
gone panics in `spawn_task`'s unwrap (`lost`). Going back from a failed key generation
drops the socket that was granted. The window may close at any time.

`WorkThread` is the start of the work thread: the parent alternates between looking at
the oneshot channel and parking; the worker builds its runtime, sends the handle and
unparks. `token` is the parent's unpark token, which makes an early unpark count; a park may
also return without it.

### EggSignalling

One attempt is one submission of the form with its own closure of
`SignallingStateMachine`. An invocation of `onmessage` runs to its first await
(`OnMessage`), is then in `suspended`, and later goes on (`OfferReady`, `AnswerDecrypted`) or
throws (`OnMessageFails`). Meanwhile other events run, the next message of the same socket
included. The several awaits of one handler are one suspension: nothing between
them is visible to other handlers. The form can be submitted until it is hidden, because
`enabled`, which the code sets, is no property of a form; `overlapped` is a history variable
that says whether a submission was made while another was under way, for the premise of
`StreamsAgree`. The server is what Rooster looks like to the page: a response, then an
answer to an offer, or a drop, of which no handler is told. An attempt may also end before it has
a socket: its fields are refused (`Rejected`), or `new WebSocket` throws (`ConnectThrows`).

### Input

`InputPackets` has the conversions as operators. A key's value goes through the string
comparison of `keyEventToKeyInput`, which takes every name (`Enter`, `Shift`) for a visible
character, since a name's first letter is one; such a packet is sent and
does not deserialise. `keyCode` is never an own property of an event, so no raw key is
sent. `InputStream` has the remote's controls, the ordered data channel, and the callback
that presses and releases on the desktop. What a release cannot be expected for is
in `stuck`: a key released under another value (Shift changed, an input method took it), the
focus lost, a button that goes up beside the video (`ReleaseElsewhere`), a stream that ended with keys
down. `input.setup` does not wait for the channel: what is pressed before `ChannelOpens` is not sent. `Drained` is what the desktop will hold when the
channel is empty; it says of each input what the last packet about it does, instead of handling the
packets one after the other, so that it can be reasoned about for a channel of any length. `Init` has an earlier stream leave keys
down. When the server's thread returns, a callback under way may find its closure freed
(`HandleTooLate`): it acts or does not.

`PointerPosition` moves the pointer over windows of any size, with bars beside the picture
or above it, and compares with a reference that places the picture independently. Coordinates
are exact fractions where the code has 32-bit floats; the video has the monitor's ratio.

## 3. Runs

| Run | Instance | Checks |
|---|---|---|
| `signalling_reuse` | 2 desktops, 2 remotes, one name, numbers wrap at 2 | `TypeOK`, `PeerTableSound`, `AtMostOneCopy` |
| `signalling_names` | 2 desktops with a name and a remote each | `NameIsolation`, `RelayingHomeIsListed`, `NoPanic` |
| `signalling_peers` | 1 desktop, 3 remotes, 4 numbers | `AnswerReachesOfferer`, `PeerIdsUnique`, `NoPacketIsLost`, `HomeDroppedOnlyForGonePeer`, `ImplementsService` |
| `signalling_liveness` | 2 desktops of one name, 1 remote, fairness | `DisplacedHandlerEnds`, `OfferSettled` |
| `remote_connections` | 3 offers, fairness | `TypeOK`, `OneVideo`, `KeptServerIsUp`, `LeaksHaveNoVideo`, `NoWaitIsInVain`, `FailureKeepsStream`, `ReplacementCompletes`, `OfferAnswered` |
| `desktop_app` | 3 attempts, fairness | `TypeOK`, `OneConnection`, `ResultsAreReceived`, `ErrorIsLatest`, `WindowFitsScreen`, `WakeUpIsNotLost`, `StartUpEnds`, `OutcomesShown` |
| `egg_signalling` | 3 submissions, fairness | `TypeOK`, `PacketsFindTheirState`, `StreamsAgree`, `AttemptsEnd` |
| `input_stream` | a digit, the same digit of the keypad, Shift, a mouse button, 2 packets in flight, fairness | `TypeOK`, `DesktopFollowsHands`, `ReleasesArrive` |
| `pointer_position` | 4 windows, 2 monitors | `PointerFollowsPicture` |

Three runs show a disagreement between the code and what its comments or assertions
say (section 5).

**Bounds.** An offer, an answer, a connection, an attempt and a submission are used once, so
every instance but that of `InputStream` is finite without a constraint. Two desktops of
one name are enough for an entry to be replaced and removed by the wrong handler, and
stand for a desktop that reconnects; two remotes and two numbers let the counter wrap.
Three remotes let one leave, one take its place in the order and one wait. The wrap needs
2^32 remotes in the program; the instance shows it at 2, and `signalling_peers` and the
proofs of unique numbers stay below it. Three offers are one that is kept, one
that replaces it or fails, and one after that; three attempts or submissions are one that fails,
one that overlaps it or follows it, and a last one. `InputStream` has one bound,
`MaxInFlight`, in the guards of `Press` and `Release`: with a packet in the callback and two in
the channel, a press, its release and a press again are on their way together. Two of its keys
have one value until Shift makes it a visible character of the one and a named key, which is a
special key on the desktop, of the other: a release of either lets go of both. The third key is
Shift, whose packet cannot be deserialised. The windows of `pointer_position` are wider and
higher than each monitor's ratio, larger and smaller. Connections that use one name are
interchangeable, so `signalling_reuse` and `signalling_peers`, which check safety alone
(`ImplementsService` has no fairness), use symmetry; no run with a liveness property does.

**Deadlock.** The runs of `InputStream` and `PointerPosition` check it. The others switch the
check off: the clients may all have come and gone, the window may be closed, every
submission made and answered, after which nothing happens.

**Fairness.** `RoosterFairness` is weak fairness of each handler's steps: Tokio polls
every task that was woken, and a write to a socket completes or fails. Nothing
forces a client to connect, to leave, or `accept` to fail. `ClientFairness` is weak
fairness of a client's reaction to a packet it was sent; leaving is not forced. In
`RemoteConnections` the operating system runs every thread and library calls return
(with success or failure), except the two calls that the model makes blocking: the
send in `hammer_rtp2rtc_stop` and the receive in `hammer_rtp2rtc_start`. No offer has to
arrive, the connection need not end, and nothing has to panic. In `DesktopApp` the operating
system runs the parent, the worker and the key thread, and the first screen is made; a
server need not answer, and no frame need be drawn. The code never asks for a
repaint, so that a result is seen only if something else causes one: `OutcomesShown` has
this as a premise (`Attended`). In `EggSignalling` the browser runs handlers and
promises settle; the server need not answer. In `InputStream` Pion's goroutine reads on and
the callback returns; nobody has to press or release anything.

**What liveness says.** `OfferSettled` counts an exchange as settled when the remote's
socket or a desktop connection of the name has ended: the code drops queued offers then and
tells nobody, so nothing stronger holds. `DisplacedHandlerEnds` says that the handlers
which lost their place in the map, by whatever of the races above, do end.
`StartUpEnds` excepts the panic of the worker that finds the parent parked, for then
nobody unparks it. `AttemptsEnd` begins with a packet that has arrived: a page whose socket was
dropped waits for good.

Three of them have a safety property beside them that says what they rest on and that is proved:
`NoPacketIsLost` for `OfferSettled` (an egg that waits has its packet on the way), `NoWaitIsInVain`
for `OfferAnswered` and `ReplacementCompletes` (the work thread awaits a thread that can still send,
and stops a server that can still receive), `WakeUpIsNotLost` for `StartUpEnds`.

## 4. Proofs

All theorems hold for every choice of the constants that satisfies the named assumptions:
`ConnsAssumption` and `IdModulusAssumption` for signalling; elsewhere that `None` is no offer
or attempt (`NoneAssumption`), that keys, buttons and their values are told apart
(`ControlsAssumption`, `KeyValuesDiffer`) and that windows and monitors have positive sizes
(`SizesAssumption`).

- `SignallingProofs`: `TableInv` (the table's type, each peer in it holds its
  number and asked for its name, a relaying remote has a number) is inductive; it gives
  `PeerTableIsSound`. With it `PacketInv` (every packet in a queue is one of the packets, of a
  remote whose name is the queue's connection's) is inductive; it gives
  `TypeCorrect` and `NamesAreIsolated`. The strengthening is needed because
  a relay action takes a packet from one queue and addresses another through the table.
- `DistinctNamesProofs`, for `DistinctNames`: `ListedInv` (an entry's desktop is past its
  insertion, a relaying desktop's entry is its own) is inductive, since the only
  handler that removes an entry is then its own. It gives `HomeStaysListed` and
  `HomeNeverPanics`. With fewer remotes than numbers (`FewRemotes`), the counter of
  an entry is the number of remotes numbered so far, all below it and different
  (`NumberInv`), which gives `PeerIdsAreUnique`. The argument is why freeing a number on
  removal would be wrong.
  With the same assumptions every offer past the relay and every answer carries
  its own remote's number (`ExactInv`); with unique numbers the look-up can only find that
  remote, which gives `AnswersReachOfferers`. A remote that waits stays in the entry under
  its number (`WaitingPeerIsListed`), so that the only answer which ends a desktop's handler
  is one whose remote has gone: `HomeDroppedForGonePeer`.
- `ExchangeProofs`, names reused or not: all queues are taken as one function. A step either
  narrows it (queues lose their head or everything) or appends one packet, and then that
  packet concerns no remote, is the first to concern its remote, or was the head that
  another queue loses in the same step (`Moves`). So a remote's packet has one position at
  most, and none before its egg has sent the offer (`UniqueInv`), from which the
  cardinalities of `CopiesAreUnique` follow.
  With `DistinctNames` and `FewRemotes` again: `SignallingImplementsService`. From `UniqueInv`
  an exchange has an offer or an answer on its way but not both (`Exclusive`), so
  its stage is determined. A step in which no client sends lets nothing travel that did not
  before and maps to `Abandon` of the exchanges whose packet it lost
  (`AbandonLemma`); sending the offer maps to `MakeOffer`, or to `Abandon` when the server
  had dropped the socket; answering maps to `GiveAnswer`, or to a stutter when the egg
  had left; taking the answer maps to `Connect`, because `ExactInv` makes it the egg's own.
  `PacketsAreNotLost` follows the packet itself: the connection that holds it is the remote's
  or its desktop's (`HolderLemma`), no connection reopens (`LinksClose`), and a step that
  leaves that connection open leaves the packet with one of the two (`Holding`); a client that has
  not connected holds none (`AbsentInv`), which is why the end of `accept` severs every exchange.
- `RemoteConnectionsProofs`: `IInv` relates the loop, the threads
  and the rendezvous. A server whose ports are out stays up until the drop of its own
  `RemoteConnection`, because that drop is the only stop that can meet its receive; the
  current, the kept and the dropped connection are of different offers while that matters;
  an offer that was not answered was not started before. It gives `TypeCorrect`,
  `VideoIsOne`, `KeptServerStaysUp` and the action property `FailuresKeepStream`. `LeakIInv` adds
  what is known of a thread that nothing owns, for `LeaksStreamNothing`. `CurrentInv`, what the loop has
  learnt from the current offer's channels, gives `WaitsEnd`.
- `DesktopAppProofs`: `IInv` says that the receiver of the set-up screen and the socket of
  the later screens are never there at once and that a task under way is the polled
  one. It gives `TypeCorrect`, `ConnectionIsOne`, `ResultsFindReceivers`, `ErrorsAreLatest` and
  `WindowIsPacked`. `WakeUpArrives` needs that an empty channel means a handle yet to be sent
  (`HandleInv`): the unpark then comes after the look that led to the park.
- `EggSignallingProofs`: a submission's phase relates its state, inbox, suspended handlers
  and what the server has done, and fixes which packets can be on their way
  (`Phase`). It gives `TypeCorrect` and `EveryPacketExpected`; with the phases of other
  submissions while none overlaps (`InTurn`) also `SubmissionsDoNotMix`.
- `InputStreamProofs`, for any keyboard, mouse and bound of the channel: a packet that is
  appended decides about its input alone, and about the others the last packets stay the last
  (`HandledLast`); a packet that is taken is either followed by one about its input or has its
  effect (`HandledFirst`). So sending changes `Drained` as handling would, and receiving and
  handling leave it as it is. `DesktopKeepsUp` then goes by what each control was last sent
  as (`SentIsLast`, `PressFollows`, `ReleaseFollows`), where two keys may be sent as one input.
- `PointerPositionProofs`: `PointerIsWhereSeen`, for any windows and monitors at the desktop's
  origin (`AtOrigin`, for `handle_input` does not add a monitor's position). The quotients
  are cleared of their denominators (`Division`, `Cancel`), and rounding to the nearest pixel is
  within one of rounding down (`Rounding`). `MoveFollows` holds of a monitor anywhere, counted from
  its corner.

`DistinctNames` says that no two desktop connections have one name. The check of the name is meant to
ensure that of connections at the same time; section 5 shows that it does not, and what fails then. The
assumption is stronger: it also excludes a desktop that disconnects and connects again under its
name, one after the other. That case, like the race, is in the runs of one name
(`signalling_reuse`, `signalling_liveness`) and in the theorems that do not assume `DistinctNames`:
those of `SignallingProofs`, and `CopiesAreUnique`.

Every invariant and action property that a passing run checks is proved. Only model-checked, and
out of the prover's reach, are the liveness properties, which rest on fairness: `DisplacedHandlerEnds`,
`OfferSettled`, `ReplacementCompletes`, `OfferAnswered`, `StartUpEnds`, `OutcomesShown`, `AttemptsEnd` and
`ReleasesArrive`. So is that `Drained` is what handling the packets one by one leaves: that is an
induction over the channel, and the lemmas above say what it does for one packet more at either end.

## 5. What the code does otherwise than it says

| Run | Source | What happens |
|---|---|---|
| `refusal_without_desktop` | `main.rs:253` | A desktop handler that ends by an error of its reading side returns before the clean-up. "Oops there's already another computer with this name" is then said of no computer. |
| `answer_relay_panics` | `main.rs:232` | Two desktops pass the check of one name; one's clean-up removes the other's entry; the other's next answer unwraps `None`. |
| `stop_after_stop` | `main.go:300` | A second `hammer_rtp2rtc_stop` blocks for good, where `pion.rs:80-82` says it has no effect. |

Other things that the models show without a run of their own, mostly as the exception or
premise of a property:

- The race of `answer_relay_panics` can also send an answer to another egg: its number
  is looked up in the entry of the second desktop (`main.rs:232`; `AnswerReachesOfferer` needs
  `DistinctNames`).
- `PionServer::drop` blocks before it frees the server (`net.rs:303`), each time one is replaced.
- When ffmpeg does not start, the Pion server of that offer runs on and nothing owns it
  (`net.rs:382`; `LeaksHaveNoVideo` names it).
- A panic of the work thread that finds the parent parked leaves it so (`work.rs:45`;
  `StartUpEnds` names it).
- The label of the running screen says connected after the signalling loop has ended
  (`running.rs:76`).
- The form can be submitted twice, which makes two state machines share one video and one
  input handler (`index.ts:38-40`; the premise of `StreamsAgree`).
- An address whose port is no number passes the check (`index.ts:119`); the exception of
  `new WebSocket` is caught and nothing is shown (`ConnectThrows`).
- Keys and buttons pressed before the input channel is open are lost, with an exception in the
  handler (`input.ts:12`; `ChannelOpens`).
- A button that goes up beside the video stays down on the desktop (`input.ts:37`;
  `ReleaseElsewhere`).
- Special keys whose names begin with a letter are sent as `alpha_key` and do not
  deserialise (`input.ts:95`).
- The input callback may run while its closure is dropped (`net.rs:409`; `HandleTooLate`).
- The monitor's position is not added to the pointer's (`input.rs:13`), and moves over the
  bars beside the picture lead out of it (`input.ts:64-66`).

## 6. Not modelled

- TLS, certificates, command lines, logging and layout; BSON, magic and version of a packet.
- The content of RTP packets and session descriptions, and the cryptography: a decryption or
  encryption succeeds or fails.
- WebRTC itself between egg and desktop; a stream that dies by itself is not noticed by the
  desktop, which has no handler for it.
- Timeouts: the code has none, so none are modelled; a peer that is silent for good is covered by
  never being forced to act.
- An error of `kill` (`net.rs:50-52`): it fails only of a child that has been waited for, and
  nothing waits for ffmpeg. The error for missing ports (`net.rs:381`): `hammer_rtp2rtc_start`
  panics before it would return without having sent them.
- ffmpeg after the program has ended: `RemoteConnection::drop` is what kills it, and a process
  that exits runs no drops.
- The wheel, which changes nothing that is held, and the focus of the video element, which is
  assumed until the window loses it.
- The precision of 32-bit floats in positions.
- The pointer to a temporary in `pion.rs:112`: the memory is taken to keep its value while the
  server starts.
- Text fields and widgets of the interface, the file dialogs (a file is written or not).

## 7. Plan

Done: signalling with its abstract service, remote connections, the desktop's interface and
work thread, the egg's page, and input. What could follow:

1. `Hammeregg`: `Signalling` with a `RemoteConnections` per desktop and an `EggSignalling` per
   browser, for what an egg that was told of success can count on.
2. Pointer moves and buttons in one channel: a click lands where the pointer was.
3. An abstract specification of a desktop's stream (one at a time, replaced only by an answered
   offer), and the proof that `RemoteConnections` implements it.
