--------------------------- MODULE EggSignalling ---------------------------
(***************************************************************************)
(* The page of Egg (egg/src/index.ts): the form, and one signalling        *)
(* connection for each time it is submitted.  Signalling takes onmessage   *)
(* for one step; here it stops at its awaits, during which the page goes   *)
(* on with other events.  The server is Rooster: a response to the init,   *)
(* an answer to an offer, or a dropped connection.                         *)
(*                                                                         *)
(* A definition F_Change is F with a plausible mistake in it, used by no   *)
(* action.                                                                 *)
(***************************************************************************)
EXTENDS Sequences

CONSTANTS
    Attempts,   \* submissions of the form
    None        \* no attempt

ASSUME NoneAssumption == None \notin Attempts

VARIABLES
    state,      \* state of an attempt; reading: its password file
    socket,     \* signallingConnection; dropped: by the other side
    inbox,      \* packets for onmessage
    suspended,  \* invocations of onmessage that await something
    described,  \* attempts whose peer connection has its remote description
    server,     \* what the server has done for an attempt
    error,      \* the kind of text in setup_err
    inputs,     \* the attempt that input.setup was called for last
    video,      \* the attempt whose stream the video element shows
    overlapped  \* history: a submission was made while another was under way

connections == <<state, socket, inbox, suspended, described, server>>
page == <<error, inputs, video, overlapped>>
vars == <<connections, page>>

States == {"none", "reading", "rejected", "init", "waitRemoteInitResponse",
           "waitHomeAnswerResponse", "done"}

TypeOK ==
    /\ state \in [Attempts -> States]
    /\ socket \in [Attempts -> {"none", "connecting", "open", "dropped", "closed"}]
    /\ inbox \in [Attempts -> Seq({"granted", "refused", "success", "failure"})]
    /\ suspended \in [Attempts -> SUBSET {"granted", "success"}]
    /\ described \subseteq {a \in Attempts : state[a] = "done"}
    /\ server \in [Attempts -> {"none", "asked", "responded", "offered", "answered"}]
    /\ error \in {"none", "invalid", "password", "signalling", "state"}
    /\ {inputs, video} \subseteq Attempts \cup {None}
    /\ overlapped \in BOOLEAN

Init ==
    /\ state = [a \in Attempts |-> "none"]
    /\ socket = [a \in Attempts |-> "none"]
    /\ inbox = [a \in Attempts |-> <<>>]
    /\ suspended = [a \in Attempts |-> {}]
    /\ described = {}
    /\ server = [a \in Attempts |-> "none"]
    /\ error = "none" /\ inputs = None /\ video = None /\ overlapped = FALSE

Set(f, a, value) == [f EXCEPT ![a] = value]

-----------------------------------------------------------------------------
(***************************************************************************)
(* The form.  Setting its enabled does nothing: it can be submitted until  *)
(* it is hidden.                                                           *)
(***************************************************************************)
UnderWay(a) == state[a] \notin {"none", "rejected", "done"} /\ socket[a] # "closed"

Submit(a) ==
    /\ inputs = None
    /\ state[a] = "none"
    /\ state' = Set(state, a, "reading")
    /\ overlapped' = (overlapped \/ \E b \in Attempts : UnderWay(b))
    /\ UNCHANGED <<socket, inbox, suspended, described, server, error, inputs, video>>

\* All three fields are judged after the password was read.
Rejected(a) ==
    /\ state[a] = "reading"
    /\ state' = Set(state, a, "rejected")
    /\ error' \in {"invalid", "password"}
    /\ UNCHANGED <<socket, inbox, suspended, described, server, inputs, video, overlapped>>

\* initSignallingConnection.
Connects(a) ==
    /\ state[a] = "reading"
    /\ state' = Set(state, a, "init")
    /\ socket' = Set(socket, a, "connecting")
    /\ error' = "none"
    /\ UNCHANGED <<inbox, suspended, described, server, inputs, video, overlapped>>

\* A port that is no number passes the check of the address: new WebSocket throws,
\* and the page shows nothing of it.
ConnectThrows(a) ==
    /\ state[a] = "reading"
    /\ state' = Set(state, a, "rejected")
    /\ error' = "none"
    /\ UNCHANGED <<socket, inbox, suspended, described, server, inputs, video, overlapped>>

-----------------------------------------------------------------------------
(***************************************************************************)
(* The server, and the network between.  A socket that is dropped has no   *)
(* handler that would notice.                                              *)
(***************************************************************************)
Deliver(a, before, packets, after) ==
    /\ socket[a] = "open" /\ server[a] = before
    /\ server' = Set(server, a, after)
    /\ \E p \in packets : inbox' = Set(inbox, a, Append(inbox[a], p))
    /\ UNCHANGED <<state, socket, suspended, described, page>>

Respond(a) == Deliver(a, "asked", {"granted", "refused"}, "responded")

AnswerOffer(a) == Deliver(a, "offered", {"success", "failure"}, "answered")

Drop(a) ==
    /\ socket[a] \in {"connecting", "open"}
    /\ socket' = Set(socket, a, "dropped")
    /\ UNCHANGED <<state, inbox, suspended, described, server, page>>

-----------------------------------------------------------------------------
(***************************************************************************)
(* The handlers of signallingConnection.                                   *)
(***************************************************************************)
OnOpen(a) ==
    /\ socket[a] = "connecting"
    /\ socket' = Set(socket, a, "open")
    /\ server' = Set(server, a, "asked")
    /\ state' = Set(state, a, "waitRemoteInitResponse")
    /\ UNCHANGED <<inbox, suspended, described, page>>

\* The catch of onmessage.  The state stays.
Catch_KeepsSocket(a, thrown) ==
    /\ error' = thrown
    /\ UNCHANGED <<state, socket, described, server, inputs, video, overlapped>>

Catch(a, thrown) ==
    /\ socket' = Set(socket, a, "closed")
    /\ error' = thrown
    /\ UNCHANGED <<state, described, server, inputs, video, overlapped>>

\* assertState
Expected(packet) ==
    IF packet \in {"granted", "refused"} THEN "waitRemoteInitResponse"
    ELSE "waitHomeAnswerResponse"

\* Up to the first await, or to the catch.
OnMessage(a) ==
    /\ inbox[a] # <<>> /\ socket[a] # "closed"
    /\ inbox' = Set(inbox, a, Tail(inbox[a]))
    /\ LET packet == Head(inbox[a]) IN
       IF state[a] = Expected(packet) /\ packet \in {"granted", "success"}
       THEN /\ suspended' = Set(suspended, a, suspended[a] \cup {packet})
            /\ UNCHANGED <<state, socket, described, server, page>>
       ELSE /\ Catch(a, IF state[a] = Expected(packet) THEN "signalling" ELSE "state")
            /\ UNCHANGED suspended

Resume(a, packet) ==
    /\ packet \in suspended[a]
    /\ suspended' = Set(suspended, a, suspended[a] \ {packet})

\* The remote description set before all that can fail has succeeded.
OnMessageFails_Described(a) ==
    /\ \E packet \in suspended[a] : Resume(a, packet)
    /\ described' = described \cup {a}
    /\ socket' = Set(socket, a, "closed")
    /\ error' = "signalling"
    /\ UNCHANGED <<state, inbox, server, inputs, video, overlapped>>

OnMessageFails(a) ==
    /\ \E packet \in suspended[a] : Resume(a, packet)
    /\ Catch(a, "signalling")
    /\ UNCHANGED inbox

\* The candidates are gathered and the payload is encrypted.  send on a socket that
\* is not open says nothing.
OfferReady_KeepsState(a) ==
    /\ Resume(a, "granted")
    /\ server' = IF socket[a] = "open" THEN Set(server, a, "offered") ELSE server
    /\ UNCHANGED <<state, socket, inbox, described, page>>

OfferReady(a) ==
    /\ Resume(a, "granted")
    /\ state' = Set(state, a, "waitHomeAnswerResponse")
    /\ server' = IF socket[a] = "open" THEN Set(server, a, "offered") ELSE server
    /\ UNCHANGED <<socket, inbox, described, page>>

\* setRemoteDescription is not awaited: what it makes of the description is not seen.
AnswerDecrypted(a) ==
    /\ Resume(a, "success")
    /\ described' \in {described, described \cup {a}}
    /\ state' = Set(state, a, "done")
    /\ socket' = Set(socket, a, "closed")
    /\ inputs' = a
    /\ UNCHANGED <<inbox, server, error, video, overlapped>>

\* ontrack
OnTrack(a) ==
    /\ a \in described
    /\ video' = a
    /\ UNCHANGED <<connections, error, inputs, overlapped>>

-----------------------------------------------------------------------------
PageStep(a) ==
    \/ Rejected(a) \/ Connects(a) \/ ConnectThrows(a) \/ OnOpen(a)
    \/ OnMessage(a) \/ OnMessageFails(a) \/ OfferReady(a) \/ AnswerDecrypted(a)

Next ==
    \E a \in Attempts :
        \/ Submit(a) \/ PageStep(a) \/ OnTrack(a)
        \/ Respond(a) \/ AnswerOffer(a) \/ Drop(a)

Spec == Init /\ [][Next]_vars

\* The browser runs the handlers of events, and its promises settle.
FairSpec == Spec /\ \A a \in Attempts : WF_vars(OnMessage(a) \/ OnMessageFails(a)
                                               \/ OfferReady(a) \/ AnswerDecrypted(a))

-----------------------------------------------------------------------------
\* onmessage advances the state only after its awaits, and still every packet of
\* the server finds the state that assertState asks for, whatever the page does
\* meanwhile: an answer follows the offer, and the offer is sent in the step that
\* advances the state (index.ts:209-247).
PacketsFindTheirState == error # "state"

\* Submissions that do not overlap never mix: keys and pointer go to the desktop that
\* is seen, also when attempts have failed before (index.ts:159-164, 278-299).
StreamsAgree == ~overlapped /\ video # None => inputs = video

\* A refusal or an answer that has arrived ends the attempt, with a stream or with an
\* error and a closed socket, however many attempts there are (index.ts:201-300).
AttemptsEnd ==
    \A a \in Attempts :
        /\ (inbox[a] # <<>> /\ server[a] = "answered")
               ~> state[a] = "done" \/ socket[a] = "closed"
        /\ inbox[a] = <<"refused">> ~> socket[a] = "closed"
=============================================================================
