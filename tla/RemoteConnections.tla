------------------------- MODULE RemoteConnections -------------------------
(***************************************************************************)
(* How Hammeregg Desktop serves remote offers (hammeregg_backend/src/net.rs*)
(* over rtp2rtc/main.go).  The signalling loop handles one offer at a time *)
(* on the work thread.  Each valid offer gets an OS thread of its own that *)
(* runs a Pion server, and a ffmpeg process that feeds it; the answered    *)
(* offer's RemoteConnection replaces the one before, whose drop stops its  *)
(* server over an unbuffered Go channel: the stop and the receive at the   *)
(* end of hammer_rtp2rtc_start are one step of both threads.               *)
(*                                                                         *)
(* Decryption, Pion, ffmpeg and encryption may each succeed or fail.       *)
(*                                                                         *)
(* A definition F_Change is F with a plausible mistake in it, used by no   *)
(* action.                                                                 *)
(***************************************************************************)
EXTENDS Naturals

CONSTANTS
    Offers,     \* the RemoteOffer packets that the signalling server delivers
    None        \* no offer

ASSUME NoneAssumption == None \notin Offers

VARIABLES
    loop,           \* what handle_signalling_requests is doing
    current,        \* the offer it is handling, whose locals are alive
    remote,         \* remote_ref: whose RemoteConnection is kept
    victim,         \* whose RemoteConnection is being dropped
    answer,         \* the answer that was sent, or is about to be
    thread,         \* where the offer's OS thread is
    receiver,       \* the receive of StopNotifier in hammer_rtp2rtc_start
    stopNotifier,   \* the shared flag of RemoteConnection and PionServer
    video,          \* the ffmpeg process
    process         \* a Go panic ends the whole program

loopVars == <<loop, current, remote, victim, answer>>
serverVars == <<thread, receiver, stopNotifier>>
vars == <<loopVars, serverVars, video, process>>

\* reading: at recv.next(); connection, answer, ports: at the await of that channel
\* of start_pion_server; video, sealing: at stream_video, at the encryption;
\* dropping: reading the flag in RemoteConnection::drop; stopping: in
\* hammer_rtp2rtc_stop; sending: at send.send; ended: the loop has returned.
LoopStages == {"reading", "connection", "answer", "ports", "video", "sealing",
               "dropping", "stopping", "sending", "ended"}

\* none: not spawned; init, signal, start: before that call of the thread's closure
\* has its effect; bound: the ports are out; started: waiting in, or past, the
\* receive; dropping: PionServer's drop begins; stopping: in its
\* hammer_rtp2rtc_stop; freed: past hammer_rtp2rtc_free; rejected: no connection.
ThreadStages == {"none", "init", "signal", "start", "bound", "started",
                 "dropping", "stopping", "freed", "rejected"}

TypeOK ==
    /\ loop \in LoopStages
    /\ current \in Offers \cup {None}
    /\ remote \in Offers \cup {None}
    /\ victim \in Offers \cup {None}
    /\ answer \in [Offers -> {"none", "success", "failure"}]
    /\ thread \in [Offers -> ThreadStages]
    /\ receiver \in [Offers -> {"none", "waiting", "done"}]
    /\ stopNotifier \in [Offers -> BOOLEAN]
    /\ video \in [Offers -> {"none", "running", "killed"}]
    /\ process \in {"running", "aborted"}
    /\ victim = None <=> loop \notin {"dropping", "stopping"}
    /\ current = None => loop \in {"reading", "dropping", "stopping", "ended"}

Init ==
    /\ loop = "reading"
    /\ current = None /\ remote = None /\ victim = None
    /\ answer = [o \in Offers |-> "none"]
    /\ thread = [o \in Offers |-> "none"]
    /\ receiver = [o \in Offers |-> "none"]
    /\ stopNotifier = [o \in Offers |-> FALSE]
    /\ video = [o \in Offers |-> "none"]
    /\ process = "running"

-----------------------------------------------------------------------------
(***************************************************************************)
(* The signalling loop.                                                    *)
(***************************************************************************)
LoopAt(stage) == process = "running" /\ loop = stage

Decide(o, result) == answer' = [answer EXCEPT ![o] = result]

\* The Err path of handle_remote_offer: the remote is told, the kept one stays.
Fail(o) ==
    /\ loop' = "sending"
    /\ Decide(o, "failure")
    /\ UNCHANGED <<current, remote, victim>>

\* The initialisation vector, the key and the payload are checked and decrypted
\* before anything is started.
RejectOffer(o) ==
    /\ LoopAt("reading")
    /\ answer[o] = "none"
    /\ current' = o
    /\ loop' = "sending"
    /\ Decide(o, "failure")
    /\ UNCHANGED <<remote, victim, serverVars, video, process>>

StartServer(o) ==
    /\ LoopAt("reading")
    /\ answer[o] = "none"
    /\ current' = o
    /\ loop' = "connection"
    /\ thread' = [thread EXCEPT ![o] = "init"]
    /\ UNCHANGED <<remote, victim, answer, receiver, stopNotifier, video, process>>

AwaitConnection_IgnoresNull ==
    /\ LoopAt("connection")
    /\ thread[current] \notin {"init", "rejected"}
    /\ loop' = "answer"
    /\ UNCHANGED <<current, remote, victim, answer, serverVars, video, process>>

AwaitConnection ==
    /\ LoopAt("connection")
    /\ thread[current] # "init"
    /\ IF thread[current] = "rejected" THEN Fail(current)
       ELSE loop' = "answer" /\ UNCHANGED <<current, remote, victim, answer>>
    /\ UNCHANGED <<serverVars, video, process>>

AwaitAnswer_IgnoresError ==
    /\ LoopAt("answer")
    /\ thread[current] # "signal"
    /\ loop' = "ports"
    /\ UNCHANGED <<current, remote, victim, answer, serverVars, video, process>>

\* The thread's answer is Err exactly when it returns without starting.
AwaitAnswer ==
    /\ LoopAt("answer")
    /\ thread[current] # "signal"
    /\ IF thread[current] \in {"dropping", "stopping", "freed"} THEN Fail(current)
       ELSE loop' = "ports" /\ UNCHANGED <<current, remote, victim, answer>>
    /\ UNCHANGED <<serverVars, video, process>>

\* The ports are there, or the program is gone: hammer_rtp2rtc_start panics before it
\* would return without having sent them, so the error for none is never made.
AwaitPorts ==
    /\ LoopAt("ports")
    /\ thread[current] # "start"
    /\ loop' = "video"
    /\ UNCHANGED <<current, remote, victim, answer, serverVars, video, process>>

StreamVideo ==
    /\ LoopAt("video")
    /\ video' = [video EXCEPT ![current] = "running"]
    /\ loop' = "sealing"
    /\ UNCHANGED <<current, remote, victim, answer, serverVars, process>>

\* ffmpeg does not start: `?` returns before there is a RemoteConnection whose drop
\* would stop the server that runs by now.
StreamVideoFails ==
    /\ LoopAt("video")
    /\ Fail(current)
    /\ UNCHANGED <<serverVars, video, process>>

Seal_ForgetsPrevious ==
    /\ LoopAt("sealing")
    /\ remote' = current
    /\ Decide(current, "success")
    /\ loop' = "sending"
    /\ UNCHANGED <<current, victim, serverVars, video, process>>

\* The answer is encrypted, and replace drops the RemoteConnection that was kept.
Seal ==
    /\ LoopAt("sealing")
    /\ remote' = current
    /\ victim' = remote
    /\ Decide(current, "success")
    /\ loop' = IF remote = None THEN "sending" ELSE "dropping"
    /\ UNCHANGED <<current, serverVars, video, process>>

SealFails_AfterReplace ==
    /\ LoopAt("sealing")
    /\ remote' = current
    /\ victim' = remote
    /\ Decide(current, "failure")
    /\ loop' = IF remote = None THEN "sending" ELSE "dropping"
    /\ UNCHANGED <<current, serverVars, video, process>>

\* An encryption step fails: new_remote goes out of scope.
SealFails ==
    /\ LoopAt("sealing")
    /\ victim' = current
    /\ Decide(current, "failure")
    /\ loop' = "dropping"
    /\ UNCHANGED <<current, remote, serverVars, video, process>>

AfterDrop_AlwaysSends == "sending"

\* What follows the drop of a RemoteConnection: the answer, or the loop's return.
AfterDrop == IF current = None THEN "ended" ELSE "sending"

\* RemoteConnection::drop.  A server that has set the flag is not stopped again,
\* and its ffmpeg is not killed.
DropRemote ==
    /\ LoopAt("dropping")
    /\ IF stopNotifier[victim]
       THEN loop' = AfterDrop /\ victim' = None
       ELSE loop' = "stopping" /\ UNCHANGED victim
    /\ UNCHANGED <<current, remote, answer, serverVars, video, process>>

KillVideo_Forgotten(o) == video' = video

\* kill fails only of a child that has been waited for, which nothing here does.
KillVideo(o) == video' = [video EXCEPT ![o] = "killed"]

SendAnswer ==
    /\ LoopAt("sending")
    /\ loop' = "reading"
    /\ current' = None
    /\ UNCHANGED <<remote, victim, answer, serverVars, video, process>>

\* The stream of packets ends, or an answer cannot be sent; remote_ref is dropped.
EndLoop ==
    /\ LoopAt("reading") \/ LoopAt("sending")
    /\ current' = None
    /\ remote' = None
    /\ victim' = remote
    /\ loop' = IF remote = None THEN "ended" ELSE "dropping"
    /\ UNCHANGED <<answer, serverVars, video, process>>

-----------------------------------------------------------------------------
(***************************************************************************)
(* The thread of an offer.                                                 *)
(***************************************************************************)
ThreadAt(o, stage) == process = "running" /\ thread[o] = stage

ThreadGoes(o, stage) ==
    /\ thread' = [thread EXCEPT ![o] = stage]
    /\ UNCHANGED <<loopVars, video>>

\* hammer_rtp2rtc_init, and its result to connection_tx.
PionInit(o) ==
    /\ ThreadAt(o, "init")
    /\ \E stage \in {"signal", "rejected"} : ThreadGoes(o, stage)
    /\ UNCHANGED <<receiver, stopNotifier, process>>

\* build_offer and signal_offer, and their result to answer_tx; an early return
\* drops the PionServer.
PionSignal(o) ==
    /\ ThreadAt(o, "signal")
    /\ \E stage \in {"start", "dropping"} : ThreadGoes(o, stage)
    /\ UNCHANGED <<receiver, stopNotifier, process>>

\* hammer_rtp2rtc_start up to the ports callback.
PionBind(o) ==
    /\ ThreadAt(o, "start")
    /\ ThreadGoes(o, "bound")
    /\ UNCHANGED <<receiver, stopNotifier, process>>

\* A port cannot be bound, a packet cannot be passed on, or a Close fails: Go
\* panics, and the program is gone.
PionPanics(o) ==
    /\ process = "running"
    /\ thread[o] \in {"start", "bound", "started"}
    /\ process' = "aborted"
    /\ UNCHANGED <<loopVars, serverVars, video>>

\* The rest of hammer_rtp2rtc_start, up to <-StopNotifier.
PionServe_NeverReceives(o) ==
    /\ ThreadAt(o, "bound")
    /\ ThreadGoes(o, "dropping")
    /\ UNCHANGED <<receiver, stopNotifier, process>>

PionServe(o) ==
    /\ ThreadAt(o, "bound")
    /\ ThreadGoes(o, "started")
    /\ receiver' = [receiver EXCEPT ![o] = "waiting"]
    /\ UNCHANGED <<stopNotifier, process>>

\* Past the receive the connection is closed and hammer_rtp2rtc_start returns.
PionClose(o) ==
    /\ ThreadAt(o, "started")
    /\ receiver[o] = "done"
    /\ ThreadGoes(o, "dropping")
    /\ UNCHANGED <<receiver, stopNotifier, process>>

\* PionServer::drop up to its hammer_rtp2rtc_stop.
PionDrop(o) ==
    /\ ThreadAt(o, "dropping")
    /\ stopNotifier' = [stopNotifier EXCEPT ![o] = TRUE]
    /\ ThreadGoes(o, "stopping")
    /\ UNCHANGED <<receiver, process>>

-----------------------------------------------------------------------------
\* hammer_rtp2rtc_stop: a send on an unbuffered channel, which returns once it has
\* met the receive.  The loop's kills the video then, the thread's frees the server.
Stop(o, sender) ==
    /\ process = "running"
    /\ receiver[o] = "waiting"
    /\ IF sender = "loop" THEN loop = "stopping" /\ victim = o
                          ELSE thread[o] = "stopping"
    /\ receiver' = [receiver EXCEPT ![o] = "done"]
    /\ IF sender = "loop"
       THEN /\ KillVideo(o)
            /\ loop' = AfterDrop
            /\ victim' = None
            /\ UNCHANGED <<current, remote, answer, thread>>
       ELSE ThreadGoes(o, "freed")
    /\ UNCHANGED <<stopNotifier, process>>

HandleOffer == \E o \in Offers : RejectOffer(o) \/ StartServer(o)

LoopStep == AwaitConnection \/ AwaitAnswer \/ AwaitPorts \/ StreamVideo
                \/ StreamVideoFails \/ Seal \/ SealFails \/ DropRemote
                \/ SendAnswer

ThreadStep(o) == PionInit(o) \/ PionSignal(o) \/ PionBind(o)
                     \/ PionServe(o) \/ PionClose(o) \/ PionDrop(o)

StopStep(o) == \E sender \in {"loop", "server"} : Stop(o, sender)

Next == \/ HandleOffer \/ LoopStep \/ EndLoop
        \/ \E o \in Offers : ThreadStep(o) \/ StopStep(o) \/ PionPanics(o)

Spec == Init /\ [][Next]_vars

\* Both threads run, and the calls they make return; nobody has to send an offer
\* or to end the connection, and nothing has to panic.
FairSpec == /\ Spec
            /\ WF_vars(LoopStep)
            /\ \A o \in Offers : WF_vars(ThreadStep(o)) /\ WF_vars(StopStep(o))

-----------------------------------------------------------------------------
(***************************************************************************)
(* Properties.                                                             *)
(***************************************************************************)
\* Between two packets there is one ffmpeg at most, the kept remote's: a superseded
\* or failed offer leaves none behind, and neither does the end of the loop.
OneVideo ==
    loop \in {"reading", "ended"} =>
        {o \in Offers : video[o] = "running"} = {remote} \ {None}

\* The server of the kept remote is up and takes input: its thread is on its way
\* to the receive or waits there, and its flag is down.
KeptServerIsUp ==
    remote # None =>
        /\ thread[remote] \in {"bound", "started"}
        /\ receiver[remote] # "done"
        /\ ~stopNotifier[remote]

\* One early return alone leaves a server that nobody will stop, the one over ffmpeg
\* that does not start (net.rs:382): every other server that runs is the kept, the
\* current or the dropped remote's.  And what is left streams nothing to an egg that
\* was told of the failure.
LeaksHaveNoVideo ==
    \A o \in Offers :
        receiver[o] = "waiting" /\ o \notin {remote, current, victim}
            => video[o] = "none" /\ answer[o] = "failure"

\* No await of the work thread is for a thread that has nothing left to send, and no
\* stop of a kept remote for a receive that has been or will not be: whatever of the
\* offers before failed, and where (net.rs:331-363 and 46-50).
NoWaitIsInVain ==
    /\ loop = "connection" => thread[current] # "none"
    /\ loop = "answer" => thread[current] \notin {"none", "init", "rejected"}
    /\ loop = "ports" => thread[current] \in {"start", "bound", "started"}
    /\ loop = "stopping" => /\ thread[victim] \in {"bound", "started"}
                            /\ receiver[victim] # "done"

\* An egg that was told of success streams, until a later offer succeeds or the
\* loop ends between two packets: no failed offer disturbs it (net.rs:203-265).
FailureKeepsStream ==
    [][\A o \in Offers :
          remote = o /\ remote' # o
          => \/ remote' # None /\ answer'[remote'] = "success"
             \/ remote' = None /\ loop \in {"reading", "sending"}]_vars

\* Replacing a remote does not hang the loop: its stop meets a receive.
ReplacementCompletes == loop = "stopping" ~> loop # "stopping" \/ process = "aborted"

\* Each offer that the loop takes up is answered, one way or the other.
OfferAnswered ==
    \A o \in Offers :
        current = o ~> answer[o] # "none" \/ process = "aborted"

-----------------------------------------------------------------------------
(***************************************************************************)
(* What a comment of the code says and the code does not.                  *)
(***************************************************************************)
\* "Asynchronously requests" the stop, and "any subsequent calls will have no
\* effect": a call returns.
StopReturns ==
    \A o \in Offers :
        thread[o] = "stopping" /\ receiver[o] = "done"
            ~> thread[o] # "stopping" \/ process = "aborted"
=============================================================================
