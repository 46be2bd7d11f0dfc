---------------------- MODULE RemoteConnectionsProofs ----------------------
(***************************************************************************)
(* Proofs about RemoteConnections, for any set of offers.                  *)
(*                                                                         *)
(* An offer's server is up (Up) from the moment its ports are awaited to   *)
(* the drop of its RemoteConnection, and the only stop that can reach it   *)
(* is that drop's: the invariant says so of the current offer, of the kept *)
(* one and of the victim, and that these are different while it matters.   *)
(***************************************************************************)
EXTENDS RemoteConnections, TLAPS

BeforeSealed == {"connection", "answer", "ports", "video", "sealing"}

Up(o) ==
    /\ thread[o] \in {"bound", "started"}
    /\ receiver[o] # "done"
    /\ ~stopNotifier[o]

\* How far the thread of an offer is says whether its receive can meet a stop.
ThreadInv ==
    \A o \in Offers :
        /\ receiver[o] = "waiting" => thread[o] = "started"
        /\ receiver[o] = "done" =>
               thread[o] \in {"started", "dropping", "stopping", "freed"}
        /\ stopNotifier[o] => thread[o] \in {"stopping", "freed"}

\* What the loop has learnt from the channels of the current offer's thread.
CurrentInv ==
    loop \in BeforeSealed =>
        /\ current \in Offers
        /\ current # remote
        /\ receiver[current] # "done"
        /\ thread[current] # "none"
        /\ loop = "answer" => thread[current] \notin {"init", "rejected"}
        /\ loop = "ports" => thread[current] \in {"start", "bound", "started"}
        /\ loop \in {"video", "sealing"} => thread[current] \in {"bound", "started"}

\* An offer that was not answered was not started either, the current one apart.
FreshInv ==
    \A o \in Offers :
        answer[o] = "none" =>
            \/ thread[o] = "none"
            \/ loop \in BeforeSealed /\ o = current

StreamInv ==
    /\ remote # None => Up(remote) /\ answer[remote] = "success"
    /\ victim # None => Up(victim) /\ victim # remote

VideoInv ==
    /\ \A o \in Offers : video[o] = "running" =>
           o \in {remote, victim} \/ (loop = "sealing" /\ o = current)
    /\ loop = "sealing" => video[current] = "running"
    /\ remote # None => video[remote] = "running"

IInv == TypeOK /\ ThreadInv /\ CurrentInv /\ FreshInv /\ StreamInv /\ VideoInv

LEMMA InvInit == Init => IInv
BY NoneAssumption
DEF Init, IInv, TypeOK, LoopStages, ThreadStages, ThreadInv, CurrentInv, BeforeSealed,
    FreshInv, StreamInv, VideoInv

LEMMA InvStep == ASSUME IInv, [Next]_vars PROVE IInv'
<1> USE NoneAssumption
    DEF IInv, TypeOK, LoopStages, ThreadStages, BeforeSealed, serverVars, ThreadInv,
        CurrentInv, FreshInv, StreamInv, Up, VideoInv
<1>1. ASSUME NEW o \in Offers, RejectOffer(o) PROVE IInv'
    BY <1>1 DEF RejectOffer, LoopAt, Decide
<1>2. ASSUME NEW o \in Offers, StartServer(o) PROVE IInv'
    BY <1>2 DEF StartServer, LoopAt
<1>3. CASE AwaitConnection
    BY <1>3 DEF AwaitConnection, LoopAt, Fail, Decide
<1>4. CASE AwaitAnswer
    BY <1>4 DEF AwaitAnswer, LoopAt, Fail, Decide
<1>5. CASE AwaitPorts
    BY <1>5 DEF AwaitPorts, LoopAt
<1>6. CASE StreamVideo
    BY <1>6 DEF StreamVideo, LoopAt
<1>7. CASE StreamVideoFails
    BY <1>7 DEF StreamVideoFails, LoopAt, Fail, Decide
<1>8. CASE Seal
    BY <1>8 DEF Seal, LoopAt, Decide
<1>9. CASE SealFails
    BY <1>9 DEF SealFails, LoopAt, Decide
<1>10. CASE DropRemote
    BY <1>10 DEF DropRemote, LoopAt, AfterDrop
<1>11. CASE SendAnswer
    BY <1>11 DEF SendAnswer, LoopAt
<1>12. CASE EndLoop
    BY <1>12 DEF EndLoop, LoopAt
<1>13. ASSUME NEW o \in Offers, PionInit(o) PROVE IInv'
    BY <1>13 DEF PionInit, ThreadAt, ThreadGoes, loopVars
<1>14. ASSUME NEW o \in Offers, PionSignal(o) PROVE IInv'
    BY <1>14 DEF PionSignal, ThreadAt, ThreadGoes, loopVars
<1>15. ASSUME NEW o \in Offers, PionBind(o) PROVE IInv'
    BY <1>15 DEF PionBind, ThreadAt, ThreadGoes, loopVars
<1>16. ASSUME NEW o \in Offers, PionServe(o) PROVE IInv'
    BY <1>16 DEF PionServe, ThreadAt, ThreadGoes, loopVars
<1>17. ASSUME NEW o \in Offers, PionClose(o) PROVE IInv'
    BY <1>17 DEF PionClose, ThreadAt, ThreadGoes, loopVars
<1>18. ASSUME NEW o \in Offers, PionDrop(o) PROVE IInv'
    BY <1>18 DEF PionDrop, ThreadAt, ThreadGoes, loopVars
<1>19. ASSUME NEW o \in Offers, PionPanics(o) PROVE IInv'
    BY <1>19 DEF PionPanics, loopVars, serverVars
<1>20. ASSUME NEW o \in Offers, NEW sender \in {"loop", "server"}, Stop(o, sender)
       PROVE  IInv'
    BY <1>20 DEF Stop, AfterDrop, KillVideo, ThreadGoes, loopVars
<1>21. CASE UNCHANGED vars
    BY <1>21 DEF vars, loopVars
<1> QED
    BY <1>1, <1>2, <1>3, <1>4, <1>5, <1>6, <1>7, <1>8, <1>9, <1>10, <1>11,
       <1>12, <1>13, <1>14, <1>15, <1>16, <1>17, <1>18, <1>19, <1>20, <1>21
    DEF Next, HandleOffer, LoopStep, ThreadStep, StopStep

-----------------------------------------------------------------------------
\* The state of the loop and of every thread keeps its type, and the loop never
\* looks up the thread or the flag of no offer.
THEOREM TypeCorrect == Spec => []TypeOK
<1>1. IInv => TypeOK
    BY DEF IInv
<1> QED
    BY <1>1, InvInit, InvStep, PTL DEF Spec

\* Between two packets the only ffmpeg that runs is the kept remote's, whichever of
\* the offers before failed, and at whatever stage.
THEOREM VideoIsOne == Spec => []OneVideo
<1>1. IInv => OneVideo
    BY NoneAssumption DEF IInv, TypeOK, VideoInv, StreamInv, OneVideo
<1> QED
    BY <1>1, InvInit, InvStep, PTL DEF Spec

\* The server of the kept remote runs, or is about to wait for its stop.
THEOREM KeptServerStaysUp == Spec => []KeptServerIsUp
<1>1. IInv => KeptServerIsUp
    BY DEF IInv, StreamInv, Up, KeptServerIsUp
<1> QED
    BY <1>1, InvInit, InvStep, PTL DEF Spec

\* What the work thread waits for, its current offer's thread can still send and the
\* victim's can still receive.
THEOREM WaitsEnd == Spec => []NoWaitIsInVain
<1>1. IInv => NoWaitIsInVain
    BY DEF IInv, TypeOK, CurrentInv, BeforeSealed, StreamInv, Up, NoWaitIsInVain
<1> QED
    BY <1>1, InvInit, InvStep, PTL DEF Spec

\* No failed offer takes the kept remote's place.
THEOREM FailuresKeepStream == Spec => FailureKeepsStream
<1> DEFINE Keeps == \A o \in Offers :
                       remote = o /\ remote' # o
                       => \/ remote' # None /\ answer'[remote'] = "success"
                          \/ remote' = None /\ loop \in {"reading", "sending"}
<1>1. ASSUME IInv, Next PROVE Keeps
    <2>1. CASE Seal
        BY <1>1, <2>1, NoneAssumption
        DEF Seal, LoopAt, Decide, IInv, TypeOK, CurrentInv, BeforeSealed
    <2>2. CASE EndLoop
        BY <2>2 DEF EndLoop, LoopAt
    <2>3. CASE ~Seal /\ ~EndLoop
        <3>1. remote' = remote
            BY <1>1, <2>3
            DEF Next, HandleOffer, RejectOffer, StartServer, LoopStep, AwaitConnection,
                AwaitAnswer, AwaitPorts, StreamVideo, StreamVideoFails, Fail, SealFails,
                DropRemote, SendAnswer, ThreadStep, ThreadGoes, PionInit, PionSignal,
                PionBind, PionServe, PionClose, PionDrop, PionPanics, StopStep, Stop,
                loopVars
        <3> QED
            BY <3>1
    <2> QED
        BY <2>1, <2>2, <2>3
<1>2. IInv /\ [Next]_vars => [Keeps]_vars
    BY <1>1
<1> QED
    BY <1>2, InvInit, InvStep, PTL DEF Spec, FailureKeepsStream
-----------------------------------------------------------------------------
(***************************************************************************)
(* What runs and is nobody's.  LeakInv names the offers that can: those    *)
(* whose thread is past its start, whose receive met no stop, and which    *)
(* are not, or no longer, in the loop's hands.                             *)
(***************************************************************************)
InHand(o) ==
    \/ o \in {remote, victim}
    \/ loop \in BeforeSealed /\ o = current

Running(o) ==
    /\ thread[o] \in {"init", "signal", "start", "bound", "started"}
    /\ receiver[o] # "done"

\* The video of an offer starts with its answer undecided, and is decided next.
UndecidedInv ==
    /\ loop \in BeforeSealed => answer[current] = "none"
    /\ victim # None => answer[victim] # "none"
    /\ \A o \in Offers :
           answer[o] = "none" /\ ~(loop = "sealing" /\ o = current)
               => video[o] = "none"

LeakInv ==
    \A o \in Offers :
        Running(o) /\ ~InHand(o)
            => /\ thread[o] \in {"bound", "started"}
               /\ video[o] = "none" /\ answer[o] = "failure"

LeakIInv == UndecidedInv /\ LeakInv

LEMMA LeakInit == Init => LeakIInv
BY DEF Init, LeakIInv, UndecidedInv, LeakInv, Running, BeforeSealed

LEMMA LeakStep == ASSUME IInv, LeakIInv, [Next]_vars PROVE LeakIInv'
<1> USE NoneAssumption
    DEF IInv, TypeOK, LoopStages, ThreadStages, BeforeSealed, serverVars, ThreadInv,
        CurrentInv, StreamInv, Up, LeakIInv, UndecidedInv, LeakInv, InHand, Running
<1>1. ASSUME NEW o \in Offers, RejectOffer(o) PROVE LeakIInv'
    BY <1>1 DEF RejectOffer, LoopAt, Decide, FreshInv
<1>2. ASSUME NEW o \in Offers, StartServer(o) PROVE LeakIInv'
    BY <1>2 DEF StartServer, LoopAt
<1>3. CASE AwaitConnection
    BY <1>3 DEF AwaitConnection, LoopAt, Fail, Decide
<1>4. CASE AwaitAnswer
    BY <1>4 DEF AwaitAnswer, LoopAt, Fail, Decide
<1>5. CASE AwaitPorts
    BY <1>5 DEF AwaitPorts, LoopAt
<1>6. CASE StreamVideo
    BY <1>6 DEF StreamVideo, LoopAt
<1>7. CASE StreamVideoFails
    BY <1>7 DEF StreamVideoFails, LoopAt, Fail, Decide
<1>8. CASE Seal
    BY <1>8 DEF Seal, LoopAt, Decide
<1>9. CASE SealFails
    BY <1>9 DEF SealFails, LoopAt, Decide
<1>10. CASE DropRemote
    BY <1>10 DEF DropRemote, LoopAt, AfterDrop
<1>11. CASE SendAnswer
    BY <1>11 DEF SendAnswer, LoopAt
<1>12. CASE EndLoop
    BY <1>12 DEF EndLoop, LoopAt
<1>13. ASSUME NEW o \in Offers, ThreadStep(o) PROVE LeakIInv'
    <2> USE DEF ThreadAt, ThreadGoes, loopVars
    <2>1. CASE PionInit(o)
        BY <2>1 DEF PionInit
    <2>2. CASE PionSignal(o)
        BY <2>2 DEF PionSignal
    <2>3. CASE PionBind(o)
        BY <2>3 DEF PionBind
    <2>4. CASE PionServe(o)
        BY <2>4 DEF PionServe
    <2>5. CASE PionClose(o)
        BY <2>5 DEF PionClose
    <2>6. CASE PionDrop(o)
        BY <2>6 DEF PionDrop
    <2> QED
        BY <1>13, <2>1, <2>2, <2>3, <2>4, <2>5, <2>6 DEF ThreadStep
<1>14. ASSUME NEW o \in Offers, PionPanics(o) PROVE LeakIInv'
    BY <1>14 DEF PionPanics, loopVars
<1>15. ASSUME NEW o \in Offers, NEW sender \in {"loop", "server"}, Stop(o, sender)
       PROVE  LeakIInv'
    BY <1>15 DEF Stop, AfterDrop, KillVideo, ThreadGoes, loopVars
<1>16. CASE UNCHANGED vars
    BY <1>16 DEF vars, loopVars
<1> QED
    BY <1>1, <1>2, <1>3, <1>4, <1>5, <1>6, <1>7, <1>8, <1>9, <1>10, <1>11,
       <1>12, <1>13, <1>14, <1>15, <1>16
    DEF Next, HandleOffer, LoopStep, StopStep

\* A server that waits for a stop which nobody will send is one whose ffmpeg did not
\* start, however many offers came before and after it.
THEOREM LeaksStreamNothing == Spec => []LeaksHaveNoVideo
<1>1. IInv /\ LeakIInv => LeaksHaveNoVideo
    BY DEF IInv, TypeOK, ThreadInv, CurrentInv, BeforeSealed, LeakIInv, LeakInv, InHand,
           Running, LeaksHaveNoVideo
<1>2. Init => IInv /\ LeakIInv
    BY InvInit, LeakInit
<1>3. IInv /\ LeakIInv /\ [Next]_vars => (IInv /\ LeakIInv)'
    BY InvStep, LeakStep
<1> QED
    BY <1>1, <1>2, <1>3, PTL DEF Spec
=============================================================================
