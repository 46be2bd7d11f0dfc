-------------------------- MODULE DesktopAppProofs --------------------------
(***************************************************************************)
(* Proofs about DesktopApp, for any number of attempts.                    *)
(*                                                                         *)
(* The receiver of the set-up screen and the socket of the later screens   *)
(* are never there at once, and a task under way is the polled one: Start! *)
(* is enabled only when nothing is polled, and only a result ends polling. *)
(***************************************************************************)
EXTENDS DesktopApp, TLAPS

ScreenInv ==
    /\ polled # None => screen \in {"setup", "closed"}
    /\ screen \in {"setup", "none", "fatal"} => wss = None
    /\ wss # None => task[wss] = "connected"
    /\ loop = "running" => screen \in {"running", "closed"} /\ wss # None
    /\ screen = "none" => ~packed
    /\ error \in {"input", "connection"} =>
           screen \in {"setup", "closed"} /\ polled = None
    /\ screen \in {"none", "fatal"} => error = "none"

AttemptInv ==
    \A a \in Attempts :
        /\ UnderWay(a) => polled = a
        /\ task[a] \in {"none", "connecting"} => socket[a] = "none"
        /\ task[a] \in {"failed", "panicked"} => socket[a] \in {"none", "closed"}

IInv == /\ TypeOK /\ ScreenInv /\ AttemptInv
        /\ OneConnection /\ ResultsAreReceived /\ WindowFitsScreen

LEMMA InvInit == Init => IInv
BY NoneAssumption
DEF Init, WorkInit, IInv, TypeOK, WorkTypeOK, Screens, TaskStages, ScreenInv, AttemptInv,
    UnderWay, OneConnection, ResultsAreReceived, WindowFitsScreen

LEMMA InvStep == ASSUME IInv, [Next]_vars PROVE IInv'
<1> USE NoneAssumption
    DEF IInv, TypeOK, Screens, TaskStages, ScreenInv, AttemptInv, UnderWay,
        OneConnection, ResultsAreReceived, WindowFitsScreen, window, form, tasks, rest
<1>1. CASE Alive /\ StartUp /\ UNCHANGED <<window, form, tasks, rest>>
    <2>1. WorkTypeOK'
        BY <1>1 DEF StartUp, ParentStep, WorkerStep, WorkTypeOK, TryRecv, Unparked,
                    WakesSpuriously, BuildRuntime, HandOver
    <2> QED
        BY <1>1, <2>1
<1> USE DEF workThread, WorkTypeOK
<1>2. CASE ShowUi
    BY <1>2 DEF ShowUi
<1>3. CASE Redraw
    BY <1>3 DEF Redraw, Frame, Pack
<1>4. CASE WindowCloses
    BY <1>4 DEF WindowCloses
<1>5. CASE RefuseInput
    BY <1>5 DEF RefuseInput, Enabled, Frame, Pack
<1>6. ASSUME NEW a \in Attempts, StartConnection(a) PROVE IInv'
    <2>1. TypeOK'
        BY <1>6 DEF StartConnection, Enabled, Frame, Pack
    <2>2. ScreenInv' /\ WindowFitsScreen'
        BY <1>6 DEF StartConnection, Enabled, Frame, Pack
    <2>3. AttemptInv' /\ OneConnection' /\ ResultsAreReceived'
        BY <1>6 DEF StartConnection, Enabled, Frame, Pack
    <2> QED
        BY <2>1, <2>2, <2>3
<1>7. ASSUME NEW a \in Attempts, CheckFails(a) PROVE IInv'
    BY <1>7 DEF CheckFails, Frame, Pack
<1>8. ASSUME NEW a \in Attempts, CheckSucceeds(a) PROVE IInv'
    <2>1. TypeOK'
        BY <1>8 DEF CheckSucceeds, Frame, Pack
    <2>2. ScreenInv'
        BY <1>8 DEF CheckSucceeds, Frame, Pack
    <2>3. WindowFitsScreen'
        BY <1>8 DEF CheckSucceeds, Frame, Pack
    <2>4. AttemptInv' /\ OneConnection' /\ ResultsAreReceived'
        BY <1>8 DEF CheckSucceeds, Frame, Pack
    <2> QED
        BY <2>1, <2>2, <2>3, <2>4
<1>9. CASE KeysFail
    BY <1>9 DEF KeysFail, Frame, Pack
<1>10. CASE Back
    <2>1. wss \in Attempts
        BY <1>10 DEF Back, Frame
    <2>2. TypeOK'
        BY <1>10, <2>1 DEF Back, Frame, Pack
    <2>3. ScreenInv'
        BY <1>10, <2>1 DEF Back, Frame, Pack
    <2>4. WindowFitsScreen'
        BY <1>10, <2>1 DEF Back, Frame, Pack
    <2>5. AttemptInv' /\ ResultsAreReceived'
        BY <1>10, <2>1 DEF Back, Frame, Pack
    <2>6. OneConnection'
        BY <1>10, <2>1 DEF Back, Frame, Pack
    <2> QED
        BY <2>2, <2>3, <2>4, <2>5, <2>6
<1>11. CASE StartRunning
    BY <1>11 DEF StartRunning, Frame, Pack
<1>12. CASE SavePassword
    BY <1>12 DEF SavePassword, Frame, Pack
<1>13. ASSUME NEW a \in Attempts, Connect(a) PROVE IInv'
    BY <1>13 DEF Connect, Alive
<1>14. ASSUME NEW a \in Attempts, SendHomeInit(a) PROVE IInv'
    BY <1>14 DEF SendHomeInit, Alive
<1>15. ASSUME NEW a \in Attempts, IsGranted(a) PROVE IInv'
    BY <1>15 DEF IsGranted, Returns, Alive
<1>16. ASSUME NEW a \in Attempts, TaskFails(a) PROVE IInv'
    BY <1>16 DEF TaskFails, Returns, Alive
<1>17. CASE GenerateKeys
    BY <1>17 DEF GenerateKeys, Alive
<1>18. CASE LoopEnds
    BY <1>18 DEF LoopEnds, Alive
<1>19. ASSUME NEW a \in Attempts, ServerDrops(a) PROVE IInv'
    BY <1>19 DEF ServerDrops
<1>20. CASE UNCHANGED vars
    BY <1>20 DEF vars
<1> QED
    BY <1>1, <1>2, <1>3, <1>4, <1>5, <1>6, <1>7, <1>8, <1>9, <1>10, <1>11, <1>12,
       <1>13, <1>14, <1>15, <1>16, <1>17, <1>18, <1>19, <1>20
    DEF Next, SetupFrame, KeygenFrame, TaskStep

LEMMA InvHolds == Spec => []IInv
BY InvInit, InvStep, PTL DEF Spec

-----------------------------------------------------------------------------
\* The interface, its tasks and its sockets keep their types.
THEOREM TypeCorrect == Spec => []TypeOK
<1>1. IInv => TypeOK
    BY DEF IInv
<1> QED
    BY <1>1, InvHolds, PTL

\* However attempts fail, connect and are abandoned by going back, the program
\* holds one socket at most, and a screen or the loop owns it.
THEOREM ConnectionIsOne == Spec => []OneConnection
<1>1. IInv => OneConnection
    BY DEF IInv
<1> QED
    BY <1>1, InvHolds, PTL

\* No task of the work thread panics because the screen that waits for it is gone.
THEOREM ResultsFindReceivers == Spec => []ResultsAreReceived
<1>1. IInv => ResultsAreReceived
    BY DEF IInv
<1> QED
    BY <1>1, InvHolds, PTL

\* A connection's error is shown only when no attempt is under way.
THEOREM ErrorsAreLatest == Spec => []ErrorIsLatest
<1>1. IInv => ErrorIsLatest
    BY NoneAssumption DEF IInv, ErrorIsLatest, ScreenInv, AttemptInv
<1> QED
    BY <1>1, InvHolds, PTL

\* Once packed, the window has the size of the screen it shows, whichever screens
\* follow one another.
THEOREM WindowIsPacked == Spec => []WindowFitsScreen
<1>1. IInv => WindowFitsScreen
    BY DEF IInv
<1> QED
    BY <1>1, InvHolds, PTL

-----------------------------------------------------------------------------
(***************************************************************************)
(* The wake-up of start-up.  The parent parks only after it has found the  *)
(* channel empty, and then the handle is still to be sent: every unpark    *)
(* comes after the look that led to the park.                              *)
(***************************************************************************)
HandleInv == handle = "empty" => worker \in {"building", "built"}

LEMMA WakeUpStep ==
    ASSUME WorkTypeOK, HandleInv, WakeUpIsNotLost, [Next]_vars
    PROVE  HandleInv' /\ WakeUpIsNotLost'
<1> USE DEF HandleInv, WakeUpIsNotLost
<1>1. CASE UNCHANGED workThread
    BY <1>1 DEF workThread
<1>2. CASE StartUp
    <2>1. CASE TryRecv
        <3>1. parent' = "parking" => handle = "empty"
            <4>1. CASE handle = "sent"
                BY <2>1, <4>1 DEF TryRecv
            <4>2. CASE handle = "dropped"
                BY <2>1, <4>2 DEF TryRecv
            <4> QED
                BY <4>1, <4>2 DEF WorkTypeOK
        <3>2. worker' = worker /\ handle' = handle
            BY <2>1 DEF TryRecv
        <3> QED
            BY <3>1, <3>2
    <2>2. CASE Unparked \/ WakesSpuriously \/ WorkerStep
        BY <2>2 DEF Unparked, WakesSpuriously, WorkerStep, BuildRuntime, HandOver
    <2> QED
        BY <1>2, <2>1, <2>2 DEF StartUp, ParentStep
<1>3. StartUp \/ UNCHANGED workThread
    BY DEF Next, ShowUi, Redraw, WindowCloses, SetupFrame, RefuseInput, StartConnection,
        CheckFails, CheckSucceeds, KeygenFrame, KeysFail, Back, StartRunning,
        SavePassword, TaskStep, Connect, SendHomeInit, IsGranted, TaskFails, Returns,
        ServerDrops, GenerateKeys, LoopEnds, vars
<1> QED
    BY <1>1, <1>2, <1>3

\* The interface's thread does not sleep through its wake-up.
THEOREM WakeUpArrives == Spec => []WakeUpIsNotLost
<1>1. Init => HandleInv /\ WakeUpIsNotLost
    BY DEF Init, WorkInit, HandleInv, WakeUpIsNotLost
<1>2. IInv => WorkTypeOK
    BY DEF IInv, TypeOK
<1> QED
    BY <1>1, <1>2, InvHolds, WakeUpStep, PTL DEF Spec
=============================================================================
