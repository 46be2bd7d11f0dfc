----------------------------- MODULE DesktopApp -----------------------------
(***************************************************************************)
(* Hammeregg Desktop's interface (hammeregg_backend/src/ui) over the work  *)
(* thread: the set-up, key generation and running screens, the tasks they  *)
(* start, and the channels and sockets they pass on to one another.  A     *)
(* screen polls its channel when it is drawn; one frame is one action.     *)
(*                                                                         *)
(* An attempt is one click on Start with its task, channel and socket.     *)
(***************************************************************************)
EXTENDS WorkThread

CONSTANTS
    Attempts,   \* clicks on Start! whose input is valid
    None        \* no attempt

ASSUME NoneAssumption == None \notin Attempts

VARIABLES
    screen,     \* current_screen; none before run_native, closed after exit
    packed,     \* UI.packed
    sizedFor,   \* the screen that the window's size was measured on
    error,      \* what the screen's error_msg is about
    polled,     \* the attempt of signalling_connection_init
    wss,        \* the attempt whose socket went to the keygen screen, then the loop
    task,       \* the task of an attempt (init_signalling_connection)
    socket,     \* its socket; dropped: by the server, and still held
    keys,       \* the key generation thread of the keygen screen
    loop,       \* handle_signalling_requests
    password    \* what is kept of the egg password

window == <<screen, packed, sizedFor>>
form == <<error, polled, wss>>
tasks == <<task, socket>>
rest == <<keys, loop, password>>
vars == <<workThread, window, form, tasks, rest>>

Screens == {"none", "fatal", "setup", "keygen", "running", "closed"}

\* lost: the receiver was gone, and spawn_task's unwrap panicked.
TaskStages == {"none", "connecting", "handshaking", "awaiting",
               "connected", "failed", "panicked", "lost"}

TypeOK ==
    /\ WorkTypeOK
    /\ screen \in Screens
    /\ packed \in BOOLEAN
    /\ sizedFor \in Screens
    /\ error \in {"none", "input", "connection", "keys", "save"}
    /\ polled \in Attempts \cup {None}
    /\ wss \in Attempts \cup {None}
    /\ task \in [Attempts -> TaskStages]
    /\ socket \in [Attempts -> {"none", "open", "dropped", "closed"}]
    /\ keys \in {"none", "generating", "done", "panicked"}
    /\ loop \in {"none", "running", "ended"}
    /\ password \in {"none", "shown", "saved"}
    /\ screen \in {"keygen", "running"} => wss \in Attempts

Init ==
    /\ WorkInit
    /\ screen = "none" /\ packed = FALSE /\ sizedFor = "none"
    /\ error = "none" /\ polled = None /\ wss = None
    /\ task = [a \in Attempts |-> "none"]
    /\ socket = [a \in Attempts |-> "none"]
    /\ keys = "none" /\ loop = "none" /\ password = "none"

-----------------------------------------------------------------------------
(***************************************************************************)
(* UI::update.  A window that is not packed takes the size of the screen   *)
(* just drawn; a change of screens asks for another packing.               *)
(***************************************************************************)
ShowUi ==
    /\ screen = "none"
    /\ parent \in {"ready", "failed"}
    /\ screen' = IF parent = "ready" THEN "setup" ELSE "fatal"
    /\ UNCHANGED <<workThread, packed, sizedFor, form, tasks, rest>>

Pack_Once(changes) ==
    /\ sizedFor' = IF packed THEN sizedFor ELSE screen
    /\ packed' = TRUE

Pack(changes) ==
    /\ sizedFor' = IF packed THEN sizedFor ELSE screen
    /\ packed' = ~changes

\* A frame of s, after which next is the current screen.
Frame(s, next) == screen = s /\ screen' = next /\ Pack(s # next)

\* Nothing is clicked and nothing has arrived.
Redraw ==
    /\ screen \in {"fatal", "setup", "keygen", "running"}
    /\ Frame(screen, screen)
    /\ UNCHANGED <<workThread, form, tasks, rest>>

\* The window is closed, Exit is clicked, or a panic unwinds the interface's
\* thread (no monitor in RunningScreen::new): the process ends with its threads.
WindowCloses ==
    /\ screen \notin {"none", "closed"}
    /\ screen' = "closed"
    /\ socket' = [a \in Attempts |-> IF socket[a] = "none" THEN "none" ELSE "closed"]
    /\ UNCHANGED <<workThread, packed, sizedFor, form, task, rest>>

-----------------------------------------------------------------------------
(***************************************************************************)
(* SetupScreen::update.                                                    *)
(***************************************************************************)
Enabled_Always == TRUE

Enabled == polled = None

RefuseInput ==
    /\ Frame("setup", "setup")
    /\ Enabled
    /\ error' = "input"
    /\ UNCHANGED <<workThread, polled, wss, tasks, rest>>

StartConnection_KeepsError(a) ==
    /\ Frame("setup", "setup")
    /\ Enabled
    /\ task[a] = "none"
    /\ polled' = a
    /\ task' = [task EXCEPT ![a] = "connecting"]
    /\ UNCHANGED <<workThread, error, wss, socket, rest>>

\* validate_input clears the error, and spawn_task starts the attempt.
StartConnection(a) ==
    /\ Frame("setup", "setup")
    /\ Enabled
    /\ task[a] = "none"
    /\ error' = "none"
    /\ polled' = a
    /\ task' = [task EXCEPT ![a] = "connecting"]
    /\ UNCHANGED <<workThread, wss, socket, rest>>

CheckFails_KeepsReceiver(a) ==
    /\ Frame("setup", "setup")
    /\ polled = a
    /\ task[a] \in {"failed", "panicked"}
    /\ error' = "connection"
    /\ UNCHANGED <<workThread, polled, wss, tasks, rest>>

\* The task has returned an error, or dropped its sender.
CheckFails(a) ==
    /\ Frame("setup", "setup")
    /\ polled = a
    /\ task[a] \in {"failed", "panicked"}
    /\ error' = "connection"
    /\ polled' = None
    /\ UNCHANGED <<workThread, wss, tasks, rest>>

\* KeygenScreen::new, with its key thread.
CheckSucceeds(a) ==
    /\ Frame("setup", "keygen")
    /\ polled = a
    /\ task[a] = "connected"
    /\ polled' = None
    /\ wss' = a
    /\ error' = "none"
    /\ keys' = "generating"
    /\ UNCHANGED <<workThread, tasks, loop, password>>

-----------------------------------------------------------------------------
(***************************************************************************)
(* KeygenScreen::update and RunningScreen::update.                         *)
(***************************************************************************)
KeysFail_DropsSocket ==
    /\ Frame("keygen", "keygen")
    /\ error = "none"
    /\ keys = "panicked"
    /\ error' = "keys"
    /\ wss' = None
    /\ UNCHANGED <<workThread, polled, tasks, rest>>

KeysFail ==
    /\ Frame("keygen", "keygen")
    /\ error = "none"
    /\ keys = "panicked"
    /\ error' = "keys"
    /\ UNCHANGED <<workThread, polled, wss, tasks, rest>>

Back_KeepsSocket ==
    /\ Frame("keygen", "setup")
    /\ error = "keys"
    /\ error' = "none"
    /\ wss' = None
    /\ keys' = "none"
    /\ UNCHANGED <<workThread, polled, tasks, loop, password>>

\* SetupScreen::recover: the socket goes with the keygen screen.
Back ==
    /\ Frame("keygen", "setup")
    /\ error = "keys"
    /\ error' = "none"
    /\ wss' = None
    /\ socket' = [socket EXCEPT ![wss] = "closed"]
    /\ keys' = "none"
    /\ UNCHANGED <<workThread, polled, task, loop, password>>

\* RunningScreen::new spawns the signalling loop and a task that logs its panic.
StartRunning ==
    /\ Frame("keygen", "running")
    /\ error = "none"
    /\ keys = "done"
    /\ loop' = "running"
    /\ password' = "shown"
    /\ UNCHANGED <<workThread, form, tasks, keys>>

\* A file was chosen and written, or could not be; the dialog blocks the frame.
SavePassword ==
    /\ Frame("running", "running")
    /\ password = "shown"
    /\ \/ password' = "saved" /\ UNCHANGED error
       \/ error' = "save" /\ UNCHANGED password
    /\ UNCHANGED <<workThread, polled, wss, tasks, keys, loop>>

-----------------------------------------------------------------------------
(***************************************************************************)
(* The work thread's tasks, the key thread and the server.                 *)
(***************************************************************************)
Alive == screen # "closed"

UnderWay(a) == task[a] \in {"connecting", "handshaking", "awaiting"}

\* tx.send(f.await).unwrap(): the result finds its receiver, or the task panics.
Returns(a, result) ==
    /\ Alive
    /\ task' = [task EXCEPT ![a] = IF polled = a THEN result ELSE "lost"]
    /\ UNCHANGED <<workThread, window, form, rest>>

Connect(a) ==
    /\ Alive
    /\ task[a] = "connecting"
    /\ task' = [task EXCEPT ![a] = "handshaking"]
    /\ socket' = [socket EXCEPT ![a] = "open"]
    /\ UNCHANGED <<workThread, window, form, rest>>

\* TLS and WebSocket handshakes are done, and HomeInit is sent.
SendHomeInit(a) ==
    /\ Alive
    /\ task[a] = "handshaking"
    /\ task' = [task EXCEPT ![a] = "awaiting"]
    /\ UNCHANGED <<workThread, window, form, socket, rest>>

IsGranted(a) ==
    /\ task[a] = "awaiting"
    /\ Returns(a, "connected")
    /\ socket' = [socket EXCEPT ![a] = IF polled = a THEN @ ELSE "closed"]

\* Any `?` of init_signalling_connection, a refusal included, or a panic.
TaskFails(a) ==
    /\ UnderWay(a)
    /\ \E result \in {"failed", "panicked"} : Returns(a, result)
    /\ socket' = [socket EXCEPT ![a] = IF @ = "none" THEN @ ELSE "closed"]

GenerateKeys ==
    /\ Alive
    /\ keys = "generating"
    /\ keys' \in {"done", "panicked"}
    /\ UNCHANGED <<workThread, window, form, tasks, loop, password>>

\* The server's stream ends, or a handler panics; the socket goes with the loop.
LoopEnds ==
    /\ Alive
    /\ loop = "running"
    /\ loop' = "ended"
    /\ socket' = [socket EXCEPT ![wss] = "closed"]
    /\ UNCHANGED <<workThread, window, form, task, keys, password>>

ServerDrops(a) ==
    /\ socket[a] = "open"
    /\ socket' = [socket EXCEPT ![a] = "dropped"]
    /\ UNCHANGED <<workThread, window, form, task, rest>>

-----------------------------------------------------------------------------
SetupFrame ==
    \/ RefuseInput
    \/ \E a \in Attempts : StartConnection(a) \/ CheckFails(a) \/ CheckSucceeds(a)

KeygenFrame == KeysFail \/ Back \/ StartRunning

TaskStep(a) == Connect(a) \/ SendHomeInit(a) \/ IsGranted(a) \/ TaskFails(a)

Next ==
    \/ Alive /\ StartUp /\ UNCHANGED <<window, form, tasks, rest>>
    \/ ShowUi \/ Redraw \/ WindowCloses
    \/ SetupFrame \/ KeygenFrame \/ SavePassword
    \/ \E a \in Attempts : TaskStep(a) \/ ServerDrops(a)
    \/ GenerateKeys \/ LoopEnds

Spec == Init /\ [][Next]_vars

\* The operating system runs the threads; a server need not answer, and nobody has
\* to draw or to click.
FairSpec ==
    /\ Spec
    /\ WF_vars(ParentStep /\ UNCHANGED <<window, form, tasks, rest>>)
    /\ WF_vars(WorkerStep /\ UNCHANGED <<window, form, tasks, rest>>)
    /\ WF_vars(ShowUi)
    /\ WF_vars(GenerateKeys)

-----------------------------------------------------------------------------
(***************************************************************************)
(* Properties.                                                             *)
(***************************************************************************)
\* The program holds one socket at most, and knows where it is: the attempt that
\* is polled, or the connection handed to the later screens.  A failed attempt, a
\* failed key generation and an ended loop leave no socket open.
OneConnection ==
    /\ polled # None => wss = None
    /\ \A a \in Attempts : socket[a] \in {"open", "dropped"} => a \in {polled, wss}

\* The unwrap of spawn_task finds the receiver: no screen drops the channel of a
\* task that has yet to return.
ResultsAreReceived == \A a \in Attempts : task[a] # "lost"

\* An error of a connection is the latest attempt's: none is shown beside an
\* attempt under way or the screens that follow it.
ErrorIsLatest ==
    error \in {"input", "connection"} =>
        /\ screen \in {"setup", "closed"}
        /\ \A a \in Attempts : ~UnderWay(a)

\* A packed window has the size of the screen in it.
WindowFitsScreen == packed /\ screen # "closed" => sizedFor = screen

\* The interface's thread does not sleep on a handle that has been handed over: the
\* thread that handed it over has left a token, or is still to unpark the sleeper, in
\* whatever order the two look at the channel, send, park and unpark (work.rs:31-47).
WakeUpIsNotLost == parent = "parking" => token \/ worker # "blocked"

\* Start-up ends in a screen, which tells of a panic of the work thread, unless the
\* panic found the parent parked: only the send of the handle is followed by an
\* unpark.
StartUpEnds == <>(screen # "none" \/ (worker = "panicked" /\ parent = "parking"))

\* Frames are drawn while something is there to be polled.  The program asks for
\* none: a window that is left alone is not drawn again.
Attended ==
    /\ \A a \in Attempts : WF_vars(CheckFails(a) \/ CheckSucceeds(a))
    /\ WF_vars(KeysFail) /\ WF_vars(StartRunning)

\* What a task or the key thread comes to is shown: the form is enabled again
\* with an error, or the next screen follows, or key generation says that it failed.
OutcomesShown ==
    Attended =>
        /\ \A a \in Attempts :
               polled = a /\ ~UnderWay(a)
                   ~> \/ screen \in {"keygen", "closed"}
                      \/ polled = None /\ error = "connection"
        /\ screen = "keygen" ~> screen \in {"running", "closed"} \/ error = "keys"
=============================================================================
