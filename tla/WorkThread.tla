----------------------------- MODULE WorkThread -----------------------------
(***************************************************************************)
(* How the interface's thread starts the thread that runs all the tasks    *)
(* (WorkThread::new in hammeregg_backend/src/work.rs): the parent polls a  *)
(* oneshot channel and parks in between, the new thread builds its         *)
(* runtime, sends the handle and unparks the parent.                       *)
(*                                                                         *)
(* A definition F_Change is F with a plausible mistake in it, used by no   *)
(* action.                                                                 *)
(***************************************************************************)
VARIABLES
    parent,     \* the thread in WorkThread::new
    worker,     \* the thread it has spawned
    handle,     \* the oneshot channel: empty, sent, or its sender is dropped
    token       \* the parent's unpark token: a park with the token returns at once

workThread == <<parent, worker, handle, token>>

WorkTypeOK ==
    /\ parent \in {"polling", "parking", "ready", "failed"}
    /\ worker \in {"building", "built", "handing", "blocked", "panicked"}
    /\ handle \in {"empty", "sent", "dropped"}
    /\ token \in BOOLEAN

WorkInit ==
    /\ parent = "polling"
    /\ worker = "building"
    /\ handle = "empty"
    /\ token = FALSE

-----------------------------------------------------------------------------
\* One turn of the loop: wait, report the panic, or return the WorkThread.
TryRecv ==
    /\ parent = "polling"
    /\ parent' = CASE handle = "empty" -> "parking"
                   [] handle = "sent" -> "ready"
                   [] handle = "dropped" -> "failed"
    /\ UNCHANGED <<worker, handle, token>>

Unparked ==
    /\ parent = "parking" /\ token
    /\ parent' = "polling"
    /\ token' = FALSE
    /\ UNCHANGED <<worker, handle>>

\* park may return without a token, and nobody can rely on it.
WakesSpuriously ==
    /\ parent = "parking" /\ ~token
    /\ parent' = "polling"
    /\ UNCHANGED <<worker, handle, token>>

\* build().unwrap(): a panic drops handle_tx and unparks nobody.
BuildRuntime ==
    /\ worker = "building"
    /\ \/ worker' = "built" /\ UNCHANGED handle
       \/ worker' = "panicked" /\ handle' = "dropped"
    /\ UNCHANGED <<parent, token>>

HandOver_UnparksFirst ==
    /\ \/ worker = "built" /\ worker' = "handing" /\ token' = TRUE
          /\ UNCHANGED handle
       \/ worker = "handing" /\ worker' = "blocked" /\ handle' = "sent"
          /\ UNCHANGED token
    /\ UNCHANGED parent

\* The handle is sent, then the parent woken; the thread blocks on stop_rx.
HandOver ==
    /\ \/ worker = "built" /\ worker' = "handing" /\ handle' = "sent"
          /\ UNCHANGED token
       \/ worker = "handing" /\ worker' = "blocked" /\ token' = TRUE
          /\ UNCHANGED handle
    /\ UNCHANGED parent

ParentStep == TryRecv \/ Unparked

WorkerStep == BuildRuntime \/ HandOver

StartUp == ParentStep \/ WakesSpuriously \/ WorkerStep
=============================================================================
