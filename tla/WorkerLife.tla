----------------------------- MODULE WorkerLife -----------------------------
(***************************************************************************)
(* The life of one WalletWorker task and the two ways to end it from       *)
(* outside: its own stop event, and asyncio cancellation.  Supervisor is   *)
(* written with the same relation Moves, and WalletWorker, which models    *)
(* run() call by call, implements Spec.                                    *)
(***************************************************************************)
EXTENDS WorkerPhases

VARIABLES phase, stopAsked, cancelAsked

lifeVars == <<phase, stopAsked, cancelAsked>>

TypeOK ==
    /\ phase \in Phases
    /\ stopAsked \in BOOLEAN
    /\ cancelAsked \in BOOLEAN

Init ==
    /\ phase = "created"
    /\ stopAsked = FALSE
    /\ cancelAsked = FALSE

\* WalletWorker.stop: sets the worker's own event.
Stop ==
    /\ stopAsked' = TRUE
    /\ UNCHANGED <<phase, cancelAsked>>

\* Task.cancel on a task that has not ended.
Cancel ==
    /\ phase \in LivePhases
    /\ cancelAsked' = TRUE
    /\ UNCHANGED <<phase, stopAsked>>

Run ==
    /\ ~cancelAsked
    /\ <<phase, phase'>> \in Moves(stopAsked)
    /\ UNCHANGED <<stopAsked, cancelAsked>>

\* CancelledError is raised at the await the task is suspended in.
BeCancelled ==
    /\ cancelAsked
    /\ phase \in LivePhases
    /\ phase' = "cancelled"
    /\ UNCHANGED <<stopAsked, cancelAsked>>

(***************************************************************************)
(* asyncio.wait_for (Python 3.11, the version of the Dockerfile) returns   *)
(* normally, and forgets the cancellation, when the future it waits for is *)
(* already done: a worker in _sleep_or_stop whose stop event is set.       *)
(***************************************************************************)
OutliveCancel ==
    /\ cancelAsked
    /\ stopAsked
    /\ phase = "resting"
    /\ phase' = "leaving"
    /\ cancelAsked' = FALSE
    /\ UNCHANGED stopAsked

Next == Stop \/ Cancel \/ Run \/ BeCancelled \/ OutliveCancel

Spec == Init /\ [][Next]_lifeVars
=============================================================================
