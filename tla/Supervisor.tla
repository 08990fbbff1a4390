----------------------------- MODULE Supervisor -----------------------------
(***************************************************************************)
(* The supervisor of not_dex_monitor: it polls the backend for the wallets *)
(* that are active, starts one WalletWorker task for each, asks the        *)
(* workers of the other wallets to stop, waits for each of them for ten    *)
(* seconds and cancels it after that, and on its own way out stops them    *)
(* all.  The model is at the granularity of asyncio: an action is what     *)
(* runs between two awaits that really suspend.  Workers, the backend, the *)
(* timers and Ctrl-C act in between.                                       *)
(*                                                                         *)
(* pc says where Supervisor.run is suspended:                              *)
(*   poll      in get_active_users                                         *)
(*   visit     in the loop over list(self._workers), a wallet left to stop *)
(*   await     in the wait_for of _stop_worker, called by that loop        *)
(*   sleep     in _sleep_or_stop                                           *)
(*   shutdown  at the finally clause of run                                *)
(*   drain     in the gather of shutdown                                   *)
(*   closing   run is over; asyncio.run ends the tasks that are left       *)
(*   ended     the process is gone                                         *)
(***************************************************************************)
EXTENDS Naturals, FiniteSets, WorkerPhases

CONSTANTS
    Wallets,   \* lower-cased wallet addresses, the keys of _workers and _tasks
    Ids,       \* tells apart the tasks of one wallet
    NoId       \* registry value of a wallet with no entry

ASSUME NoIdAssumption == NoId \notin Ids

Task == Wallets \X Ids

VARIABLES
    wanted,      \* the backend's set of active wallets
    pc,
    registry,    \* _workers and _tasks, which always have the same keys
    earlier,     \* the order of those keys: <<v, w>> when v came before w
    active,      \* active_set: the last answer of get_active_users
    pending,     \* what the loop over list(self._workers) still has to stop
    awaited,     \* the tasks some _stop_worker waits for
    reaping,     \* those of them that wait_for has cancelled and still awaits
    stopEvent,   \* Supervisor._stop_event
    interrupted, \* Ctrl-C has raised CancelledError in the main task
    phase,       \* where each worker task is; "none" when there is no task
    stopping,    \* the tasks whose worker has its _stop_event set
    cancelling   \* the tasks with a cancellation to be delivered

backendVars == <<wanted>>
loopVars    == <<pc, active, pending, stopEvent, interrupted>>
stopVars    == <<registry, earlier, awaited, reaping>>
workerVars  == <<phase, stopping, cancelling>>
vars        == <<backendVars, loopVars, stopVars, workerVars>>

PCs == {"poll", "visit", "await", "sleep", "shutdown", "drain", "closing",
        "ended"}
Leaving == {"shutdown", "drain", "closing", "ended"}

TypeOK ==
    /\ wanted \in SUBSET Wallets
    /\ pc \in PCs
    /\ registry \in [Wallets -> Ids \cup {NoId}]
    /\ earlier \in SUBSET (Wallets \X Wallets)
    /\ active \in SUBSET Wallets
    /\ pending \in SUBSET Wallets
    /\ awaited \in SUBSET Task
    /\ reaping \in SUBSET Task
    /\ stopEvent \in BOOLEAN
    /\ interrupted \in BOOLEAN
    /\ phase \in [Task -> Phases \cup {"none"}]
    /\ stopping \in SUBSET Task
    /\ cancelling \in SUBSET Task

Live(t)    == phase[t] \in LivePhases
Registered == {w \in Wallets : registry[w] # NoId}

Init ==
    /\ wanted \in SUBSET Wallets
    /\ pc = "poll"
    /\ registry = [w \in Wallets |-> NoId]
    /\ earlier = {}
    /\ active = {}
    /\ pending = {}
    /\ awaited = {}
    /\ reaping = {}
    /\ stopEvent = FALSE
    /\ interrupted = FALSE
    /\ phase = [t \in Task |-> "none"]
    /\ stopping = {}
    /\ cancelling = {}

-----------------------------------------------------------------------------
(* The polling loop                                                        *)

\* The loop of _sync_workers goes on to the next wallet, or it is over.
VisitOrSleep(rest) == IF rest = {} THEN "sleep" ELSE "visit"

\* The orders a loop over the set W may take: the language promises none.
Orders(W) ==
    {R \in SUBSET (W \X W) :
        /\ \A v, w \in W : <<v, w>> \in R <=> v # w /\ <<w, v>> \notin R
        /\ \A u, v, w \in W :
              <<u, v>> \in R /\ <<v, w>> \in R => <<u, w>> \in R}

(***************************************************************************)
(* _start_worker for each of the wallets in W: nothing in it suspends, so  *)
(* all of them start in one step.  A new task gets an unused identity, and *)
(* a new key comes after the ones the dictionary has; one that is there    *)
(* stays where it is.                                                      *)
(***************************************************************************)
StartWorkers(W) ==
    /\ \E R \in Orders(W \ Registered) :
          earlier' = earlier \cup R \cup (Registered \X (W \ Registered))
    /\ \E id \in [W -> Ids] :
          /\ \A w \in W : phase[<<w, id[w]>>] = "none"
          /\ registry' = [w \in Wallets |-> IF w \in W THEN id[w] ELSE registry[w]]
          /\ phase' = [t \in Task |-> IF t[1] \in W /\ t[2] = id[t[1]]
                                        THEN "created" ELSE phase[t]]

\* Mutant of PollAnswer: the entries already there are not looked at.
PollAnswerStartsAll(A) ==
    /\ pc = "poll"
    /\ active' = A
    /\ StartWorkers(A)
    /\ pending' = Registered \ A
    /\ pc' = VisitOrSleep(pending')
    /\ UNCHANGED <<wanted, stopEvent, interrupted, awaited, reaping, stopping,
                   cancelling>>

\* Mutant of PollAnswer: the workers are started from the answer before.
PollAnswerStartsLate(A) ==
    /\ pc = "poll"
    /\ active' = A
    /\ StartWorkers(active \ Registered)
    /\ pending' = Registered \ A
    /\ pc' = VisitOrSleep(pending')
    /\ UNCHANGED <<wanted, stopEvent, interrupted, awaited, reaping, stopping,
                   cancelling>>

\* Mutant of PollAnswer: no more than one worker is started per poll.
PollAnswerStartsOne(A) ==
    /\ pc = "poll"
    /\ active' = A
    /\ StartWorkers(IF A \subseteq Registered THEN {}
                    ELSE {CHOOSE w \in A : w \notin Registered})
    /\ pending' = Registered \ A
    /\ pc' = VisitOrSleep(pending')
    /\ UNCHANGED <<wanted, stopEvent, interrupted, awaited, reaping, stopping,
                   cancelling>>

(***************************************************************************)
(* get_active_users has answered with the wallets in A.  A wallet is       *)
(* started when it has no entry, whatever the state of the task an entry   *)
(* points to.                                                              *)
(***************************************************************************)
PollAnswer(A) ==
    /\ pc = "poll"
    /\ active' = A
    /\ StartWorkers(A \ Registered)
    /\ pending' = Registered \ A
    /\ pc' = VisitOrSleep(pending')
    /\ UNCHANGED <<wanted, stopEvent, interrupted, awaited, reaping, stopping,
                   cancelling>>

\* Mutant of PollError: a failed poll is taken for an empty answer.
PollErrorStopsAll ==
    /\ pc = "poll"
    /\ pending' = Registered
    /\ pc' = VisitOrSleep(pending')
    /\ UNCHANGED <<wanted, active, stopEvent, interrupted, stopVars, workerVars>>

\* get_active_users has raised: logged, and nothing is started or stopped.
PollError ==
    /\ pc = "poll"
    /\ pc' = "sleep"
    /\ UNCHANGED <<wanted, active, pending, stopEvent, interrupted, stopVars,
                   workerVars>>

\* Mutant of StopWorker: the entry is left where it is.
StopWorkerKeepsEntry(w) ==
    /\ pc = "visit"
    /\ w \in pending
    /\ \A v \in pending \ {w} : <<w, v>> \in earlier
    /\ pending' = pending \ {w}
    /\ stopping' = stopping \cup {<<w, registry[w]>>}
    /\ awaited' = {<<w, registry[w]>>}
    /\ pc' = "await"
    /\ UNCHANGED <<wanted, active, stopEvent, interrupted, registry, earlier,
                   reaping, phase, cancelling>>

\* Mutant of StopWorker: the round goes through a set of keys.
StopWorkerInAnyOrder(w) ==
    /\ pc = "visit"
    /\ w \in pending
    /\ pending' = pending \ {w}
    /\ registry' = [registry EXCEPT ![w] = NoId]
    /\ earlier' = earlier \cap ((Wallets \ {w}) \X (Wallets \ {w}))
    /\ stopping' = stopping \cup {<<w, registry[w]>>}
    /\ awaited' = {<<w, registry[w]>>}
    /\ pc' = "await"
    /\ UNCHANGED <<wanted, active, stopEvent, interrupted, reaping, phase,
                   cancelling>>

(***************************************************************************)
(* _stop_worker(w), up to its wait_for, w being the key list(_workers) has *)
(* next: the entries are dropped first and the worker's event is set.      *)
(***************************************************************************)
StopWorker(w) ==
    /\ pc = "visit"
    /\ w \in pending
    /\ \A v \in pending \ {w} : <<w, v>> \in earlier
    /\ pending' = pending \ {w}
    /\ registry' = [registry EXCEPT ![w] = NoId]
    /\ earlier' = earlier \cap ((Wallets \ {w}) \X (Wallets \ {w}))
    /\ stopping' = stopping \cup {<<w, registry[w]>>}
    /\ awaited' = {<<w, registry[w]>>}
    /\ pc' = "await"
    /\ UNCHANGED <<wanted, active, stopEvent, interrupted, reaping, phase,
                   cancelling>>

\* Mutant of StopTimeout: the task is cancelled and no longer waited for.
StopTimeoutGoesOn(t) ==
    /\ pc = "await"
    /\ t \in awaited
    /\ Live(t)
    /\ awaited' = {}
    /\ cancelling' = cancelling \cup {t}
    /\ pc' = VisitOrSleep(pending)
    /\ UNCHANGED <<wanted, active, pending, stopEvent, interrupted, registry,
                   earlier, reaping, phase, stopping>>

\* Ten seconds are over and the task has not ended: wait_for cancels it, and
\* goes on waiting until it has.
StopTimeout(t) ==
    /\ t \in awaited \ reaping
    /\ Live(t)
    /\ reaping' = reaping \cup {t}
    /\ cancelling' = cancelling \cup {t}
    /\ UNCHANGED <<wanted, loopVars, registry, earlier, awaited, phase,
                   stopping>>

\* Mutant of Release: the cancelled wait is not struck off.
ReleaseKeepsReaping(t) ==
    /\ awaited' = awaited \ {t}
    /\ reaping' = reaping
    /\ phase' = [phase EXCEPT ![t] = "none"]
    /\ stopping' = stopping \ {t}
    /\ cancelling' = cancelling \ {t}

\* Nothing refers to t any more.
Release(t) ==
    /\ awaited' = awaited \ {t}
    /\ reaping' = reaping \ {t}
    /\ phase' = [phase EXCEPT ![t] = "none"]
    /\ stopping' = stopping \ {t}
    /\ cancelling' = cancelling \ {t}

(***************************************************************************)
(* wait_for returns: normally, with the TimeoutError _stop_worker catches, *)
(* or with the exception the worker died of, which ends _sync_workers and  *)
(* leaves the other wallets to the next poll.  When Ctrl-C came during the *)
(* wait, it raises CancelledError and run goes to its finally clause.      *)
(***************************************************************************)
StopReturns(t) ==
    /\ pc = "await"
    /\ t \in awaited
    /\ phase[t] \in EndPhases
    /\ Release(t)
    /\ pending' = IF interrupted \/ phase[t] = "failed" THEN {} ELSE pending
    /\ pc' = IF interrupted THEN "shutdown" ELSE VisitOrSleep(pending')
    /\ UNCHANGED <<wanted, active, stopEvent, interrupted, registry, earlier>>

\* Mutant of WakeUp: the loop condition does not read the stop event.
WakeUpIgnoresStop ==
    /\ pc = "sleep"
    /\ pc' = "poll"
    /\ UNCHANGED <<wanted, active, pending, stopEvent, interrupted, stopVars,
                   workerVars>>

\* _sleep_or_stop returns, and the loop condition is read.
WakeUp ==
    /\ pc = "sleep"
    /\ pc' = IF stopEvent THEN "shutdown" ELSE "poll"
    /\ UNCHANGED <<wanted, active, pending, stopEvent, interrupted, stopVars,
                   workerVars>>

-----------------------------------------------------------------------------
(* The end of the process                                                  *)

\* Mutant of Shutdown: the workers are asked to stop and not waited for.
ShutdownWaitsForNone ==
    /\ pc = "shutdown"
    /\ registry' = [w \in Wallets |-> NoId]
    /\ earlier' = {}
    /\ stopping' = stopping \cup {<<w, registry[w]>> : w \in Registered}
    /\ pc' = "drain"
    /\ UNCHANGED <<wanted, active, pending, stopEvent, interrupted, awaited,
                   reaping, phase, cancelling>>

\* shutdown: _stop_worker for every entry, all at once.
Shutdown ==
    /\ pc = "shutdown"
    /\ registry' = [w \in Wallets |-> NoId]
    /\ earlier' = {}
    /\ awaited' = {<<w, registry[w]>> : w \in Registered}
    /\ stopping' = stopping \cup awaited'
    /\ pc' = "drain"
    /\ UNCHANGED <<wanted, active, pending, stopEvent, interrupted, reaping,
                   phase, cancelling>>

\* One of the gathered _stop_worker calls is over; its exception is dropped.
DrainOne(t) ==
    /\ pc = "drain"
    /\ t \in awaited
    /\ phase[t] \in EndPhases
    /\ Release(t)
    /\ UNCHANGED <<wanted, loopVars, registry, earlier>>

\* run is over, and asyncio.run cancels whatever task is left.
CloseLoop ==
    /\ pc = "drain"
    /\ awaited = {}
    /\ pc' = "closing"
    /\ cancelling' = cancelling \cup {t \in Task : Live(t)}
    /\ UNCHANGED <<wanted, active, pending, stopEvent, interrupted, stopVars,
                   phase, stopping>>

Exit ==
    /\ pc = "closing"
    /\ \A t \in Task : ~Live(t)
    /\ pc' = "ended"
    /\ UNCHANGED <<wanted, active, pending, stopEvent, interrupted, stopVars,
                   workerVars>>

\* Supervisor.stop.
RequestStop ==
    /\ pc \notin {"closing", "ended"}
    /\ ~stopEvent
    /\ stopEvent' = TRUE
    /\ UNCHANGED <<wanted, pc, active, pending, interrupted, stopVars,
                   workerVars>>

(***************************************************************************)
(* The first Ctrl-C cancels the main task.  A wait_for that is in its ten  *)
(* seconds cancels the worker and waits for its end before it raises; one  *)
(* whose worker has just ended returns and the interrupt is lost (nothing  *)
(* changes, so this is no step); one that has already timed out raises at  *)
(* once and leaves its worker to itself.                                   *)
(***************************************************************************)
Interrupt ==
    /\ ~interrupted
    /\ interrupted' = TRUE
    /\ \/ /\ pc \in {"poll", "sleep"}
          /\ pc' = "shutdown"
          /\ UNCHANGED <<pending, awaited, reaping, cancelling>>
       \/ /\ pc = "await"
          /\ \E t \in awaited \ reaping : Live(t)
          /\ reaping' = awaited
          /\ cancelling' = cancelling \cup awaited
          /\ UNCHANGED <<pc, pending, awaited>>
       \/ /\ pc = "await"
          /\ reaping # {}
          /\ awaited' = {}
          /\ reaping' = {}
          /\ pending' = {}
          /\ pc' = "shutdown"
          /\ UNCHANGED cancelling
       \/ /\ pc = "drain"
          /\ awaited' = awaited \ reaping
          /\ reaping' = {t \in awaited \ reaping : Live(t)}
          /\ cancelling' = cancelling \cup reaping'
          /\ UNCHANGED <<pc, pending>>
    /\ UNCHANGED <<wanted, active, stopEvent, registry, earlier, phase,
                   stopping>>

-----------------------------------------------------------------------------
(* The workers and the backend                                             *)

WorkerStep(t) ==
    /\ Live(t)
    /\ t \notin cancelling
    /\ \E p \in Phases :
          /\ <<phase[t], p>> \in Moves(t \in stopping)
          /\ phase' = [phase EXCEPT ![t] = p]
    /\ UNCHANGED <<backendVars, loopVars, stopVars, stopping, cancelling>>

BeCancelled(t) ==
    /\ Live(t)
    /\ t \in cancelling
    /\ phase' = [phase EXCEPT ![t] = "cancelled"]
    /\ UNCHANGED <<backendVars, loopVars, stopVars, stopping, cancelling>>

\* The worker's own wait_for forgets the cancellation: see WorkerLife.
OutliveCancel(t) ==
    /\ t \in cancelling
    /\ t \in stopping
    /\ phase[t] = "resting"
    /\ phase' = [phase EXCEPT ![t] = "leaving"]
    /\ cancelling' = cancelling \ {t}
    /\ UNCHANGED <<backendVars, loopVars, stopVars, stopping>>

\* A user logs in, or has the monitor switched off.
UserToggles(w) ==
    /\ pc # "ended"
    /\ wanted' = IF w \in wanted THEN wanted \ {w} ELSE wanted \cup {w}
    /\ UNCHANGED <<loopVars, stopVars, workerVars>>

(***************************************************************************)
(* What get_active_users returns: the backend's set, or nothing when a     *)
(* 200 carries no list (a null or unreadable body becomes the empty list). *)
(***************************************************************************)
SupervisorStep ==
    \/ PollAnswer(wanted)
    \/ PollAnswer({})
    \/ PollError
    \/ \E w \in Wallets : StopWorker(w)
    \/ \E t \in Task : StopTimeout(t) \/ StopReturns(t) \/ DrainOne(t)
    \/ WakeUp
    \/ Shutdown
    \/ CloseLoop
    \/ Exit

WorkerAction(t) == WorkerStep(t) \/ BeCancelled(t) \/ OutliveCancel(t)

\* The process is gone.
Ended == pc = "ended" /\ UNCHANGED vars

Next ==
    \/ SupervisorStep
    \/ RequestStop
    \/ Interrupt
    \/ \E t \in Task : WorkerAction(t)
    \/ \E w \in Wallets : UserToggles(w)
    \/ Ended

Spec == Init /\ [][Next]_vars

(***************************************************************************)
(* Fairness.  Everything the supervisor waits for ends: HTTP calls have a  *)
(* time-out and finitely many retries, sleeps and wait_for have timers.    *)
(* The same holds of each worker, and a cancellation that was asked for is *)
(* delivered.  That the backend does not fail every poll from some point   *)
(* on is an assumption about the backend, needed for the properties that   *)
(* speak of what it wants; nothing is assumed of Ctrl-C, stop or users.    *)
(***************************************************************************)
Fairness ==
    /\ WF_vars(SupervisorStep)
    /\ SF_vars(PollAnswer(wanted))
    /\ \A t \in Task : WF_vars(WorkerAction(t))

FairSpec == Spec /\ Fairness

-----------------------------------------------------------------------------
(* Properties                                                              *)

(***************************************************************************)
(* Two workers of one wallet never run at the same time: they would sign   *)
(* with one key and one nonce sequence.  _stop_worker drops the entry      *)
(* before the worker has ended, so this rests on the loop not polling      *)
(* again while it waits and on wait_for waiting for a cancelled task.      *)
(***************************************************************************)
OneWorkerPerWallet ==
    \A t1, t2 \in Task : Live(t1) /\ Live(t2) /\ t1[1] = t2[1] => t1 = t2

(***************************************************************************)
(* No live worker is forgotten: it has an entry, or some _stop_worker      *)
(* waits for it, or Ctrl-C came while wait_for was cancelling it and the   *)
(* supervisor is on its way out.                                           *)
(***************************************************************************)
NoForgottenWorker ==
    \A t \in Task : Live(t) =>
        \/ registry[t[1]] = t[2]
        \/ t \in awaited
        \/ interrupted /\ pc \in Leaving /\ t \in stopping

(***************************************************************************)
(* A task with an entry that has ended has failed: workers do not return   *)
(* from run, and are not cancelled, before _stop_worker has dropped them.  *)
(* (That entry is then kept, and the wallet has no worker, for as long as  *)
(* the wallet stays active.)                                               *)
(***************************************************************************)
OnlyFailuresKeepEntries ==
    \A w \in Registered :
        phase[<<w, registry[w]>>] \in LivePhases \cup {"failed"}

(***************************************************************************)
(* The inductive invariant behind the properties above: where each task in *)
(* use is referred to, and what each pc says about the loop's variables.   *)
(***************************************************************************)
Used(t) == phase[t] # "none"

\* An entry points to a task nobody has asked to stop.
EntriesArePristine ==
    \A w \in Registered :
        /\ phase[<<w, registry[w]>>] \in (LivePhases \ {"leaving"}) \cup {"failed"}
        /\ <<w, registry[w]>> \notin stopping

\* A task without an entry is awaited, or Ctrl-C has made wait_for drop it.
UsedIsReferred ==
    \A t \in Task : Used(t) =>
        \/ registry[t[1]] = t[2]
        \/ t \in awaited
        \/ interrupted /\ pc \in Leaving /\ t \in stopping

\* One task per wallet, ended ones included, until it is released.
OneTaskPerWallet ==
    \A t1, t2 \in Task : Used(t1) /\ Used(t2) /\ t1[1] = t2[1] => t1 = t2

\* The flags of a task exist only as long as the task, and it is asked to stop
\* before it is cancelled.
FlagsAreOfTasks ==
    /\ \A t \in stopping : Used(t)
    /\ cancelling \subseteq stopping
    /\ awaited \subseteq stopping
    /\ reaping \subseteq awaited

\* The keys are in one order, which is total.
InsertionOrder == earlier \in Orders(Registered)

LoopState ==
    /\ pc \notin {"await", "drain"} => awaited = {}
    /\ pc = "await" => \E t \in Task : awaited = {t}
    /\ pc \in {"visit", "await"} => pending \subseteq Registered \ active
    /\ interrupted => pc \in Leaving \cup {"await"}
    /\ pc \in {"drain", "closing", "ended"} => Registered = {}

IndInv ==
    /\ TypeOK
    /\ EntriesArePristine
    /\ UsedIsReferred
    /\ OneTaskPerWallet
    /\ FlagsAreOfTasks
    /\ InsertionOrder
    /\ LoopState

(***************************************************************************)
(* Each new worker starts from a poll whose answer names its wallet, and   *)
(* only for a wallet that had no entry before; none starts once the        *)
(* supervisor is on its way out.                                           *)
(***************************************************************************)
StartsOnlyWhatWasReported ==
    [][\A t \in Task : phase[t] = "none" /\ phase'[t] # "none" =>
          /\ pc = "poll" /\ ~interrupted
          /\ t[1] \in active' \ Registered]_vars

(***************************************************************************)
(* While the supervisor runs, a worker is asked to stop or cancelled only  *)
(* if the last answer of the backend leaves its wallet out; an error of    *)
(* the poll stops nobody.                                                  *)
(***************************************************************************)
StopsOnlyWhatWasLeftOut ==
    [][\A t \in (stopping' \cup cancelling') \ (stopping \cup cancelling) :
          t[1] \notin active \/ pc \in Leaving]_vars

(***************************************************************************)
(* A wallet the backend has dropped for good ends up without a worker,     *)
(* although a dead worker's exception aborts the round that stops the      *)
(* others.  This rests on the order of the rounds: an aborted one has lost *)
(* an entry that came before the wallet's, and a new entry comes after it. *)
(***************************************************************************)
DroppedWalletStops ==
    \A w \in Wallets :
        <>[](w \notin wanted) => <>[](\A id \in Ids : ~Live(<<w, id>>))

(***************************************************************************)
(* A wallet the backend wants for good gets an entry again and again, even *)
(* if empty answers drop it, unless the supervisor leaves.                 *)
(***************************************************************************)
WantedWalletHasEntry ==
    \A w \in Wallets :
        <>[](w \in wanted) =>
            \/ []<>(registry[w] # NoId)
            \/ <>(pc \in Leaving)

\* Ctrl-C (delivered) and stop end the process, whatever the workers do.
ShutdownCompletes == (interrupted \/ stopEvent) ~> (pc = "ended")

(***************************************************************************)
(* The abstract pool: what a wallet's tasks amount to.                     *)
(***************************************************************************)
PoolState(w) ==
    IF \E id \in Ids : Live(<<w, id>>) /\ <<w, id>> \notin stopping
      THEN "working"
      ELSE IF \E id \in Ids : Live(<<w, id>>) THEN "leaving" ELSE "idle"

Pool == INSTANCE WorkerPool WITH
            pool     <- [w \in Wallets |-> PoolState(w)],
            reported <- active,
            open     <- pc \notin Leaving

ImplementsPool == Pool!PoolSpec
=============================================================================
