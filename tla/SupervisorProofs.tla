-------------------------- MODULE SupervisorProofs --------------------------
(***************************************************************************)
(* Theorems about Supervisor, for any set of wallets and any set of task   *)
(* identities.                                                             *)
(***************************************************************************)
EXTENDS Supervisor, TLAPS

-----------------------------------------------------------------------------
(* The inductive invariant                                                 *)

\* A strict total order of the entries, and of the new keys, make one of both.
LEMMA OrderGrows ==
    ASSUME NEW V, NEW E \in Orders(V), NEW W, NEW R \in Orders(W), V \cap W = {}
    PROVE  E \cup R \cup (V \X W) \in Orders(V \cup W)
BY DEF Orders

\* Taking a key away leaves the others in their order.
LEMMA OrderShrinks ==
    ASSUME NEW V, NEW E \in Orders(V), NEW U, NEW w, V \subseteq U
    PROVE  E \cap ((U \ {w}) \X (U \ {w})) \in Orders(V \ {w})
BY DEF Orders

\* While no key comes or goes, the order stays what it is.
LEMMA OrderKept ==
    ASSUME InsertionOrder, UNCHANGED <<registry, earlier>> PROVE InsertionOrder'
BY DEF InsertionOrder, Registered, Orders

\* The initial states satisfy the invariant.
LEMMA InitInd == Init => IndInv
BY DEF Init, IndInv, TypeOK, PCs, Task, EntriesArePristine, UsedIsReferred,
       OneTaskPerWallet, FlagsAreOfTasks, LoopState, Registered, Used, Leaving,
       InsertionOrder, Orders

\* New tasks are of wallets without an entry, hence without any task.
LEMMA PollAnswerInd ==
    ASSUME IndInv, NEW A \in SUBSET Wallets, PollAnswer(A) PROVE IndInv'
<1> USE DEF IndInv, TypeOK, Task, Registered, PollAnswer
<1>1. PICK id \in [(A \ Registered) -> Ids] :
         /\ \A w \in A \ Registered : phase[<<w, id[w]>>] = "none"
         /\ registry' = [w \in Wallets |->
                            IF w \in A \ Registered THEN id[w] ELSE registry[w]]
         /\ phase' = [t \in Task |->
                         IF t[1] \in A \ Registered /\ t[2] = id[t[1]]
                           THEN "created" ELSE phase[t]]
  BY DEF StartWorkers
<1>o. PICK R \in Orders((A \ Registered) \ Registered) :
         earlier' = earlier \cup R
                      \cup (Registered \X ((A \ Registered) \ Registered))
  BY DEF StartWorkers
<1>2. TypeOK'
  BY <1>1, <1>o DEF PCs, VisitOrSleep, Phases, LivePhases, Orders
<1>3. awaited = {} /\ ~interrupted /\ pc \notin Leaving
  BY DEF LoopState, Leaving
<1>4. \A t \in Task : Used(t) => registry[t[1]] = t[2]
  BY <1>3 DEF UsedIsReferred
<1>5. EntriesArePristine'
  BY <1>1 DEF EntriesArePristine, FlagsAreOfTasks, Used, LivePhases
<1>6. UsedIsReferred'
  BY <1>1, <1>4, NoIdAssumption DEF UsedIsReferred, Used
<1>7. OneTaskPerWallet'
  BY <1>1, <1>4, NoIdAssumption DEF OneTaskPerWallet, Used
<1>8. FlagsAreOfTasks'
  BY <1>1 DEF FlagsAreOfTasks, Used
<1>9. LoopState'
  BY <1>1, <1>3, NoIdAssumption DEF LoopState, VisitOrSleep, Leaving
<1>10. InsertionOrder'
  <2> DEFINE J == A \ Registered
  <2>1. Registered' = Registered \cup J
    BY <1>1, NoIdAssumption
  <2>2. J \ Registered = J /\ Registered \cap J = {}
    OBVIOUS
  <2>3. earlier' \in Orders(Registered \cup J)
    BY <1>o, <2>2, OrderGrows DEF InsertionOrder
  <2> QED
    BY <2>1, <2>3 DEF InsertionOrder, Orders
<1> QED
  BY <1>2, <1>5, <1>6, <1>7, <1>8, <1>9, <1>10

\* The entry goes, and the task becomes the awaited one.
LEMMA StopWorkerInd ==
    ASSUME IndInv, NEW w \in Wallets, StopWorker(w) PROVE IndInv'
<1> USE DEF IndInv, TypeOK, Task, Registered, StopWorker
<1>1. registry[w] \in Ids /\ awaited = {} /\ reaping = {} /\ w \notin active
  BY DEF LoopState, FlagsAreOfTasks
<1>2. TypeOK'
  BY <1>1 DEF PCs
<1>3. EntriesArePristine'
  BY <1>1 DEF EntriesArePristine
<1>4. UsedIsReferred'
  BY <1>1 DEF UsedIsReferred, Used, LoopState, Leaving
<1>5. OneTaskPerWallet'
  BY DEF OneTaskPerWallet, Used
<1>6. FlagsAreOfTasks'
  BY <1>1, NoIdAssumption DEF FlagsAreOfTasks, Used, EntriesArePristine,
                                LivePhases
<1>7. LoopState'
  BY <1>1 DEF LoopState, Leaving
<1>8. InsertionOrder'
  <2>1. Registered' = Registered \ {w}
    BY NoIdAssumption
  <2>2. earlier' \in Orders(Registered \ {w})
    BY OrderShrinks DEF InsertionOrder
  <2> QED
    BY <2>1, <2>2 DEF InsertionOrder, Orders
<1> QED
  BY <1>2, <1>3, <1>4, <1>5, <1>6, <1>7, <1>8

\* The task that is cancelled was asked to stop, and stays awaited.
LEMMA StopTimeoutInd ==
    ASSUME IndInv, NEW t \in Task, StopTimeout(t) PROVE IndInv'
BY OrderKept
   DEF IndInv, TypeOK, StopTimeout, EntriesArePristine, UsedIsReferred,
       OneTaskPerWallet, FlagsAreOfTasks, LoopState, Registered, Used, loopVars

\* The awaited task has ended and is released; nobody else is awaited.
LEMMA StopReturnsInd ==
    ASSUME IndInv, NEW t \in Task, StopReturns(t) PROVE IndInv'
<1> USE DEF IndInv, TypeOK, Task, Registered, StopReturns, Release
<1>1. awaited = {t} /\ awaited' = {} /\ reaping' = {}
  BY DEF LoopState, FlagsAreOfTasks
<1>2. t \in stopping /\ registry[t[1]] # t[2]
  BY NoIdAssumption DEF FlagsAreOfTasks, EntriesArePristine
<1>3. TypeOK'
  BY DEF PCs, VisitOrSleep
<1>4. EntriesArePristine'
  BY <1>2 DEF EntriesArePristine
<1>5. UsedIsReferred'
  BY <1>1 DEF UsedIsReferred, Used, Leaving
<1>6. OneTaskPerWallet'
  BY DEF OneTaskPerWallet, Used
<1>7. FlagsAreOfTasks'
  BY <1>1 DEF FlagsAreOfTasks, Used
<1>8. LoopState'
  BY <1>1 DEF LoopState, VisitOrSleep, Leaving
<1> QED
  BY <1>3, <1>4, <1>5, <1>6, <1>7, <1>8, OrderKept

\* The same in the gather of shutdown, where others are still awaited.
LEMMA DrainOneInd ==
    ASSUME IndInv, NEW t \in Task, DrainOne(t) PROVE IndInv'
<1> USE DEF IndInv, TypeOK, Task, Registered, DrainOne, Release, loopVars
<1>1. TypeOK'
  OBVIOUS
<1>2. EntriesArePristine'
  BY DEF EntriesArePristine, LoopState
<1>3. UsedIsReferred'
  BY DEF UsedIsReferred, Used
<1>4. OneTaskPerWallet'
  BY DEF OneTaskPerWallet, Used
<1>5. FlagsAreOfTasks'
  BY DEF FlagsAreOfTasks, Used
<1>6. LoopState'
  BY DEF LoopState
<1> QED
  BY <1>1, <1>2, <1>3, <1>4, <1>5, <1>6, OrderKept

\* All entries go at once, and all their tasks become awaited.
LEMMA ShutdownInd ==
    ASSUME IndInv, Shutdown PROVE IndInv'
<1> USE DEF IndInv, TypeOK, Task, Registered, Shutdown
<1>1. awaited = {} /\ reaping = {}
  BY DEF LoopState, FlagsAreOfTasks
<1>2. \A w \in Registered : registry[w] \in Ids
  OBVIOUS
<1>3. TypeOK'
  BY <1>1, <1>2 DEF PCs
<1>4. EntriesArePristine'
  BY DEF EntriesArePristine
<1>5. UsedIsReferred'
  <2> SUFFICES ASSUME NEW t \in Task, Used(t)', registry[t[1]] = t[2]
               PROVE  t \in awaited'
    BY <1>1 DEF UsedIsReferred, Used, Leaving
  <2>1. t[1] \in Registered /\ t = <<t[1], registry[t[1]]>>
    BY NoIdAssumption
  <2> QED
    BY <2>1
<1>6. OneTaskPerWallet'
  BY DEF OneTaskPerWallet, Used
<1>7. \A t \in awaited' : Used(t)
  BY DEF EntriesArePristine, Used, LivePhases
<1>8. FlagsAreOfTasks'
  BY <1>1, <1>7 DEF FlagsAreOfTasks, Used
<1>9. LoopState'
  BY DEF LoopState, Leaving
<1>10. InsertionOrder'
  BY DEF InsertionOrder, Orders
<1> QED
  BY <1>3, <1>4, <1>5, <1>6, <1>8, <1>9, <1>10

\* With no entry and nobody awaited, the live tasks were asked to stop.
LEMMA CloseLoopInd ==
    ASSUME IndInv, CloseLoop PROVE IndInv'
<1> USE DEF IndInv, TypeOK, Task, Registered, CloseLoop, stopVars
<1>1. \A t \in Task : Live(t) => t \in stopping
  BY NoIdAssumption DEF UsedIsReferred, Used, Live, LivePhases, LoopState
<1> QED
  BY <1>1, OrderKept
     DEF PCs, EntriesArePristine, UsedIsReferred, OneTaskPerWallet,
         FlagsAreOfTasks, LoopState, Used, Leaving

\* Ctrl-C may make wait_for drop a task it was cancelling, on the way out.
LEMMA InterruptInd ==
    ASSUME IndInv, Interrupt PROVE IndInv'
<1> USE DEF IndInv, TypeOK, Task, Registered, Interrupt
<1>1. TypeOK'
  BY DEF PCs
<1>2. EntriesArePristine'
  BY DEF EntriesArePristine
<1>3. UsedIsReferred'
  BY DEF UsedIsReferred, Used, Leaving, FlagsAreOfTasks
<1>4. OneTaskPerWallet'
  BY DEF OneTaskPerWallet, Used
<1>5. FlagsAreOfTasks'
  BY DEF FlagsAreOfTasks, Used, LoopState
<1>6. LoopState'
  BY DEF LoopState, Leaving
<1> QED
  BY <1>1, <1>2, <1>3, <1>4, <1>5, <1>6, OrderKept

(***************************************************************************)
(* The steps that only move pc, or a variable no other conjunct mentions.  *)
(***************************************************************************)
LEMMA QuietStepInd ==
    ASSUME IndInv,
           \/ PollError \/ WakeUp \/ Exit \/ RequestStop
           \/ \E w \in Wallets : UserToggles(w)
           \/ UNCHANGED vars
    PROVE  IndInv'
<1> USE DEF IndInv, TypeOK, PCs, EntriesArePristine, UsedIsReferred, Used,
            OneTaskPerWallet, FlagsAreOfTasks, LoopState, Registered, Leaving,
            loopVars, stopVars, workerVars
<1>1. CASE PollError
  BY <1>1, OrderKept DEF PollError
<1>2. CASE WakeUp
  BY <1>2, OrderKept DEF WakeUp
<1>3. CASE Exit
  BY <1>3, OrderKept DEF Exit
<1>4. CASE RequestStop
  BY <1>4, OrderKept DEF RequestStop
<1>5. ASSUME NEW w \in Wallets, UserToggles(w) PROVE IndInv'
  BY <1>5, OrderKept DEF UserToggles
<1>6. CASE UNCHANGED vars
  BY <1>6, OrderKept DEF vars, backendVars
<1> QED
  BY <1>1, <1>2, <1>3, <1>4, <1>5, <1>6

(***************************************************************************)
(* A worker's step changes its own phase, and moves within Used.  Without  *)
(* a stop it can reach no end but "failed".                                *)
(***************************************************************************)
LEMMA WorkerActionInd ==
    ASSUME IndInv, NEW t \in Task, WorkerAction(t) PROVE IndInv'
<1> USE DEF IndInv, TypeOK, Task, Registered
<1>1. PICK p \in Phases :
         /\ phase' = [phase EXCEPT ![t] = p]
         /\ t \notin stopping =>
               /\ phase[t] \in LivePhases
               /\ phase[t] # "leaving" =>
                     p \in (LivePhases \ {"leaving"}) \cup {"failed"}
  BY DEF WorkerAction, WorkerStep, BeCancelled, OutliveCancel, Moves, Phases,
         LivePhases, EndPhases, Live, FlagsAreOfTasks
<1>2. /\ Used(t)
      /\ UNCHANGED <<wanted, loopVars, stopVars, stopping>>
      /\ cancelling' \subseteq cancelling
  BY DEF WorkerAction, WorkerStep, BeCancelled, OutliveCancel, Used, Live,
         LivePhases, backendVars
<1>3. p # "none"
  BY DEF Phases, LivePhases, EndPhases
<1> USE <1>1, <1>2, <1>3 DEF loopVars, stopVars
<1>4. TypeOK'
  OBVIOUS
<1>5. EntriesArePristine'
  BY DEF EntriesArePristine
<1>6. \A u \in Task : Used(u)' <=> Used(u)
  BY DEF Used
<1>7. UsedIsReferred'
  BY <1>6 DEF UsedIsReferred
<1>8. OneTaskPerWallet'
  BY <1>6 DEF OneTaskPerWallet
<1>9. FlagsAreOfTasks'
  BY <1>6 DEF FlagsAreOfTasks
<1>10. LoopState'
  BY DEF LoopState
<1> QED
  BY <1>4, <1>5, <1>7, <1>8, <1>9, <1>10, OrderKept

\* Every step preserves the invariant.
LEMMA NextInd == IndInv /\ [Next]_vars => IndInv'
<1> SUFFICES ASSUME IndInv, [Next]_vars PROVE IndInv'
  OBVIOUS
<1>1. wanted \in SUBSET Wallets /\ {} \in SUBSET Wallets
  BY DEF IndInv, TypeOK
<1> QED
  BY <1>1, PollAnswerInd, StopWorkerInd, StopTimeoutInd, StopReturnsInd,
     DrainOneInd, ShutdownInd, CloseLoopInd, InterruptInd, QuietStepInd,
     WorkerActionInd
     DEF Next, SupervisorStep, Ended

(***************************************************************************)
(* The invariant holds of every behaviour of the supervisor.               *)
(***************************************************************************)
THEOREM Invariance == Spec => []IndInv
<1> QED
  BY InitInd, NextInd, PTL DEF Spec

-----------------------------------------------------------------------------
(* What follows from it                                                    *)

(***************************************************************************)
(* Every variable keeps its type.                                          *)
(***************************************************************************)
THEOREM TypeCorrect == Spec => []TypeOK
<1>1. IndInv => TypeOK
  BY DEF IndInv
<1> QED
  BY <1>1, Invariance, PTL

(***************************************************************************)
(* At most one worker of a wallet runs at any moment.                      *)
(***************************************************************************)
THEOREM OneWorker == Spec => []OneWorkerPerWallet
<1>1. IndInv => OneWorkerPerWallet
  BY DEF IndInv, OneTaskPerWallet, OneWorkerPerWallet, Used, Live, LivePhases
<1> QED
  BY <1>1, Invariance, PTL

(***************************************************************************)
(* No live worker is without an entry and without somebody waiting for it, *)
(* but for the one Ctrl-C may leave behind on the way out.                 *)
(***************************************************************************)
THEOREM NoneForgotten == Spec => []NoForgottenWorker
<1>1. IndInv => NoForgottenWorker
  BY DEF IndInv, UsedIsReferred, NoForgottenWorker, Used, Live, LivePhases
<1> QED
  BY <1>1, Invariance, PTL

(***************************************************************************)
(* An entry whose task has ended is one of a task that failed.             *)
(***************************************************************************)
THEOREM OnlyFailed == Spec => []OnlyFailuresKeepEntries
<1>1. IndInv => OnlyFailuresKeepEntries
  BY DEF IndInv, EntriesArePristine, OnlyFailuresKeepEntries
<1> QED
  BY <1>1, Invariance, PTL

\* One step: a task comes into being only in a poll that names its wallet, when
\* the wallet has no entry.
LEMMA StepStartsReported ==
    ASSUME IndInv, Next, NEW t \in Task, phase[t] = "none", phase'[t] # "none"
    PROVE  pc = "poll" /\ ~interrupted /\ t[1] \in active' \ Registered
<1> DEFINE Goal == pc = "poll" /\ ~interrupted /\ t[1] \in active' \ Registered
<1>1. ASSUME NEW A \in SUBSET Wallets, PollAnswer(A) PROVE Goal
  BY <1>1 DEF PollAnswer, StartWorkers, IndInv, TypeOK, LoopState, Leaving
<1>2. ASSUME NEW u \in Task, Release(u) PROVE FALSE
  BY <1>2 DEF Release, IndInv, TypeOK
<1>3. ASSUME NEW u \in Task, WorkerAction(u) PROVE FALSE
  BY <1>3 DEF WorkerAction, WorkerStep, BeCancelled, OutliveCancel, Live,
              LivePhases, IndInv, TypeOK
<1>4. wanted \in SUBSET Wallets /\ {} \in SUBSET Wallets
  BY DEF IndInv, TypeOK
<1>5. phase' # phase
  OBVIOUS
<1> QED
  BY <1>1, <1>2, <1>3, <1>4, <1>5
     DEF Next, SupervisorStep, PollError, StopWorker, StopTimeout, StopReturns,
         DrainOne, WakeUp, Shutdown, CloseLoop, Exit, RequestStop, Interrupt,
         UserToggles, Ended, vars, workerVars

\* A worker starts only from a poll that names its wallet, only when the wallet
\* has no entry, and never on the way out.
THEOREM StartsReported == Spec => StartsOnlyWhatWasReported
<1>1. IndInv /\ [Next]_vars =>
         [\A t \in Task : phase[t] = "none" /\ phase'[t] # "none" =>
             /\ pc = "poll" /\ ~interrupted
             /\ t[1] \in active' \ Registered]_vars
  BY StepStartsReported
<1> QED
  BY <1>1, Invariance, PTL DEF Spec, StartsOnlyWhatWasReported

\* One step: the tasks newly asked to stop, or cancelled, are of wallets left out.
LEMMA StepStopsLeftOut ==
    ASSUME IndInv, Next,
           NEW t \in (stopping' \cup cancelling') \ (stopping \cup cancelling)
    PROVE  t[1] \notin active \/ pc \in Leaving
<1> USE DEF IndInv, TypeOK
<1>1. ASSUME NEW w \in Wallets, StopWorker(w) PROVE t[1] \notin active
  BY <1>1 DEF StopWorker, LoopState
<1>2. ASSUME NEW u \in Task, StopTimeout(u) PROVE FALSE
  BY <1>2 DEF StopTimeout, FlagsAreOfTasks
<1>3. ASSUME NEW u \in Task, Release(u) PROVE FALSE
  BY <1>3 DEF Release
<1>4. CASE Shutdown
  BY <1>4 DEF Shutdown, Leaving
<1>5. CASE CloseLoop
  BY <1>5 DEF CloseLoop, Leaving
<1>6. CASE Interrupt
  BY <1>6 DEF Interrupt, FlagsAreOfTasks
<1>7. ASSUME NEW u \in Task, WorkerAction(u) PROVE FALSE
  BY <1>7 DEF WorkerAction, WorkerStep, BeCancelled, OutliveCancel
<1> QED
  BY <1>1, <1>2, <1>3, <1>4, <1>5, <1>6, <1>7
     DEF Next, SupervisorStep, PollAnswer, PollError, StopReturns, DrainOne,
         WakeUp, Exit, RequestStop, UserToggles, Ended, vars, workerVars

\* A worker is asked to stop only if its wallet was left out, or on the way out.
THEOREM StopsLeftOut == Spec => StopsOnlyWhatWasLeftOut
<1>1. IndInv /\ [Next]_vars =>
         [\A t \in (stopping' \cup cancelling') \ (stopping \cup cancelling) :
             t[1] \notin active \/ pc \in Leaving]_vars
  BY StepStopsLeftOut
<1> QED
  BY <1>1, Invariance, PTL DEF Spec, StopsOnlyWhatWasLeftOut

-----------------------------------------------------------------------------
(* The supervisor implements the abstract pool                             *)

(***************************************************************************)
(* As a wallet has at most one task, that task alone decides what the      *)
(* wallet is in the pool; stated for a state and for its successor.        *)
(***************************************************************************)
PoolStateOf(t, ph, st) ==
    IF ph[t] \in LivePhases THEN IF t \in st THEN "leaving" ELSE "working"
                            ELSE "idle"

LEMMA PoolStateUsed ==
    ASSUME IndInv, NEW t \in Task, Used(t)
    PROVE  PoolState(t[1]) = PoolStateOf(t, phase, stopping)
<1>1. \A id \in Ids : Used(<<t[1], id>>) => <<t[1], id>> = t
  BY DEF IndInv, OneTaskPerWallet, Task
<1>2. t[1] \in Wallets /\ t[2] \in Ids /\ t = <<t[1], t[2]>>
  BY DEF Task
<1> QED
  BY <1>1, <1>2 DEF PoolState, PoolStateOf, Used, Live, LivePhases

\* The same for the values of the next state.
LEMMA PoolStateUsedNext ==
    ASSUME IndInv', NEW t \in Task, Used(t)'
    PROVE  PoolState(t[1])' = PoolStateOf(t, phase', stopping')
<1>1. \A id \in Ids : Used(<<t[1], id>>)' => <<t[1], id>> = t
  BY DEF IndInv, OneTaskPerWallet, Task
<1>2. t[1] \in Wallets /\ t[2] \in Ids /\ t = <<t[1], t[2]>>
  BY DEF Task
<1> QED
  BY <1>1, <1>2 DEF PoolState, PoolStateOf, Used, Live, LivePhases

\* The pool does not change when no live task changes its flags or dies.
LEMMA PoolStateSame ==
    ASSUME NEW w \in Wallets,
           \A id \in Ids :
               /\ Live(<<w, id>>)' <=> Live(<<w, id>>)
               /\ Live(<<w, id>>) =>
                     (<<w, id>> \in stopping' <=> <<w, id>> \in stopping)
    PROVE  PoolState(w)' = PoolState(w)
BY DEF PoolState

\* No task is live at first, so the pool is idle.
LEMMA RefineInit == Init => Pool!PoolInit
BY DEF Init, Pool!PoolInit, PoolState, Live, LivePhases, Leaving, Task

\* A poll that is answered is an Answer of the pool: idle wallets join.
LEMMA RefineAnswer ==
    ASSUME IndInv, IndInv', NEW A \in SUBSET Wallets, PollAnswer(A)
    PROVE  Pool!Answer(A)
<1> USE DEF IndInv, TypeOK
<1> DEFINE J == A \ Registered
<1>1. PICK id \in [J -> Ids] :
         /\ \A w \in J : phase[<<w, id[w]>>] = "none"
         /\ phase' = [t \in Task |-> IF t[1] \in J /\ t[2] = id[t[1]]
                                       THEN "created" ELSE phase[t]]
  BY DEF PollAnswer, StartWorkers
<1>2. pc \notin Leaving /\ pc' \notin Leaving /\ awaited = {}
  BY DEF PollAnswer, VisitOrSleep, Leaving, LoopState
<1>3. ASSUME NEW w \in J PROVE PoolState(w) = "idle" /\ PoolState(w)' = "working"
  <2>1. w \in Wallets /\ id[w] \in Ids /\ registry[w] = NoId
    BY DEF Registered
  <2>2. \A k \in Ids : ~Used(<<w, k>>)
    BY <1>2, <2>1, NoIdAssumption DEF UsedIsReferred, Task
  <2>3. PoolState(w) = "idle"
    BY <2>2 DEF PoolState, Used, Live, LivePhases
  <2>4. <<w, id[w]>> \notin stopping
    BY <1>1 DEF FlagsAreOfTasks, Used
  <2>5. phase'[<<w, id[w]>>] = "created" /\ <<w, id[w]>> \notin stopping'
    BY <1>1, <2>1, <2>4 DEF Task, PollAnswer
  <2> QED
    BY <2>1, <2>3, <2>5 DEF PoolState, Live, LivePhases
<1>4. ASSUME NEW w \in Wallets, w \notin J PROVE PoolState(w)' = PoolState(w)
  <2>1. \A k \in Ids : phase'[<<w, k>>] = phase[<<w, k>>]
    BY <1>1, <1>4 DEF Task
  <2> QED
    BY <2>1, PoolStateSame DEF Live, PollAnswer
<1>5. J \in SUBSET {w \in A : PoolState(w) = "idle"}
  BY <1>3
<1>6. [w \in Wallets |-> PoolState(w)]' =
         [w \in Wallets |-> IF w \in J THEN "working"
                              ELSE [v \in Wallets |-> PoolState(v)][w]]
  BY <1>3, <1>4
<1>7. {w \in A : [v \in Wallets |-> PoolState(v)][w] = "idle"}
        = {w \in A : PoolState(w) = "idle"}
  OBVIOUS
<1> QED
  BY <1>2, <1>5, <1>6, <1>7 DEF Pool!Answer, PollAnswer

\* Asking the workers of the wallets in W to stop.
LEMMA RefineDismiss ==
    ASSUME IndInv, IndInv', NEW W \in SUBSET Registered,
           stopping' = stopping \cup {<<w, registry[w]>> : w \in W},
           UNCHANGED <<phase, active>>, pc \in Leaving \/ W \cap active = {},
           pc \in Leaving <=> pc' \in Leaving
    PROVE  Pool!Dismiss(W)
<1> USE DEF IndInv, TypeOK, Registered
<1>1. ASSUME NEW w \in Wallets
      PROVE  PoolState(w)' = IF w \in W /\ PoolState(w) = "working"
                               THEN "leaving" ELSE PoolState(w)
  <2>1. CASE w \notin W
    BY <2>1, PoolStateSame DEF Live
  <2>2. CASE w \in W
    <3>1. PICK k \in Ids : registry[w] = k
      BY <2>2
    <3> DEFINE t == <<w, k>>
    <3>2. t \in Task /\ t[1] = w
      BY DEF Task
    <3>3. Used(t) /\ t \notin stopping
      BY <2>2, <3>1 DEF EntriesArePristine, Used, LivePhases
    <3>4. Used(t)' /\ t \in stopping'
      BY <2>2, <3>1, <3>3 DEF Used
    <3>5. PoolState(w) = PoolStateOf(t, phase, stopping)
      BY <3>2, <3>3, PoolStateUsed
    <3>6. PoolState(w)' = PoolStateOf(t, phase', stopping')
      BY <3>2, <3>4, PoolStateUsedNext
    <3> QED
      BY <2>2, <3>3, <3>4, <3>5, <3>6 DEF PoolStateOf
  <2> QED
    BY <2>1, <2>2
<1> QED
  BY <1>1 DEF Pool!Dismiss

\* A worker's own step, to another live phase or to its end.
LEMMA RefineWorker ==
    ASSUME IndInv, IndInv', NEW t \in Task, WorkerAction(t)
    PROVE  Pool!End(t[1]) \/ UNCHANGED Pool!poolVars
<1> USE DEF IndInv, TypeOK
<1>1. /\ Live(t)
      /\ \E p \in Phases : phase' = [phase EXCEPT ![t] = p]
      /\ UNCHANGED <<active, pc, stopping>>
  BY DEF WorkerAction, WorkerStep, BeCancelled, OutliveCancel, Live, Phases,
         LivePhases, EndPhases, loopVars
<1>2. Used(t) /\ Used(t)'
  BY <1>1 DEF Used, Live, Phases, LivePhases, EndPhases
<1>3. t[1] \in Wallets /\ t = <<t[1], t[2]>>
  BY DEF Task
<1>4. ASSUME NEW w \in Wallets, w # t[1] PROVE PoolState(w)' = PoolState(w)
  <2>1. \A k \in Ids : phase'[<<w, k>>] = phase[<<w, k>>]
    BY <1>1, <1>4, <1>3 DEF Task
  <2> QED
    BY <2>1, <1>1, PoolStateSame DEF Live
<1>5. PoolState(t[1]) = PoolStateOf(t, phase, stopping)
  BY <1>2, PoolStateUsed
<1>6. PoolState(t[1])' = PoolStateOf(t, phase', stopping')
  BY <1>2, PoolStateUsedNext
<1>7. CASE Live(t)'
  <2>1. PoolState(t[1])' = PoolState(t[1])
    BY <1>1, <1>5, <1>6, <1>7 DEF PoolStateOf, Live
  <2> QED
    BY <2>1, <1>1, <1>4 DEF Pool!poolVars
<1>8. CASE ~Live(t)'
  <2>1. PoolState(t[1])' = "idle"
    BY <1>6, <1>8 DEF PoolStateOf, Live
  <2> QED
    BY <2>1, <1>1, <1>3, <1>4 DEF Pool!End
<1> QED
  BY <1>7, <1>8

\* The steps that leave every live task alone.
LEMMA RefineQuiet ==
    ASSUME IndInv, UNCHANGED active,
           \A t \in Task :
               /\ Live(t)' <=> Live(t)
               /\ Live(t) => (t \in stopping' <=> t \in stopping),
           pc \in Leaving => pc' \in Leaving
    PROVE  Pool!Close \/ UNCHANGED Pool!poolVars
<1>1. \A w \in Wallets : PoolState(w)' = PoolState(w)
  BY PoolStateSame DEF Task
<1> QED
  BY <1>1 DEF Pool!Close, Pool!poolVars

\* Releasing a task that has ended changes no live one.
LEMMA RefineRelease ==
    ASSUME IndInv, NEW t \in Task, Release(t), phase[t] \in EndPhases
    PROVE  \A u \in Task :
               /\ Live(u)' <=> Live(u)
               /\ Live(u) => (u \in stopping' <=> u \in stopping)
BY DEF IndInv, TypeOK, Release, Live, LivePhases, EndPhases

\* Every step of the supervisor is a step of the pool, or a stutter.
LEMMA RefineNext ==
    IndInv /\ IndInv' /\ [Next]_vars => [Pool!PoolNext]_(Pool!poolVars)
<1> SUFFICES ASSUME IndInv, IndInv', [Next]_vars
             PROVE  Pool!PoolNext \/ UNCHANGED Pool!poolVars
  OBVIOUS
<1> USE DEF IndInv, TypeOK
<1>1. ASSUME NEW A \in SUBSET Wallets, PollAnswer(A) PROVE Pool!PoolNext
  BY <1>1, RefineAnswer DEF Pool!PoolNext
<1>2. ASSUME NEW w \in Wallets, StopWorker(w) PROVE Pool!PoolNext
  <2>1. /\ {w} \in SUBSET Registered
        /\ stopping' = stopping \cup {<<v, registry[v]>> : v \in {w}}
        /\ UNCHANGED <<phase, active>>
        /\ {w} \cap active = {}
        /\ pc \in Leaving <=> pc' \in Leaving
    BY <1>2 DEF StopWorker, LoopState, Leaving
  <2>2. Pool!Dismiss({w})
    BY <2>1, RefineDismiss
  <2> QED
    BY <2>2 DEF Pool!PoolNext
<1>3. CASE Shutdown
  <2>1. /\ Registered \in SUBSET Registered
        /\ stopping' = stopping \cup {<<v, registry[v]>> : v \in Registered}
        /\ UNCHANGED <<phase, active>>
        /\ pc \in Leaving /\ pc' \in Leaving
    BY <1>3 DEF Shutdown, Leaving
  <2>2. Pool!Dismiss(Registered)
    BY <2>1, RefineDismiss
  <2> QED
    BY <2>2 DEF Pool!PoolNext, Registered
<1>4. ASSUME NEW t \in Task, StopReturns(t) \/ DrainOne(t)
      PROVE  Pool!PoolNext \/ UNCHANGED Pool!poolVars
  <2>1. Release(t) /\ phase[t] \in EndPhases /\ UNCHANGED active
    BY <1>4 DEF StopReturns, DrainOne, loopVars
  <2>2. pc \in Leaving => pc' \in Leaving
    BY <1>4 DEF StopReturns, DrainOne, loopVars, Leaving
  <2> QED
    BY <2>1, <2>2, RefineRelease, RefineQuiet DEF Pool!PoolNext
<1>5. ASSUME NEW t \in Task, WorkerAction(t)
      PROVE  Pool!PoolNext \/ UNCHANGED Pool!poolVars
  BY <1>5, RefineWorker DEF Pool!PoolNext, Task
<1>6. ASSUME \/ PollError \/ WakeUp \/ CloseLoop \/ Exit \/ RequestStop
             \/ Interrupt \/ Ended \/ UNCHANGED vars
             \/ \E t \in Task : StopTimeout(t)
             \/ \E w \in Wallets : UserToggles(w)
      PROVE  Pool!PoolNext \/ UNCHANGED Pool!poolVars
  <2>1. UNCHANGED <<active, phase, stopping>>
    BY <1>6 DEF PollError, WakeUp, CloseLoop, Exit, RequestStop, Interrupt,
                Ended, StopTimeout, UserToggles, vars, loopVars, stopVars,
                workerVars
  <2>2. pc \in Leaving => pc' \in Leaving
    BY <1>6 DEF PollError, WakeUp, CloseLoop, Exit, RequestStop, Interrupt,
                Ended, StopTimeout, UserToggles, vars, loopVars, Leaving
  <2> QED
    BY <2>1, <2>2, RefineQuiet DEF Pool!PoolNext, Live
<1>7. wanted \in SUBSET Wallets /\ {} \in SUBSET Wallets
  OBVIOUS
<1> QED
  BY <1>1, <1>2, <1>3, <1>4, <1>5, <1>6, <1>7 DEF Next, SupervisorStep

(***************************************************************************)
(* Refinement: whatever the supervisor does to its tasks is something the  *)
(* abstract pool allows.                                                   *)
(***************************************************************************)
THEOREM Refinement == Spec => ImplementsPool
<1> QED
  BY RefineInit, RefineNext, Invariance, PTL
     DEF Spec, ImplementsPool, Pool!PoolSpec
=============================================================================
