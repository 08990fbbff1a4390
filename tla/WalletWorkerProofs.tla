------------------------- MODULE WalletWorkerProofs -------------------------
(***************************************************************************)
(* Theorems about WalletWorker: what the backend shows of a run is true,   *)
(* unless a request that was given up on came late, and run(), call by     *)
(* call, is a WorkerLife.                                                  *)
(***************************************************************************)
EXTENDS WalletWorker, TLAPS

-----------------------------------------------------------------------------
(* The ends of a round                                                     *)

\* A round that begins has a token before it asks for the settings.
LEMMA LoopTopLeads ==
    ASSUME LoopTop
    PROVE  /\ pc' = "post_stopped" \/ pc' \in {"scan", "settings", "login"}
           /\ pc' = "post_stopped" <=> stopEvent
           /\ pc' = "settings" => jwt # "none"
           /\ logins' = 0 /\ secondTry' = FALSE
BY DEF LoopTop, AfterEnsureJwt

\* A round that is over leads nowhere but to the next.
LEMMA RestLeads ==
    ASSUME \/ RestAtOnce
           \/ \E inHand \in BOOLEAN : RestAfterCalls(inHand)
    PROVE  pc' \in {"rest", "turn"}
BY DEF RestAtOnce, RestAfterCalls

-----------------------------------------------------------------------------
(* The inductive invariant                                                 *)

\* The initial states satisfy the invariant.
LEMMA InitInd == Init => IndInv
<1>1. Init => Flags
  BY DEF Init, Flags
<1> QED
  BY <1>1 DEF Init, IndInv, TypeOK, PCs, Posts, EndPhases, LoginsCounted, TokenInHand,
              StatusMatchesRun, Statuses

\* The flags are set and reset as flags.
LEMMA FlagsInd ==
    ASSUME Flags, [Next]_vars PROVE Flags'
<1> USE DEF Flags, ownVars, cacheVars, jwtVars, copyVars, statusVars, Shows, GiveUp
<1>1. CASE RunStep
  <2>1. CASE Begin \/ PostActive \/ Wake \/ PostStopped
    BY <2>1 DEF Begin, PostActive, LoopTop, Wake, PostStopped
  <2>2. CASE Login \/ SettingsAnswer \/ SettingsRefused \/ SettingsError
    BY <2>2 DEF Login, SettingsAnswer, SettingsRefused, SettingsError
  <2>3. CASE ScanReturns \/ RaisesAuthError \/ RaisesError
    BY <2>3 DEF ScanReturns, RaisesAuthError, RaisesError
  <2>4. CASE LogPosted \/ PostError \/ HandlerRaises
    BY <2>4 DEF LogPosted, PostError, HandlerRaises
  <2> QED
    BY <1>1, <2>1, <2>2, <2>3, <2>4 DEF RunStep
<1>2. CASE BeCancelled \/ OutliveCancel \/ Stop \/ Cancel
  BY <1>2 DEF BeCancelled, OutliveCancel, LoopTop, Stop, Cancel
<1>3. CASE TimePasses \/ TokenGoesBad \/ TroubleToggles
  BY <1>3 DEF TimePasses, Age, TokenGoesBad, TroubleToggles
<1>4. CASE UNCHANGED vars
  BY <1>4 DEF vars
<1>5. CASE SendAgain \/ LateShows
  BY <1>5 DEF SendAgain, LateShows
<1> QED
  BY <1>1, <1>2, <1>3, <1>4, <1>5 DEF Next, Over

(***************************************************************************)
(* What is shown is a status; no late status is forgotten, and what is     *)
(* stray was late.                                                         *)
(***************************************************************************)
StatusTypes ==
    /\ shown \in Statuses \cup {"none"}
    /\ late \in SUBSET Statuses
    /\ stray => shown \in late

\* Each step serves a status, gives one up, shows a late one, or none of these.
LEMMA StatusSteps ==
    ASSUME [Next]_vars
    PROVE  \/ \E status \in Statuses : Shows(status)
           \/ GiveUp
           \/ LateShows
           \/ UNCHANGED statusVars
<1> USE DEF Statuses
<1>1. CASE RunStep
  <2>1. CASE PostActive \/ PostError \/ PostStopped
    BY <2>1 DEF PostActive, PostError, PostStopped
  <2>2. CASE Begin \/ Login \/ SettingsAnswer \/ SettingsRefused \/ SettingsError
    BY <2>2 DEF Begin, Login, SettingsAnswer, SettingsRefused, SettingsError
  <2>3. CASE ScanReturns \/ RaisesAuthError \/ RaisesError
    BY <2>3 DEF ScanReturns, RaisesAuthError, RaisesError
  <2>4. CASE LogPosted \/ HandlerRaises \/ Wake
    BY <2>4 DEF LogPosted, HandlerRaises, Wake
  <2> QED
    BY <1>1, <2>1, <2>2, <2>3, <2>4 DEF RunStep
<1>2. CASE BeCancelled \/ SendAgain
  BY <1>2 DEF BeCancelled, SendAgain
<1>3. CASE OutliveCancel \/ Stop \/ Cancel
  BY <1>3 DEF OutliveCancel, Stop, Cancel
<1>4. CASE TimePasses \/ TokenGoesBad \/ TroubleToggles
  BY <1>4 DEF TimePasses, Age, TokenGoesBad, TroubleToggles
<1>5. CASE UNCHANGED vars
  BY <1>5 DEF vars
<1> QED
  BY <1>1, <1>2, <1>3, <1>4, <1>5 DEF Next, Over

\* The status keeps its type.
LEMMA StatusInd ==
    ASSUME StatusTypes, [Next]_vars PROVE StatusTypes'
<1> USE DEF StatusTypes
<1>1. ASSUME NEW status \in Statuses, Shows(status) PROVE StatusTypes'
  BY <1>1 DEF Shows
<1>2. CASE GiveUp
  BY <1>2 DEF GiveUp
<1>3. CASE LateShows
  BY <1>3 DEF LateShows
<1>4. CASE UNCHANGED statusVars
  BY <1>4 DEF statusVars
<1> QED
  BY <1>1, <1>2, <1>3, <1>4, StatusSteps

\* The steps of run() keep it.
LEMMA RunStepInd ==
    ASSUME IndInv, Flags', StatusTypes', RunStep PROVE IndInv'
<1> USE DEF IndInv, TypeOK, LoginsCounted, TokenInHand, StatusMatchesRun,
            PCs, Posts, EndPhases,
            ownVars, cacheVars, jwtVars, copyVars, statusVars, StatusTypes
<1>1. CASE Begin
  BY <1>1 DEF Begin
<1>2. CASE PostActive
  <2>1. CASE Shows("active") /\ LoopTop
    <3>1. /\ pc' \in {"post_stopped", "scan", "settings", "login"}
          /\ pc' = "settings" => jwt # "none"
          /\ logins' = 0
      BY <2>1, LoopTopLeads
    <3> QED
      BY <1>2, <2>1, <3>1 DEF PostActive, Shows
  <2>2. CASE pc' = "failed" /\ GiveUp /\ UNCHANGED logins
    BY <1>2, <2>2 DEF PostActive
  <2> QED
    BY <1>2, <2>1, <2>2 DEF PostActive
<1>3. CASE Login
  BY <1>3 DEF Login, CatchAuthError, DropJwt
<1>4. CASE SettingsAnswer
  BY <1>4 DEF SettingsAnswer
<1>5. CASE SettingsRefused
  BY <1>5 DEF SettingsRefused, CatchAuthError, DropJwt, AfterEnsureJwt
<1>6. CASE SettingsError
  BY <1>6 DEF SettingsError
<1>7. CASE ScanReturns
  <2>1. pc' \in {"rest", "turn", "post_heartbeat"}
    BY <1>7, RestLeads DEF ScanReturns
  <2> QED
    BY <1>7, <2>1 DEF ScanReturns
<1>8. CASE RaisesAuthError \/ RaisesError
  BY <1>8 DEF RaisesAuthError, RaisesError, CatchAuthError, DropJwt
<1>9. CASE LogPosted
  <2>1. pc' \in {"rest", "turn"}
    BY <1>9 DEF LogPosted, RestAfterCalls
  <2> QED
    BY <1>9, <2>1 DEF LogPosted
<1>10. CASE PostError \/ HandlerRaises
  BY <1>10 DEF PostError, HandlerRaises, Shows
<1>11. CASE Wake
  BY <1>11, LoopTopLeads DEF Wake
<1>12. CASE PostStopped
  BY <1>12 DEF PostStopped, Shows
<1> QED
  BY <1>1, <1>2, <1>3, <1>4, <1>5, <1>6, <1>7, <1>8, <1>9, <1>10, <1>11, <1>12
     DEF RunStep

\* So does what comes from outside.
LEMMA OutsideInd ==
    ASSUME IndInv, Flags', StatusTypes',
           \/ BeCancelled \/ OutliveCancel \/ Stop \/ Cancel
           \/ SendAgain \/ LateShows \/ TimePasses \/ TokenGoesBad
           \/ TroubleToggles \/ UNCHANGED vars
    PROVE  IndInv'
<1> USE DEF IndInv, TypeOK, LoginsCounted, TokenInHand, StatusMatchesRun,
            PCs, Posts, EndPhases, vars,
            ownVars, cacheVars, jwtVars, copyVars, statusVars, StatusTypes
<1>1. CASE BeCancelled
  BY <1>1 DEF BeCancelled
<1>2. CASE OutliveCancel
  BY <1>2, LoopTopLeads DEF OutliveCancel
<1>3. CASE Stop \/ Cancel
  BY <1>3 DEF Stop, Cancel
<1>4. CASE TimePasses
  BY <1>4 DEF TimePasses, Age
<1>5. CASE TokenGoesBad \/ TroubleToggles
  BY <1>5 DEF TokenGoesBad, TroubleToggles
<1>6. CASE UNCHANGED vars
  BY <1>6
<1>7. CASE SendAgain
  BY <1>7 DEF SendAgain, GiveUp
<1>8. CASE LateShows
  BY <1>8 DEF LateShows
<1> QED
  BY <1>1, <1>2, <1>3, <1>4, <1>5, <1>6, <1>7, <1>8

\* Every step keeps the invariant.
LEMMA NextInd == IndInv /\ [Next]_vars => IndInv'
<1> SUFFICES ASSUME IndInv, [Next]_vars PROVE IndInv'
  OBVIOUS
<1>1. Flags'
  BY FlagsInd DEF IndInv, TypeOK
<1>2. StatusTypes'
  BY StatusInd DEF IndInv, TypeOK, StatusTypes, StatusMatchesRun
<1> QED
  BY <1>1, <1>2, RunStepInd, OutsideInd DEF Next, Over

-----------------------------------------------------------------------------
(* Theorems                                                                *)

\* The inductive invariant of WalletWorker: no settings are asked for without
\* a token, and none but a refused token is followed by a second login.
THEOREM Invariance == Spec => []IndInv
BY InitInd, NextInd, PTL DEF Spec

\* Every variable keeps its type; no round logs in more than twice.
THEOREM TypeCorrect == Spec => []TypeOK
<1>1. IndInv => TypeOK
  BY DEF IndInv
<1> QED
  BY <1>1, Invariance, PTL

\* A worker that has returned is shown stopped, and one inside its loop is
\* never shown stopped or unknown (run, its posts and its handlers), unless
\* what is shown came late, from a request that was given up on.
THEOREM TrueStatus == Spec => []StatusMatchesRun
<1>1. IndInv => StatusMatchesRun
  BY DEF IndInv
<1> QED
  BY <1>1, Invariance, PTL

-----------------------------------------------------------------------------
(* Refinement                                                              *)

\* The phase of each call of run().
LEMMA PhasesOfCalls ==
    /\ PhaseOf("created") = "created"
    /\ PhaseOf("post_active") = "announcing"
    /\ \A p \in {"login", "settings", "scan", "post_heartbeat"} : PhaseOf(p) = "working"
    /\ \A p \in {"post_auth", "post_error", "post_log"} : PhaseOf(p) = "recovering"
    /\ \A p \in {"rest", "turn"} : PhaseOf(p) = "resting"
    /\ PhaseOf("post_stopped") = "leaving"
    /\ \A p \in EndPhases : PhaseOf(p) = p
<1>1. PhaseOf("created") = "created"
  BY Zenon DEF PhaseOf
<1>2. PhaseOf("post_active") = "announcing"
  BY Zenon DEF PhaseOf
<1>3. \A p \in {"login", "settings", "scan", "post_heartbeat"} : PhaseOf(p) = "working"
  BY Zenon DEF PhaseOf
<1>4. \A p \in {"post_auth", "post_error", "post_log"} : PhaseOf(p) = "recovering"
  BY Zenon DEF PhaseOf
<1>5. \A p \in {"rest", "turn"} : PhaseOf(p) = "resting"
  BY Zenon DEF PhaseOf
<1>6. PhaseOf("post_stopped") = "leaving"
  BY Zenon DEF PhaseOf
<1>7. \A p \in EndPhases : PhaseOf(p) = p
  BY Zenon DEF PhaseOf, EndPhases
<1> QED
  BY <1>1, <1>2, <1>3, <1>4, <1>5, <1>6, <1>7

\* The steps of run() are its moves.
LEMMA RunStepMoves ==
    ASSUME IndInv, RunStep
    PROVE  \/ <<LifePhase, LifePhase'>> \in Moves(stopEvent)
           \/ LifePhase' = LifePhase
<1> USE PhasesOfCalls DEF Moves, LifePhase
<1>1. CASE Begin
  BY <1>1 DEF Begin
<1>2. CASE PostActive
  <2>1. CASE LoopTop
    BY <1>2, <2>1, LoopTopLeads DEF PostActive
  <2>2. CASE pc' = "failed"
    BY <1>2, <2>2 DEF PostActive, EndPhases
  <2> QED
    BY <1>2, <2>1, <2>2 DEF PostActive
<1>3. CASE Login
  BY <1>3 DEF Login, CatchAuthError
<1>4. CASE SettingsAnswer \/ SettingsError
  BY <1>4 DEF SettingsAnswer, SettingsError
<1>5. CASE SettingsRefused
  BY <1>5 DEF SettingsRefused, CatchAuthError, AfterEnsureJwt
<1>6. CASE ScanReturns
  <2>1. pc' \in {"rest", "turn", "post_heartbeat"}
    BY <1>6, RestLeads DEF ScanReturns
  <2> QED
    BY <1>6, <2>1 DEF ScanReturns
<1>7. CASE RaisesAuthError \/ RaisesError
  BY <1>7 DEF RaisesAuthError, RaisesError, CatchAuthError
<1>8. CASE LogPosted
  <2>1. pc' \in {"rest", "turn"}
    BY <1>8 DEF LogPosted, RestAfterCalls
  <2> QED
    BY <1>8, <2>1 DEF LogPosted
<1>9. CASE PostError
  BY <1>9 DEF PostError, EndPhases
<1>10. CASE HandlerRaises
  BY <1>10 DEF HandlerRaises, EndPhases
<1>11. CASE Wake
  BY <1>11, LoopTopLeads DEF Wake
<1>12. CASE PostStopped
  BY <1>12 DEF PostStopped, EndPhases
<1> QED
  BY <1>1, <1>2, <1>3, <1>4, <1>5, <1>6, <1>7, <1>8, <1>9, <1>10, <1>11, <1>12
     DEF RunStep

\* A run that has not ended has not ended for the supervisor either.
LEMMA AliveIsLive ==
    ASSUME IndInv, Alive PROVE LifePhase \in LivePhases
BY PhasesOfCalls
   DEF IndInv, TypeOK, PCs, Posts, Alive, EndPhases, LivePhases, LifePhase

\* Every step of run(), and every step from outside, is one of WorkerLife's.
LEMMA LifeStep ==
    ASSUME IndInv, [Next]_vars PROVE [Life!Next]_(Life!lifeVars)
<1> USE DEF Life!Next, Life!lifeVars
<1>1. CASE ~cancel /\ RunStep
  <2>1. UNCHANGED <<stopEvent, cancel>>
    BY <1>1 DEF RunStep, Begin, PostActive, Login, SettingsAnswer, SettingsRefused,
                SettingsError, ScanReturns, RaisesAuthError, RaisesError, LogPosted,
                PostError, HandlerRaises, Wake, PostStopped, ownVars
  <2> QED
    BY <1>1, <2>1, RunStepMoves DEF Life!Run, Life!Moves, Moves
<1>2. CASE BeCancelled
  <2>1. LifePhase' = "cancelled"
    BY <1>2, PhasesOfCalls DEF BeCancelled, LifePhase, EndPhases
  <2> QED
    BY <1>2, <2>1, AliveIsLive DEF BeCancelled, ownVars, Life!BeCancelled,
       Life!LivePhases, LivePhases
<1>3. CASE OutliveCancel
  <2>1. LifePhase = "resting" /\ LifePhase' = "leaving"
    BY <1>3, PhasesOfCalls, LoopTopLeads DEF OutliveCancel, LifePhase
  <2> QED
    BY <1>3, <2>1 DEF OutliveCancel, Life!OutliveCancel
<1>4. CASE Stop
  BY <1>4 DEF Stop, LifePhase, Life!Stop
<1>5. CASE Cancel
  BY <1>5, AliveIsLive DEF Cancel, LifePhase, Life!Cancel, Life!LivePhases, LivePhases
<1>6. CASE \/ SendAgain \/ LateShows \/ TimePasses \/ TokenGoesBad
           \/ TroubleToggles \/ UNCHANGED vars
  <2>1. UNCHANGED <<pc, stopEvent, cancel>>
    BY <1>6 DEF SendAgain, LateShows, TimePasses, Age, TokenGoesBad, TroubleToggles,
                vars, ownVars
  <2> QED
    BY <2>1 DEF LifePhase
<1> QED
  BY <1>1, <1>2, <1>3, <1>4, <1>5, <1>6 DEF Next, Over

\* To the supervisor, which is written with the moves of WorkerLife, run() is
\* a WorkerLife, whatever the backend and the network do to it.
THEOREM LifeImplemented == Spec => ImplementsLife
<1>1. Init => Life!Init
  BY PhasesOfCalls DEF Init, Life!Init, LifePhase
<1>2. IndInv /\ [Next]_vars => [Life!Next]_(Life!lifeVars)
  BY LifeStep
<1> QED
  BY <1>1, <1>2, Invariance, PTL DEF Spec, ImplementsLife, Life!Spec
=============================================================================
