---------------------------- MODULE WalletWorker ----------------------------
(***************************************************************************)
(* One run of WalletWorker.run against a backend that may fail, expire the *)
(* worker's token or refuse it, with the stop event and the cancellation   *)
(* of the supervisor coming at any moment.  pc names the call run() is     *)
(* suspended in:                                                           *)
(*   post_active, post_stopped        the first and the last status post   *)
(*   login, settings                  inside _get_settings                 *)
(*   scan                             inside _scan                         *)
(*   post_heartbeat                   inside _maybe_heartbeat              *)
(*   post_auth, post_error, post_log  inside the except handlers           *)
(*   rest                             in _sleep_or_stop                    *)
(*   turn                             nowhere: the round has used up its   *)
(*                                    time, and the next begins at once    *)
(* A scan with no DEX or no pair to look at is not suspended either.       *)
(* Clocks are not counted: what time does to the caches (a token or a copy *)
(* of the settings grows too old, a heartbeat falls due) are actions that  *)
(* may come at any moment.                                                 *)
(***************************************************************************)
EXTENDS Naturals, WorkerPhases

VARIABLES
    pc,
    stopEvent,     \* WalletWorker._stop_event
    cancel,        \* a cancellation is to be delivered to the task
    jwt,           \* _jwt: "none", or a token the backend takes or refuses
    jwtExpired,    \* the clock has passed _jwt_expires_at
    settings,      \* _settings: "none", or "fresh" or "stale" by its age
    listed,        \* its dex_list and pairs: neither is empty
    pausing,       \* its scan_frequency_sec is above 0
    secondTry,     \* _get_settings is past its except clause
    heartbeatDue,  \* the clock has passed the next heartbeat
    logins,        \* logins of the present round of the loop
    shown,         \* the worker's status as the backend has it
    late,          \* the statuses of requests nobody waits for any more
    stray,         \* shown came of one of those
    trouble        \* the backend and the network are in trouble

jwtVars    == <<jwt, jwtExpired>>
copyVars   == <<settings, listed, pausing>>
cacheVars  == <<jwtVars, copyVars>>
ownVars    == <<stopEvent, cancel>>
statusVars == <<shown, late, stray>>
vars       == <<pc, ownVars, cacheVars, secondTry, heartbeatDue, logins,
                statusVars, trouble>>

Posts == {"post_active", "post_heartbeat", "post_auth", "post_error",
          "post_log", "post_stopped"}
PCs   == Posts \cup {"created", "login", "settings", "scan", "rest", "turn"}
              \cup EndPhases

Statuses == {"active", "error", "stopped"}

Flags ==
    /\ stray \in BOOLEAN
    /\ stopEvent \in BOOLEAN
    /\ cancel \in BOOLEAN
    /\ jwtExpired \in BOOLEAN
    /\ listed \in BOOLEAN
    /\ pausing \in BOOLEAN
    /\ secondTry \in BOOLEAN
    /\ heartbeatDue \in BOOLEAN
    /\ trouble \in BOOLEAN

TypeOK ==
    /\ pc \in PCs
    /\ jwt \in {"none", "good", "bad"}
    /\ settings \in {"none", "fresh", "stale"}
    /\ logins \in 0..2   \* no round logs in more often, whatever is refused
    /\ shown \in Statuses \cup {"none"}
    /\ late \in SUBSET Statuses
    /\ Flags

\* A new WalletWorker; the backend still shows what an earlier one left, and
\* requests the earlier one gave up on may still be on their way.
Init ==
    /\ pc = "created"
    /\ stopEvent = FALSE
    /\ cancel = FALSE
    /\ jwt = "none"
    /\ jwtExpired = FALSE
    /\ settings = "none"
    /\ listed = FALSE
    /\ pausing = TRUE
    /\ secondTry = FALSE
    /\ heartbeatDue = TRUE
    /\ logins = 0
    /\ shown \in Statuses \cup {"none"}
    /\ late \in SUBSET Statuses
    /\ stray = FALSE
    /\ trouble \in BOOLEAN

\* The task waits for something, or has not begun, or is over: the event
\* loop, which all the wallets share, has its turn.
Suspended == pc # "turn" /\ (pc = "scan" => listed)

-----------------------------------------------------------------------------
(* The loop                                                                *)

(***************************************************************************)
(* _ensure_jwt: a cached token the clock has not outrun is used as it is.  *)
(***************************************************************************)
AfterEnsureJwt(token) ==
    IF token # "none" /\ ~jwtExpired THEN "settings" ELSE "login"

\* self._jwt = None, after a 401.
DropJwt == jwt' = "none"

\* Mutant of LoopTop: the loop never ends.
LoopTopIgnoresStop ==
    /\ pc' = IF settings = "fresh" THEN "scan" ELSE AfterEnsureJwt(jwt)
    /\ logins' = 0
    /\ secondTry' = FALSE

(***************************************************************************)
(* The loop condition, and a round's way to its first suspension: the scan *)
(* when the copy of the settings is young enough, else login or settings.  *)
(***************************************************************************)
LoopTop ==
    /\ pc' = IF stopEvent THEN "post_stopped"
             ELSE IF settings = "fresh" THEN "scan" ELSE AfterEnsureJwt(jwt)
    /\ logins' = 0
    /\ secondTry' = FALSE

Begin ==
    /\ pc = "created"
    /\ pc' = "post_active"
    /\ UNCHANGED <<ownVars, cacheVars, secondTry, heartbeatDue, logins, statusVars,
                   trouble>>

(***************************************************************************)
(* Status posts.  A post that returns was served with its last request.  A *)
(* request that got no answer in time is given up on, and so is one whose  *)
(* task is cancelled: it may have been served, or lost, or be served at    *)
(* any later moment, when others have been.                                *)
(***************************************************************************)
Posting(status) ==
    <<pc, status>> \in {<<"post_active", "active">>, <<"post_error", "error">>,
                        <<"post_stopped", "stopped">>}

Shows(status) == shown' = status /\ stray' = FALSE /\ UNCHANGED late

GiveUp ==
    /\ late' = late \cup {status \in Statuses : Posting(status)}
    /\ UNCHANGED <<shown, stray>>

\* Mutant of PostActive: the first post may fail like any other.
PostActiveTolerant ==
    /\ pc = "post_active"
    /\ LoopTop
    /\ Shows("active") \/ (trouble /\ GiveUp)
    /\ UNCHANGED <<ownVars, cacheVars, heartbeatDue, trouble>>

PostActive ==
    /\ pc = "post_active"
    /\ \/ Shows("active") /\ LoopTop
       \/ /\ trouble
          /\ GiveUp
          /\ pc' = "failed"
          /\ UNCHANGED <<logins, secondTry>>
    /\ UNCHANGED <<ownVars, cacheVars, heartbeatDue, trouble>>

\* A status post sends its request again; the client counts how often.
SendAgain ==
    /\ \E status \in Statuses : Posting(status)
    /\ trouble
    /\ GiveUp
    /\ UNCHANGED <<pc, ownVars, cacheVars, secondTry, heartbeatDue, logins,
                   trouble>>

\* except AuthError: the token is dropped and a warning posted.
CatchAuthError == DropJwt /\ pc' = "post_auth"

\* backend.login inside _ensure_jwt: a token, a 401, or another failure.
Login ==
    /\ pc = "login"
    /\ logins' = logins + 1
    /\ \/ /\ jwt' = "good"
          /\ jwtExpired' = FALSE
          /\ pc' = "settings"
       \/ trouble /\ CatchAuthError /\ UNCHANGED jwtExpired
       \/ trouble /\ pc' = "post_error" /\ UNCHANGED <<jwt, jwtExpired>>
    /\ UNCHANGED <<ownVars, copyVars, secondTry, heartbeatDue, statusVars, trouble>>

(***************************************************************************)
(* backend.get_settings and what follows it in _get_settings.  The first   *)
(* 401 drops the token and asks for another; the second is run()'s.  An    *)
(* answer that is no valid Settings is an error like any other.            *)
(***************************************************************************)
SettingsAnswer ==
    /\ pc = "settings"
    /\ jwt = "good"
    /\ settings' = "fresh"
    /\ listed' \in BOOLEAN
    /\ pausing' \in BOOLEAN
    /\ pc' = "scan"
    /\ UNCHANGED <<ownVars, jwtVars, secondTry, heartbeatDue,
                   logins, statusVars, trouble>>

\* Mutant of SettingsRefused: a 401 is always answered by another login.
SettingsRefusedForever ==
    /\ pc = "settings"
    /\ jwt = "bad"
    /\ DropJwt
    /\ pc' = AfterEnsureJwt(jwt')
    /\ UNCHANGED <<ownVars, jwtExpired, copyVars, secondTry, heartbeatDue, logins,
                   statusVars, trouble>>

SettingsRefused ==
    /\ pc = "settings"
    /\ jwt = "bad"
    /\ \/ /\ ~secondTry
          /\ secondTry' = TRUE
          /\ DropJwt
          /\ pc' = AfterEnsureJwt(jwt')
       \/ secondTry /\ CatchAuthError /\ UNCHANGED secondTry
    /\ UNCHANGED <<ownVars, jwtExpired, copyVars, heartbeatDue, logins, statusVars,
                   trouble>>

SettingsError ==
    /\ pc = "settings"
    /\ trouble
    /\ pc' = "post_error"
    /\ UNCHANGED <<ownVars, cacheVars, secondTry, heartbeatDue, logins, statusVars,
                   trouble>>

(***************************************************************************)
(* The end of a round: _sleep_or_stop with what the round has left of      *)
(* scan_frequency_sec (of 10 seconds, when the settings did not come).     *)
(* At 0 or below it does not suspend.  A round that made a call may have   *)
(* taken any time, one that made none has taken next to none.              *)
(***************************************************************************)
RestAfterCalls(inHand) ==
    \/ pc' = "turn"
    \/ pc' = "rest" /\ (inHand => pausing)

RestAtOnce == pc' = IF pausing THEN "rest" ELSE "turn"

(***************************************************************************)
(* _scan has returned, and _maybe_heartbeat notes the time before it posts *)
(* the heartbeat; or a call inside _scan has raised.                       *)
(***************************************************************************)
ScanReturns ==
    /\ pc = "scan"
    /\ \/ heartbeatDue /\ pc' = "post_heartbeat"
       \/ ~heartbeatDue /\ listed /\ RestAfterCalls(TRUE)
       \/ ~heartbeatDue /\ ~listed /\ RestAtOnce
    /\ heartbeatDue' = FALSE
    /\ UNCHANGED <<ownVars, cacheVars, secondTry, logins, statusVars, trouble>>

\* A 401 to a post made by _scan or _maybe_heartbeat: the token that is
\* dropped is not the one that was refused.
RaisesAuthError ==
    /\ pc \in {"scan", "post_heartbeat"}
    /\ Suspended
    /\ trouble
    /\ CatchAuthError
    /\ UNCHANGED <<ownVars, jwtExpired, copyVars, secondTry, heartbeatDue, logins,
                   statusVars, trouble>>

RaisesError ==
    /\ pc \in {"scan", "post_heartbeat"}
    /\ Suspended
    /\ trouble
    /\ pc' = "post_error"
    /\ UNCHANGED <<ownVars, cacheVars, secondTry, heartbeatDue, logins, statusVars,
                   trouble>>

\* A log post returns: the heartbeat, and the last call of each handler.
LogPosted ==
    /\ pc \in {"post_heartbeat", "post_auth", "post_log"}
    /\ RestAfterCalls(pc = "post_heartbeat")
    /\ UNCHANGED <<ownVars, cacheVars, secondTry, heartbeatDue, logins, statusVars,
                   trouble>>

\* except Exception: the status first, then the log.
PostError ==
    /\ pc = "post_error"
    /\ \/ Shows("error") /\ pc' = "post_log"
       \/ trouble /\ GiveUp /\ pc' = "failed"
    /\ UNCHANGED <<ownVars, cacheVars, secondTry, heartbeatDue, logins, trouble>>

\* A handler's log post raises: nothing catches it.
HandlerRaises ==
    /\ pc \in {"post_auth", "post_log"}
    /\ trouble
    /\ pc' = "failed"
    /\ UNCHANGED <<ownVars, cacheVars, secondTry, heartbeatDue, logins, statusVars,
                   trouble>>

\* Mutant of Wake: the sleep waits for the stop event without a time-out.
WakeOnStop ==
    /\ pc = "turn" \/ (pc = "rest" /\ stopEvent)
    /\ LoopTop
    /\ UNCHANGED <<ownVars, cacheVars, heartbeatDue, statusVars, trouble>>

\* The sleep is over, or cut short by the stop event, or there was none.
Wake ==
    /\ pc \in {"rest", "turn"}
    /\ LoopTop
    /\ UNCHANGED <<ownVars, cacheVars, heartbeatDue, statusVars, trouble>>

PostStopped ==
    /\ pc = "post_stopped"
    /\ \/ Shows("stopped") /\ pc' = "done"
       \/ trouble /\ GiveUp /\ pc' = "failed"
    /\ UNCHANGED <<ownVars, cacheVars, secondTry, heartbeatDue, logins, trouble>>

RunStep ==
    \/ Begin \/ PostActive \/ Login
    \/ SettingsAnswer \/ SettingsRefused \/ SettingsError
    \/ ScanReturns \/ RaisesAuthError \/ RaisesError
    \/ LogPosted \/ PostError \/ HandlerRaises \/ Wake \/ PostStopped

-----------------------------------------------------------------------------
(* From outside                                                            *)

Alive == pc \notin EndPhases

Stop ==
    /\ Alive
    /\ Suspended
    /\ ~stopEvent
    /\ stopEvent' = TRUE
    /\ UNCHANGED <<pc, cancel, cacheVars, secondTry, heartbeatDue, logins, statusVars,
                   trouble>>

Cancel ==
    /\ Alive
    /\ Suspended
    /\ stopEvent
    /\ ~cancel
    /\ cancel' = TRUE
    /\ UNCHANGED <<pc, stopEvent, cacheVars, secondTry, heartbeatDue, logins,
                   statusVars, trouble>>

\* Mutant of BeCancelled: "except BaseException" around the round's calls.
BeCancelledOrNot ==
    /\ Alive
    /\ cancel
    /\ IF pc \in {"login", "settings", "scan", "post_heartbeat"}
         THEN pc' = "post_error" /\ cancel' = FALSE
         ELSE pc' = "cancelled" /\ UNCHANGED cancel
    /\ GiveUp
    /\ UNCHANGED <<stopEvent, cacheVars, secondTry, heartbeatDue, logins, trouble>>

(***************************************************************************)
(* CancelledError passes every except Exception of run(): no status, no    *)
(* log.  A status post in flight is given up on.                           *)
(***************************************************************************)
BeCancelled ==
    /\ Alive
    /\ cancel
    /\ pc' = "cancelled"
    /\ GiveUp
    /\ UNCHANGED <<ownVars, cacheVars, secondTry, heartbeatDue, logins, trouble>>

\* A request that was given up on is served after all, whatever came since.
LateShows ==
    /\ \E status \in late : shown' = status
    /\ stray' = TRUE
    /\ UNCHANGED <<pc, ownVars, cacheVars, secondTry, heartbeatDue, logins, late,
                   trouble>>

\* The wait_for of _sleep_or_stop returns instead: its event is set.
OutliveCancel ==
    /\ pc = "rest"
    /\ cancel
    /\ stopEvent
    /\ cancel' = FALSE
    /\ LoopTop
    /\ UNCHANGED <<stopEvent, cacheVars, heartbeatDue, statusVars, trouble>>

\* One of the caches grows too old, or the heartbeat falls due.
Age ==
    /\ Alive
    /\ \/ /\ settings = "fresh"
          /\ settings' = "stale"
          /\ UNCHANGED <<jwtExpired, heartbeatDue>>
       \/ /\ jwt # "none"
          /\ ~jwtExpired
          /\ jwtExpired' = TRUE
          /\ UNCHANGED <<settings, heartbeatDue>>
       \/ /\ ~heartbeatDue
          /\ heartbeatDue' = TRUE
          /\ UNCHANGED <<settings, jwtExpired>>
    /\ UNCHANGED <<pc, ownVars, jwt, listed, pausing, secondTry, logins, statusVars,
                   trouble>>

\* Mutant of TimePasses: ages are kept by timers of the event loop.
TimePassesInTimers == Suspended /\ Age

\* Ages are read off the clock, which goes on whatever the task does.
TimePasses == Age

\* The backend comes to refuse the token (a new secret, the user removed).
TokenGoesBad ==
    /\ Alive
    /\ trouble
    /\ jwt = "good"
    /\ jwt' = "bad"
    /\ UNCHANGED <<pc, ownVars, jwtExpired, copyVars, secondTry,
                   heartbeatDue, logins, statusVars, trouble>>

TroubleToggles ==
    /\ Alive
    /\ trouble' = ~trouble
    /\ UNCHANGED <<pc, ownVars, cacheVars, secondTry, heartbeatDue, logins, statusVars>>

Over == ~Alive /\ UNCHANGED vars

Next ==
    \/ ~cancel /\ (RunStep \/ SendAgain)
    \/ BeCancelled \/ OutliveCancel
    \/ Stop \/ Cancel
    \/ LateShows \/ TimePasses \/ TokenGoesBad \/ TroubleToggles
    \/ Over

Spec == Init /\ [][Next]_vars

(***************************************************************************)
(* Every call of run() ends: HTTP requests and chain calls have time-outs, *)
(* retries are counted, sleeps have timers.  A cancellation is delivered.  *)
(* The clock goes on.                                                      *)
(***************************************************************************)
Fairness ==
    /\ WF_vars(~cancel /\ RunStep)
    /\ WF_vars(BeCancelled \/ OutliveCancel)
    /\ WF_vars(TimePasses)

FairSpec == Spec /\ Fairness

-----------------------------------------------------------------------------
(* Properties                                                              *)

(***************************************************************************)
(* The status the backend shows is true of the run: a worker that has      *)
(* returned is shown stopped, and one inside its loop is never shown       *)
(* stopped or unknown, whatever an earlier worker of the wallet left.  The *)
(* one exception is a status served late, from a request this worker or an *)
(* earlier one had given up on.  (A worker that failed or was cancelled    *)
(* leaves the last status behind.)                                         *)
(***************************************************************************)
StatusMatchesRun ==
    /\ pc = "done" => shown = "stopped" \/ stray
    /\ pc \in PCs \ (EndPhases \cup {"created", "post_active", "post_stopped"})
          => shown \in {"active", "error"} \/ stray
    /\ stray => shown \in late

\* A round logs in a second time only after a 401 to its settings.
LoginsCounted ==
    /\ pc = "login" => logins <= IF secondTry THEN 1 ELSE 0
    /\ pc = "settings" /\ ~secondTry => logins <= 1

TokenInHand == pc = "settings" => jwt # "none"

(***************************************************************************)
(* The inductive invariant behind TypeOK and StatusMatchesRun.             *)
(***************************************************************************)
IndInv ==
    /\ TypeOK
    /\ LoginsCounted
    /\ TokenInHand
    /\ StatusMatchesRun

(***************************************************************************)
(* No worker keeps the event loop to itself, with which all the wallets    *)
(* would stand still: not even one whose settings list nothing to scan and *)
(* leave no pause between the rounds.                                      *)
(***************************************************************************)
LoopGivesWay == []<>Suspended

\* A stop request ends the run, in whatever call it finds it.
StopEndsRun == stopEvent ~> ~Alive

(***************************************************************************)
(* Unless it is stopped or a report of its own raises, a worker gets back  *)
(* to scanning once the trouble is over, with a token or without.          *)
(***************************************************************************)
ScansAgain ==
    <>[]~trouble => \/ <>(stopEvent \/ pc = "failed")
                    \/ []<>(pc = "scan")

(***************************************************************************)
(* Seen from the supervisor, run() is a WorkerLife.                        *)
(***************************************************************************)
PhaseOf(p) ==
    CASE p = "post_active"                                      -> "announcing"
      [] p \in {"login", "settings", "scan", "post_heartbeat"} -> "working"
      [] p \in {"post_auth", "post_error", "post_log"}         -> "recovering"
      [] p \in {"rest", "turn"}                                 -> "resting"
      [] p = "post_stopped"                                     -> "leaving"
      [] OTHER                                                  -> p

LifePhase == PhaseOf(pc)

Life == INSTANCE WorkerLife WITH
            phase <- LifePhase, stopAsked <- stopEvent, cancelAsked <- cancel

ImplementsLife == Life!Spec
=============================================================================
