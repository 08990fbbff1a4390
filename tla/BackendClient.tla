--------------------------- MODULE BackendClient ----------------------------
(***************************************************************************)
(* BackendClient._request_json under retry_async: the calls one worker, or *)
(* the supervisor, makes one after the other, each sent up to MaxRetries+1 *)
(* times.  The backend may answer, fail, or answer too late; a request the *)
(* client has given up on may still be served, even after later calls.     *)
(* Times are counted in units of the configured base delay.                *)
(***************************************************************************)
EXTENDS Naturals, FiniteSets

CONSTANTS
    MaxCalls,     \* calls that are modelled
    MaxRetries,   \* config.http_max_retries
    MaxDelay,     \* max_delay of retry_async, in base delays
    RetryAfters   \* the Retry-After values the backend may send

ASSUME CallsAssumption   == MaxCalls \in Nat /\ MaxRetries \in Nat
ASSUME DelaysAssumption  == MaxDelay \in Nat \ {0} /\ RetryAfters \subseteq Nat

Calls     == 1..MaxCalls
MaxServed == MaxRetries + 2
Kinds   == {"active_users", "login", "settings", "wallet_key", "event"}
Results == {"none", "value", "empty", "auth_error", "backend_error", "gave_up"}

Least(a, b)    == IF a < b THEN a ELSE b
Greatest(a, b) == IF a > b THEN a ELSE b

VARIABLES
    pc,        \* "idle", "sent" (in session.request) or "backoff" (asleep)
    call,      \* the call in hand, or the last one
    kind,      \* [Calls -> Kinds]
    attempt,   \* the variable of retry_async
    delay,     \* what the present backoff sleeps, jitter aside
    result,    \* [Calls -> Results]
    late,      \* <<call, attempt>> of the requests that may still be served
    lost,      \* some answer has been lost, so far
    served,    \* [Calls -> requests the backend has acted upon, up to
               \* one more than there should be]
    last       \* the call the backend acted upon last; 0 before the first

clientVars == <<pc, call, kind, attempt, delay, result>>
serverVars == <<late, lost, served, last>>
vars       == <<clientVars, serverVars>>

TypeOK ==
    /\ pc \in {"idle", "sent", "backoff"}
    /\ call \in 0..MaxCalls
    /\ kind \in [Calls -> Kinds]
    /\ attempt \in 0..MaxRetries
    /\ delay \in 0..MaxDelay
    /\ result \in [Calls -> Results]
    /\ late \in SUBSET (Calls \X (0..MaxRetries))
    /\ lost \in BOOLEAN
    /\ served \in [Calls -> 0..MaxServed]
    /\ last \in 0..MaxCalls

Init ==
    /\ pc = "idle"
    /\ call = 0
    /\ kind \in [Calls -> Kinds]
    /\ attempt = 0
    /\ delay = 0
    /\ result = [c \in Calls |-> "none"]
    /\ late = {}
    /\ lost = FALSE
    /\ served = [c \in Calls |-> 0]
    /\ last = 0

-----------------------------------------------------------------------------
(* The client                                                              *)

\* A request leaves the client.
Send(n) ==
    /\ pc' = "sent"
    /\ attempt' = n
    /\ delay' = 0

Call ==
    /\ pc = "idle"
    /\ call < MaxCalls
    /\ call' = call + 1
    /\ Send(0)
    /\ UNCHANGED <<kind, result, serverVars>>

Return(r) ==
    /\ pc' = "idle"
    /\ result' = [result EXCEPT ![call] = r]
    /\ UNCHANGED <<call, kind, attempt, delay>>

(***************************************************************************)
(* What a 200 amounts to.  "null" is a body that is absent, null, or no    *)
(* JSON at all; "not_ok" an envelope with a false "ok".                    *)
(***************************************************************************)
Bodies == {"data", "null", "not_ok"}

Decode(k, body) ==
    CASE body = "not_ok" -> "backend_error"
      [] body = "data"   -> "value"
      [] body = "null" /\ k \in {"active_users", "wallet_key"} -> "empty"
      [] body = "null" /\ k \in {"login", "settings"}          -> "backend_error"
      [] body = "null" /\ k = "event"                          -> "value"

\* Mutant of DelayAfter: no cap.
DelayAfterUncapped(n, retryAfter) == Greatest(2 ^ n, retryAfter)

(***************************************************************************)
(* The delay before the next request: exponential, no shorter than the     *)
(* Retry-After of the answer, and no longer than max_delay whatever the    *)
(* backend has asked for.                                                  *)
(***************************************************************************)
DelayAfter(n, retryAfter) == Least(Greatest(2 ^ n, retryAfter), MaxDelay)

\* Mutant of Retry: giving up looks like an answer without a body.
RetryGivesNone(retryAfter) ==
    IF attempt >= MaxRetries
      THEN Return(Decode(kind[call], "null"))
      ELSE /\ pc' = "backoff"
           /\ delay' = DelayAfter(attempt, retryAfter)
           /\ UNCHANGED <<call, kind, attempt, result>>

\* A RetryableError: sleep and send again, or give up.
Retry(retryAfter) ==
    IF attempt >= MaxRetries
      THEN Return("gave_up")
      ELSE /\ pc' = "backoff"
           /\ delay' = DelayAfter(attempt, retryAfter)
           /\ UNCHANGED <<call, kind, attempt, result>>

\* Mutant of BackoffOver: the attempts are not counted.
BackoffOverUncounted ==
    /\ pc = "backoff"
    /\ Send(attempt)
    /\ UNCHANGED <<call, kind, result, serverVars>>

BackoffOver ==
    /\ pc = "backoff"
    /\ Send(attempt + 1)
    /\ UNCHANGED <<call, kind, result, serverVars>>

-----------------------------------------------------------------------------
(* The backend                                                             *)

ActUpon(c) ==
    /\ served' = [served EXCEPT ![c] = Least(@ + 1, MaxServed)]
    /\ last' = c

Answer200 ==
    /\ pc = "sent"
    /\ \E body \in Bodies :
          /\ Return(Decode(kind[call], body))
          /\ IF body = "not_ok" THEN UNCHANGED <<served, last>> ELSE ActUpon(call)
    /\ UNCHANGED <<late, lost>>

\* 401, or another status of 400 and more that is not retried.
AnswerRefused ==
    /\ pc = "sent"
    /\ Return("auth_error") \/ Return("backend_error")
    /\ UNCHANGED serverVars

\* Mutant of AnswerBusy: the request is kept for later and the caller goes on.
AnswerBusyQueues ==
    /\ pc = "sent"
    /\ Return("value")
    /\ late' = late \cup {<<call, attempt>>}
    /\ UNCHANGED <<lost, served, last>>

\* 429: not acted upon.
AnswerBusy ==
    /\ pc = "sent"
    /\ \E r \in RetryAfters \cup {0} : Retry(r)
    /\ UNCHANGED serverVars

(***************************************************************************)
(* 5xx, a connection error or the time-out: the backend has acted, will    *)
(* yet act, or never does.                                                 *)
(***************************************************************************)
AnswerLost ==
    /\ pc = "sent"
    /\ \E r \in RetryAfters \cup {0} : Retry(r)
    /\ lost' = TRUE
    /\ \/ ActUpon(call) /\ UNCHANGED late
       \/ late' = late \cup {<<call, attempt>>} /\ UNCHANGED <<served, last>>

LateRequest ==
    /\ \E req \in late :
          /\ late' = late \ {req}
          /\ ActUpon(req[1])
    /\ UNCHANGED <<clientVars, lost>>

LateDropped ==
    /\ \E req \in late : late' = late \ {req}
    /\ UNCHANGED <<clientVars, lost, served, last>>

Over == pc = "idle" /\ call = MaxCalls /\ late = {} /\ UNCHANGED vars

CallStep == Answer200 \/ AnswerRefused \/ AnswerBusy \/ AnswerLost \/ BackoffOver

Next == Call \/ CallStep \/ LateRequest \/ LateDropped \/ Over

Spec == Init /\ [][Next]_vars

\* The total time-out of the session ends every request; sleeps end.
FairSpec == Spec /\ WF_vars(CallStep)

-----------------------------------------------------------------------------
(* Properties                                                              *)

(***************************************************************************)
(* A call that returns was acted upon: no error and no time-out looks like *)
(* "no user is active" to the supervisor.  A call is acted upon no more    *)
(* often than it may be sent, and twice only if an answer was lost: an     *)
(* event may be stored again by a retry, but by nothing else.              *)
(***************************************************************************)
ServedAsSent ==
    \A c \in Calls :
        /\ result[c] \in {"value", "empty"} => served[c] >= 1
        /\ served[c] <= MaxRetries + 1
        /\ served[c] > 1 => lost

(***************************************************************************)
(* The inductive invariant behind the properties: the requests of a call   *)
(* that were acted upon, and those that may yet be, are no more than those *)
(* the client has given up on or had an answer to.                         *)
(***************************************************************************)
Pending(requests, c) == {n \in 0..MaxRetries : <<c, n>> \in requests}

Settled(c) ==
    IF c > call THEN 0
    ELSE IF c < call \/ pc = "idle" THEN MaxRetries + 1
    ELSE IF pc = "sent" THEN attempt ELSE attempt + 1

Underway ==
    /\ pc # "idle" => call > 0
    /\ pc = "backoff" => attempt < MaxRetries

RequestsCounted ==
    \A c \in Calls : served[c] + Cardinality(Pending(late, c)) <= Settled(c)

ServedInOrder ==
    /\ last <= call
    /\ \A req \in late : req[1] <= call
    /\ ~lost => /\ late = {}
                /\ \A c \in Calls : served[c] <= 1
                /\ pc # "idle" => served[call] = 0

ValuesServed ==
    \A c \in Calls : result[c] \in {"value", "empty"} => served[c] >= 1

IndInv ==
    /\ TypeOK
    /\ Underway
    /\ RequestsCounted
    /\ ServedInOrder
    /\ ValuesServed

(***************************************************************************)
(* Events take effect in the order of the calls as long as no answer was   *)
(* lost.  (After that a late request may undo a later one: a status can be *)
(* overwritten by an older one.)                                           *)
(***************************************************************************)
OrderKeptUnlessLost ==
    [][~lost /\ last' # last => last' > last]_vars

\* Every call returns or raises.
CallsEnd == (pc # "idle") ~> (pc = "idle")
=============================================================================
