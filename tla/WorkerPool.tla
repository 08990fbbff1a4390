----------------------------- MODULE WorkerPool -----------------------------
(***************************************************************************)
(* What the supervisor promises about the set of wallet workers, without   *)
(* its tasks, its polling loop or its time-outs.  Each wallet has at most  *)
(* one worker at any moment.  A worker is started only for a wallet the    *)
(* backend has just reported active, and never once the pool is closed;    *)
(* a worker is asked to leave only when the backend's last answer does not *)
(* name its wallet, or when the pool is closed; and a wallet gets a new    *)
(* worker only after the previous one has ended completely.                *)
(***************************************************************************)
CONSTANT Wallets

VARIABLES
    pool,      \* [Wallets -> PoolStates]
    reported,  \* the wallets of the backend's last answer
    open       \* FALSE once the supervisor is shutting down

poolVars == <<pool, reported, open>>

PoolStates == {"idle", "working", "leaving"}

PoolTypeOK ==
    /\ pool \in [Wallets -> PoolStates]
    /\ reported \in SUBSET Wallets
    /\ open \in BOOLEAN

PoolInit ==
    /\ pool = [w \in Wallets |-> "idle"]
    /\ reported = {}
    /\ open = TRUE

\* An answer names the wallets in A; workers join for some of the idle ones.
Answer(A) ==
    /\ open
    /\ reported' = A
    /\ \E J \in SUBSET {w \in A : pool[w] = "idle"} :
          pool' = [w \in Wallets |-> IF w \in J THEN "working" ELSE pool[w]]
    /\ UNCHANGED open

\* Workers are asked to leave.
Dismiss(W) ==
    /\ open => W \cap reported = {}
    /\ pool' = [w \in Wallets |-> IF w \in W /\ pool[w] = "working"
                                    THEN "leaving" ELSE pool[w]]
    /\ UNCHANGED <<reported, open>>

\* A worker has ended, asked to or not.
End(w) ==
    /\ pool' = [pool EXCEPT ![w] = "idle"]
    /\ UNCHANGED <<reported, open>>

Close ==
    /\ open' = FALSE
    /\ UNCHANGED <<pool, reported>>

PoolNext ==
    \/ \E A \in SUBSET Wallets : Answer(A)
    \/ \E W \in SUBSET Wallets : Dismiss(W)
    \/ \E w \in Wallets : End(w)
    \/ Close

PoolSpec == PoolInit /\ [][PoolNext]_poolVars
=============================================================================
