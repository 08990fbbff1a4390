------------------------------- MODULE Trading -------------------------------
(***************************************************************************)
(* Scan and TxExecutor put together, for one wallet: the scans of its      *)
(* workers, the execution attempts they await, the chain, and the "op"     *)
(* events the backend has stored.  Workers are stopped, cancelled and      *)
(* started anew, and the process is killed and started anew, while         *)
(* transactions of earlier workers are still on their way.                 *)
(***************************************************************************)
EXTENDS TxExecutor

CONSTANTS Dexes, MaxPairs       \* see Scan

VARIABLES
    \* of Scan
    scanPC, stopEvent, hasKey, emitOps, left, usable, fwd, rev, noted, owed,
    afterStop,
    \* of the two together
    posted,     \* the status of each attempt's "op" event in the backend
    twice,      \* attempts whose "op" event it has stored more than once
    unanswered, \* attempts a request of whose "op" event was given up on
    minedLate   \* transactions of the wallet's attempts mined since the last
                \* scan ended; 0 during a scan

SC == INSTANCE Scan WITH pc <- scanPC

scanVars == <<scanPC, stopEvent, hasKey, emitOps, left, usable, fwd, rev, noted,
              owed, afterStop>>
recordVars == <<posted, twice, unanswered>>
bookVars == <<recordVars, minedLate>>
tradingVars == <<scanVars, vars, bookVars>>

Ended == scanPC \in SC!EndPCs

\* A worker of a wallet that has a key.
TradingInit ==
    /\ SC!Init
    /\ hasKey
    /\ emitOps
    /\ Init
    /\ posted = [a \in Attempts |-> "none"]
    /\ twice = {}
    /\ unanswered = {}
    /\ minedLate = 0

-----------------------------------------------------------------------------
(* The worker                                                              *)

\* What a scan does outside of execute_arb and its record.
Scanning ==
    /\ \/ SC!GasPrice \/ SC!NoteGas \/ SC!Filter \/ SC!NotePair \/ SC!Forward
       \/ SC!Reverse \/ SC!Fees \/ SC!NoteFees \/ SC!Announce \/ SC!WalletKey
       \/ SC!KeyLogged \/ SC!Report \/ SC!RecordUnexecuted
       \/ scanPC \notin {"execute", "record"} /\ SC!Raise
    /\ UNCHANGED <<vars, bookVars>>

BeginExecution ==
    /\ SC!BeginExecution
    /\ Begin
    /\ UNCHANGED bookVars

\* Mutant of Executing: an exception of execute_arb does not leave _try_execute.
ExecutingSwallows ==
    /\ scanPC = "execute"
    /\ ExecStep
    /\ \/ pc' # "idle" /\ UNCHANGED scanVars
       \/ pc' = "idle" /\ SC!Execute
    /\ UNCHANGED bookVars

\* Mutant of Executing: a stop that came meanwhile ends the scan at once.
ExecutingStopsShort ==
    /\ scanPC = "execute"
    /\ ExecStep
    /\ \/ pc' # "idle" /\ UNCHANGED scanVars
       \/ /\ pc' = "idle"
          /\ outcome'[attempt] # "raised" /\ ~stopEvent
          /\ SC!Execute
       \/ /\ pc' = "idle"
          /\ outcome'[attempt] = "raised" \/ stopEvent
          /\ SC!Raise
    /\ UNCHANGED bookVars

(***************************************************************************)
(* execute_arb goes on.  With its end _try_execute goes straight on to the *)
(* post of the record, or raises, for there is no result to record.        *)
(***************************************************************************)
Executing ==
    /\ scanPC = "execute"
    /\ ExecStep
    /\ \/ pc' # "idle" /\ UNCHANGED scanVars
       \/ pc' = "idle" /\ outcome'[attempt] # "raised" /\ SC!Execute
       \/ pc' = "idle" /\ outcome'[attempt] = "raised" /\ SC!Raise
    /\ UNCHANGED bookVars

\* An attempt that failed before its first call of the chain.
NothingToExecute ==
    /\ SC!Execute
    /\ pc = "idle"
    /\ UNCHANGED <<vars, bookVars>>

\* Mutant of Store: the record says that the trade was made.
StoreSuccess(a) ==
    /\ posted' = [posted EXCEPT ![a] = "success"]
    /\ twice' = IF posted[a] = "none" THEN twice ELSE twice \cup {a}

(***************************************************************************)
(* The backend stores an "op" event of attempt a, which says how the       *)
(* attempt ended.  It is stored again each time it comes again.            *)
(***************************************************************************)
Store(a) ==
    /\ posted' = [posted EXCEPT ![a] = outcome[a]]
    /\ twice' = IF posted[a] = "none" THEN twice ELSE twice \cup {a}

Record ==
    /\ SC!Record
    /\ Store(attempt)
    /\ UNCHANGED <<vars, unanswered, minedLate>>

(***************************************************************************)
(* A request of the post is given up on: it got no answer in time, or the  *)
(* post was cut short by a cancel or by the end of the process.  It may be *)
(* lost, or be stored at any later moment (LateRecord).                    *)
(***************************************************************************)
GiveUp ==
    /\ unanswered' = unanswered \cup {attempt}
    /\ UNCHANGED <<posted, twice>>

\* The post goes on to its next request; BackendClient counts them.
RecordAgain ==
    /\ scanPC = "record"
    /\ GiveUp
    /\ UNCHANGED <<scanVars, vars, minedLate>>

RecordRaises ==
    /\ scanPC = "record"
    /\ SC!Raise
    /\ GiveUp
    /\ UNCHANGED <<vars, minedLate>>

\* The backend comes to store what a request given up on has brought it.
LateRecord ==
    /\ \E a \in unanswered : Store(a)
    /\ UNCHANGED <<scanVars, vars, unanswered, minedLate>>

\* The worker is at an end: what becomes of the record it was to post.
Cut == IF scanPC = "record" THEN GiveUp ELSE UNCHANGED recordVars

BeCancelled ==
    /\ SC!BeCancelled
    /\ IF pc # "idle" THEN Cancelled ELSE UNCHANGED vars
    /\ Cut
    /\ UNCHANGED minedLate

Stop ==
    /\ SC!Stop
    /\ UNCHANGED <<vars, bookVars>>

-----------------------------------------------------------------------------
(* The process and the supervisor                                          *)

\* SIGKILL, SIGTERM or a crash: no handler of the program runs.
Killed ==
    /\ scanPC' = "cancelled"
    /\ left' = 0
    /\ usable' = {}
    /\ fwd' = {}
    /\ rev' = {}
    /\ noted' = {}
    /\ owed' = 0
    /\ afterStop' = 0
    /\ UNCHANGED <<stopEvent, hasKey, emitOps>>
    /\ Crash
    /\ Cut
    /\ UNCHANGED minedLate

(***************************************************************************)
(* The worker's next scan, or a new WalletWorker for the wallet, in the    *)
(* same process or in another.                                             *)
(***************************************************************************)
ScanAnew ==
    /\ SC!NewScan \/ SC!NewWorker
    /\ UNCHANGED <<vars, recordVars>>
    /\ minedLate' = 0

-----------------------------------------------------------------------------
(* The chain and the threads workers have left behind                      *)

Mining ==
    /\ Mine
    /\ minedLate' = IF Ended THEN minedLate + 1 ELSE minedLate
    /\ UNCHANGED <<scanVars, recordVars>>

Elsewhere ==
    /\ ThreadSends \/ Drop \/ ForeignTx
    /\ UNCHANGED <<scanVars, bookVars>>

TradingNext ==
    \/ Scanning \/ BeginExecution \/ Executing
    \/ NothingToExecute \/ Record \/ RecordAgain \/ RecordRaises
    \/ BeCancelled \/ Stop \/ Killed \/ ScanAnew
    \/ LateRecord \/ Mining \/ Elsewhere

TradingSpec == TradingInit /\ [][TradingNext]_tradingVars

-----------------------------------------------------------------------------
(* Properties                                                              *)

(***************************************************************************)
(* However many attempts were cancelled, killed or given up on in the      *)
(* middle of a transaction, at most one of their transactions is mined     *)
(* between the end of a scan and the beginning of another: a wallet whose  *)
(* worker is stopped does not go on trading.                               *)
(***************************************************************************)
FewMinedLate == minedLate <= 1

\* The trade of an attempt went through on the chain.
Traded(a) == Succeeded(a, "loan") \/ Succeeded(a, "sell")

(***************************************************************************)
(* Every trade that went through has an "op" event that says "success",    *)
(* unless its attempt is in hand, raised (its last balance could not be    *)
(* read), was cancelled or killed, failed having lost track of its         *)
(* transaction, or a request of its event was given up on.                 *)
(***************************************************************************)
TradesAreRecorded ==
    \A a \in Attempts : Traded(a) =>
        \/ posted[a] = "success"
        \/ a = attempt /\ scanPC \in {"execute", "record"}
        \/ outcome[a] \in {"raised", "cancelled"}
        \/ outcome[a] = "fail" /\ a \in unsure
        \/ a \in unanswered

(***************************************************************************)
(* The inductive invariant behind the properties: what the scan's place,   *)
(* the attempt in hand, the records and the chain have to do with each     *)
(* other.                                                                  *)
(***************************************************************************)
Open == scanPC \in {"execute", "record"}

\* execute_arb runs only where the scan awaits it, a record is posted only of a
\* result, and an attempt ends with the part of the scan it belongs to.
InStep ==
    /\ pc # "idle" => scanPC = "execute"
    /\ Open => attempt \in Attempts
    /\ scanPC = "execute" /\ pc = "idle" => outcome[attempt] = "fail"
    /\ scanPC = "record" => outcome[attempt] \in {"success", "fail"}
    /\ \A a \in Attempts :
          /\ outcome[a] = "none" <=> attempt < a
          /\ outcome[a] = "running" => pc # "idle" /\ a = attempt

(***************************************************************************)
(* A record says how its attempt ended; that of a success is missing only  *)
(* while it is in hand, or when a request of it was given up on.  Nothing  *)
(* but such a request stores a record twice, or before the post returned.  *)
(***************************************************************************)
Booked ==
    /\ posted \in [Attempts -> {"none", "success", "fail"}]
    /\ twice \in SUBSET unanswered
    /\ unanswered \in SUBSET Attempts
    /\ \A a \in Attempts :
          /\ posted[a] # "none" => posted[a] = outcome[a]
          /\ posted[a] # "none" /\ Open /\ a = attempt => a \in unanswered
          /\ outcome[a] = "success" =>
                \/ posted[a] = "success"
                \/ a \in unanswered
                \/ Open /\ a = attempt
    /\ \A a \in unanswered : outcome[a] \in {"success", "fail"}
    /\ \A a \in twice : posted[a] # "none"

\* A transaction that is still on its way is the one the attempt in hand waits
\* for, or its attempt knows that it has lost track of one.
Tracked ==
    /\ \A tx \in mempool : tx.by \in unsure \/ (pc = "wait" /\ tx = MyTx)
    /\ \A tx \in threads : tx.by \in unsure

\* Once one transaction was mined late no other can be.
LateBound ==
    /\ ~Ended => minedLate = 0
    /\ minedLate \in {0, 1}
    /\ minedLate = 1 => mempool = {} /\ \A tx \in threads : tx.n < count

TradingInv ==
    /\ IndInv
    /\ InStep
    /\ Booked
    /\ Tracked
    /\ LateBound

(***************************************************************************)
(* What the dashboard may rely on: Ledger.  In particular no trade moves   *)
(* after its record was written, or its attempt abandoned, but those of    *)
(* the attempts that lost track of a transaction; and no record comes      *)
(* late, or twice, but those of attempts whose post lost an answer.        *)
(***************************************************************************)
OpenAttempt == IF Open THEN {attempt} ELSE {}

Trade == [a \in Attempts |-> IF Traded(a) THEN "done"
                             ELSE IF Succeeded(a, "buy") THEN "half"
                             ELSE "none"]

LG == INSTANCE Ledger WITH
    tried <- attempt, open <- OpenAttempt, trade <- Trade, record <- posted,
    twice <- twice, doubt <- unanswered, lost <- unsure

ImplementsLedger == LG!Spec
=============================================================================
