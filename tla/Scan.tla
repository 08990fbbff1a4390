-------------------------------- MODULE Scan --------------------------------
(***************************************************************************)
(* WalletWorker._scan, call by call: for each listed pair the forward      *)
(* quotes of all DEXes, for each of them the reverse quotes, and each      *)
(* profitable round trip announced, executed and recorded on the spot.     *)
(* The scans of one worker follow one another; its stop event is set, and  *)
(* its task cancelled, at any moment.  Amounts are left out: whether a     *)
(* quote comes and whether a round trip pays is for the market to say.     *)
(*                                                                         *)
(* pc names the call _scan is suspended in:                                *)
(*   gas, forward, reverse, fees    chain calls                            *)
(*   filter                         supports_pair of the listed DEXes      *)
(*   note_gas, note_pair, note_fees a warning that is posted only once     *)
(*   announce                       the "opportunity" event                *)
(*   key, key_log, exec_log, execute, record, report                       *)
(*                                  _try_execute, to its last log          *)
(*   unexecuted                     the "op" event of an opportunity that  *)
(*                                  was not executed                       *)
(***************************************************************************)
EXTENDS Naturals, FiniteSets

CONSTANTS
    Dexes,      \* the DEXes of dex_list that have a quoter, each once
    MaxPairs    \* the length of settings.pairs

ASSUME DexesAssumption == IsFiniteSet(Dexes)
ASSUME MaxPairsAssumption == MaxPairs \in Nat \ {0}

VARIABLES
    pc,
    stopEvent,
    hasKey,     \* config.wallet_encryption_key is set
    emitOps,    \* config.emit_ops_on_opportunity
    left,       \* listed pairs the scan has not begun
    usable,     \* the DEXes that support the pair
    fwd,        \* forward quotes whose reverse quotes are still to be asked
    rev,        \* reverse quotes of the present batch still to be weighed
    noted,      \* _log_once_keys
    owed,       \* opportunities announced whose "op" event was not posted
    afterStop   \* executions begun since the stop event was set

Keys == {"gas", "pair", "quote", "fees"}

configVars == <<hasKey, emitOps>>
quoteVars  == <<left, usable, fwd, rev>>
noteVars   == <<noted>>
tallyVars  == <<owed, afterStop>>
vars       == <<pc, stopEvent, configVars, quoteVars, noteVars, tallyVars>>

NotePCs == {"note_gas", "note_pair", "note_fees"}
ExecPCs == {"key", "key_log", "exec_log", "execute", "record", "report"}
EndPCs  == {"returned", "raised", "cancelled"}
PCs     == {"gas", "filter", "forward", "reverse", "fees", "announce",
            "unexecuted"} \cup NotePCs \cup ExecPCs \cup EndPCs

TypeOK ==
    /\ pc \in PCs
    /\ stopEvent \in BOOLEAN
    /\ hasKey \in BOOLEAN
    /\ emitOps \in BOOLEAN
    /\ left \in 0..MaxPairs
    /\ usable \in SUBSET Dexes
    /\ fwd \in SUBSET Dexes
    /\ rev \in SUBSET Dexes
    /\ noted \in SUBSET Keys
    /\ owed \in Nat
    /\ afterStop \in Nat

Init ==
    /\ pc = "gas"
    /\ stopEvent = FALSE
    /\ hasKey \in BOOLEAN
    /\ emitOps \in BOOLEAN
    /\ left = MaxPairs
    /\ usable = {}
    /\ fwd = {}
    /\ rev = {}
    /\ noted = {}
    /\ owed = 0
    /\ afterStop = 0

-----------------------------------------------------------------------------
(* The three nested loops: what comes next                                 *)

\* Mutant of NextPair: nothing but the stop event ends the loop.
NextPairOverruns ==
    IF stopEvent
      THEN pc' = "returned" /\ UNCHANGED left
      ELSE pc' = "filter" /\ left' = left - 1

\* The next pair, unless there is none or the stop event is set.
NextPair ==
    IF left = 0 \/ stopEvent
      THEN pc' = "returned" /\ UNCHANGED left
      ELSE pc' = "filter" /\ left' = left - 1

\* Mutant of NextForward: the stop event is not looked at.
NextForwardIgnoresStop(F) ==
    IF F = {}
      THEN fwd' = {} /\ NextPair
      ELSE /\ \E d \in F : fwd' = F \ {d}
           /\ pc' = "reverse"
           /\ UNCHANGED left

\* Mutant of NextForward: the quote in hand is not struck off.
NextForwardRepeats(F) ==
    IF F = {} \/ stopEvent
      THEN fwd' = {} /\ NextPair
      ELSE fwd' = F /\ pc' = "reverse" /\ UNCHANGED left

(***************************************************************************)
(* The next forward quote among those in F.  With the stop event set,      *)
(* _collect_reverse_quotes asks nobody and the rest is passed over.        *)
(***************************************************************************)
NextForward(F) ==
    IF F = {} \/ stopEvent
      THEN fwd' = {} /\ NextPair
      ELSE /\ \E d \in F : fwd' = F \ {d}
           /\ pc' = "reverse"
           /\ UNCHANGED left

\* The next reverse quote among those in R; no stop event is looked at here.
NextReverse(R) ==
    IF R = {}
      THEN rev' = {} /\ NextForward(fwd)
      ELSE /\ \E d \in R : rev' = R \ {d}
           /\ pc' = "fees"
           /\ UNCHANGED <<left, fwd>>

(***************************************************************************)
(* _log_once: the key is marked first, the warning posted after; a key     *)
(* that is marked posts nothing.                                           *)
(***************************************************************************)
Mark(key) ==
    /\ key \notin noted
    /\ noted' = noted \cup {key}

-----------------------------------------------------------------------------
(* Quotes                                                                  *)

GasPrice ==
    /\ pc = "gas"
    /\ \/ NextPair /\ UNCHANGED noteVars
       \/ Mark("gas") /\ pc' = "note_gas" /\ UNCHANGED left
    /\ UNCHANGED <<stopEvent, configVars, usable, fwd, rev, tallyVars>>

NoteGas ==
    /\ pc = "note_gas"
    /\ NextPair
    /\ UNCHANGED <<stopEvent, configVars, usable, fwd, rev, noteVars, tallyVars>>

\* The _fetch tasks of _collect_forward_quotes; each looks at the stop event.
AskForward(U) ==
    IF U = {} \/ stopEvent
      THEN NextPair
      ELSE pc' = "forward" /\ UNCHANGED left

(***************************************************************************)
(* The DEXes that support the pair.  One that does not, that fails to say, *)
(* or that has no quoter, and a pair that does not parse, are warned about *)
(* once each (one key stands for all of them).                             *)
(***************************************************************************)
Filter ==
    /\ pc = "filter"
    /\ usable' \in SUBSET Dexes
    /\ \/ /\ usable' = Dexes \/ "pair" \in noted
          /\ AskForward(usable')
          /\ UNCHANGED noteVars
       \/ /\ usable' # Dexes
          /\ Mark("pair")
          /\ pc' = "note_pair"
          /\ UNCHANGED left
    /\ UNCHANGED <<stopEvent, configVars, fwd, rev, tallyVars>>

NotePair ==
    /\ pc = "note_pair"
    /\ AskForward(usable)
    /\ UNCHANGED <<stopEvent, configVars, usable, fwd, rev, noteVars, tallyVars>>

(***************************************************************************)
(* The gather of _collect_forward_quotes.  A DEX that does not answer is   *)
(* warned about once, inside the gather, which drops what the post raises. *)
(***************************************************************************)
Forward ==
    /\ pc = "forward"
    /\ \E F \in SUBSET usable :
          /\ NextForward(F)
          /\ IF F = usable \/ "quote" \in noted THEN UNCHANGED noteVars
                                                ELSE Mark("quote")
    /\ usable' = {}
    /\ UNCHANGED <<stopEvent, configVars, rev, tallyVars>>

\* Every DEX is asked for the way back, the one that sold included.
Reverse ==
    /\ pc = "reverse"
    /\ \E R \in SUBSET Dexes : NextReverse(R)
    /\ UNCHANGED <<stopEvent, configVars, usable, noteVars, tallyVars>>

\* With the fees known the round trip pays, or it does not.
Weigh ==
    \/ pc' = "announce" /\ UNCHANGED <<left, fwd, rev>>
    \/ NextReverse(rev)

Fees ==
    /\ pc = "fees"
    /\ \/ Weigh /\ UNCHANGED noteVars
       \/ Mark("fees") /\ pc' = "note_fees" /\ UNCHANGED <<left, fwd, rev>>
    /\ UNCHANGED <<stopEvent, configVars, usable, tallyVars>>

NoteFees ==
    /\ pc = "note_fees"
    /\ Weigh
    /\ UNCHANGED <<stopEvent, configVars, usable, noteVars, tallyVars>>

-----------------------------------------------------------------------------
(* One opportunity                                                         *)

\* _try_execute has returned False: an "op" event, if configured, says so.
NotExecuted ==
    IF emitOps
      THEN pc' = "unexecuted" /\ UNCHANGED <<left, fwd, rev>>
      ELSE NextReverse(rev)

Announce ==
    /\ pc = "announce"
    /\ IF hasKey
         THEN pc' = "key" /\ UNCHANGED <<left, fwd, rev>>
         ELSE NotExecuted
    /\ owed' = IF hasKey \/ emitOps THEN owed + 1 ELSE owed
    /\ UNCHANGED <<stopEvent, configVars, usable, noteVars, afterStop>>

\* Mutant of WalletKey: a wallet without a key counts as executed.
WalletKeyReturnsTrue ==
    /\ pc = "key"
    /\ \/ /\ pc' \in {"exec_log", "key_log"}
          /\ UNCHANGED <<left, fwd, rev>>
       \/ NextReverse(rev)
    /\ UNCHANGED <<stopEvent, configVars, usable, noteVars, tallyVars>>

\* get_wallet_key: a key, none, or an exception, which is logged.
WalletKey ==
    /\ pc = "key"
    /\ \/ /\ pc' \in {"exec_log", "key_log"}
          /\ UNCHANGED <<left, fwd, rev, owed>>
       \/ /\ NotExecuted
          /\ owed' = IF emitOps THEN owed ELSE owed - 1
    /\ UNCHANGED <<stopEvent, configVars, usable, noteVars, afterStop>>

KeyLogged ==
    /\ pc = "key_log"
    /\ NotExecuted
    /\ owed' = IF emitOps THEN owed ELSE owed - 1
    /\ UNCHANGED <<stopEvent, configVars, usable, noteVars, afterStop>>

\* The log of the attempt is posted and execute_arb begins.
BeginExecution ==
    /\ pc = "exec_log"
    /\ pc' = "execute"
    /\ afterStop' = IF stopEvent THEN afterStop + 1 ELSE afterStop
    /\ UNCHANGED <<stopEvent, configVars, quoteVars, noteVars, owed>>

\* execute_arb returns a result, for better or worse.
Execute ==
    /\ pc = "execute"
    /\ pc' = "record"
    /\ UNCHANGED <<stopEvent, configVars, quoteVars, noteVars, tallyVars>>

Record ==
    /\ pc = "record"
    /\ pc' = "report"
    /\ owed' = owed - 1
    /\ UNCHANGED <<stopEvent, configVars, quoteVars, noteVars, afterStop>>

Report ==
    /\ pc = "report"
    /\ NextReverse(rev)
    /\ UNCHANGED <<stopEvent, configVars, usable, noteVars, tallyVars>>

RecordUnexecuted ==
    /\ pc = "unexecuted"
    /\ owed' = owed - 1
    /\ NextReverse(rev)
    /\ UNCHANGED <<stopEvent, configVars, usable, noteVars, afterStop>>

(***************************************************************************)
(* The calls whose exception leaves _scan: the posts, and execute_arb,     *)
(* whose two-swap flow lets the chain's exceptions out.  An event whose    *)
(* post raised may have been stored all the same.                          *)
(***************************************************************************)
Raise ==
    /\ pc \in NotePCs \cup {"announce", "key_log", "exec_log", "execute",
                            "record", "report", "unexecuted"}
    /\ pc' = "raised"
    /\ UNCHANGED <<stopEvent, configVars, quoteVars, noteVars, tallyVars>>

-----------------------------------------------------------------------------
(* The worker around it                                                    *)

\* The next round of run(): the same worker, so the same _log_once_keys.
NewScan ==
    /\ pc \in {"returned", "raised"}
    /\ ~stopEvent
    /\ pc' = "gas"
    /\ left' = MaxPairs
    /\ usable' = {}
    /\ fwd' = {}
    /\ rev' = {}
    /\ owed' = 0
    /\ UNCHANGED <<stopEvent, configVars, noteVars, afterStop>>

Stop ==
    /\ ~stopEvent
    /\ stopEvent' = TRUE
    /\ UNCHANGED <<pc, configVars, quoteVars, noteVars, tallyVars>>

\* The supervisor's patience is over.
BeCancelled ==
    /\ stopEvent
    /\ pc \notin EndPCs
    /\ pc' = "cancelled"
    /\ UNCHANGED <<stopEvent, configVars, quoteVars, noteVars, tallyVars>>

(***************************************************************************)
(* Another WalletWorker for the wallet, after this one has ended or died:  *)
(* it knows nothing of what this one noted.                                *)
(***************************************************************************)
NewWorker ==
    /\ pc \in EndPCs
    /\ pc' = "gas"
    /\ stopEvent' = FALSE
    /\ left' = MaxPairs
    /\ usable' = {}
    /\ fwd' = {}
    /\ rev' = {}
    /\ noted' = {}
    /\ owed' = 0
    /\ afterStop' = 0
    /\ UNCHANGED configVars

\* No further scan: the worker goes on to post "stopped", or is gone.
Over ==
    /\ pc \in EndPCs
    /\ stopEvent
    /\ UNCHANGED vars

ScanStep ==
    \/ GasPrice \/ NoteGas \/ Filter \/ NotePair \/ Forward \/ Reverse
    \/ Fees \/ NoteFees \/ Announce \/ WalletKey \/ KeyLogged
    \/ BeginExecution \/ Execute \/ Record \/ Report \/ RecordUnexecuted
    \/ Raise

Next == ScanStep \/ NewScan \/ NewWorker \/ Stop \/ BeCancelled \/ Over

Spec == Init /\ [][Next]_vars

\* Every call of a scan has a time-out.
FairSpec == Spec /\ WF_vars(ScanStep)

-----------------------------------------------------------------------------
(* Properties                                                              *)

(***************************************************************************)
(* At most one batch of reverse quotes is acted upon after the stop event: *)
(* the innermost loop does not look at it, the two around it do.           *)
(***************************************************************************)
FewExecutionsAfterStop == afterStop <= Cardinality(Dexes)

(***************************************************************************)
(* No opportunity is announced before the "op" event of the one before it  *)
(* was posted, and an event is missing only while its opportunity is in    *)
(* hand, or because the scan ended in an exception or was cancelled.       *)
(***************************************************************************)
EveryOpportunityAccounted ==
    /\ owed <= 1
    /\ owed = 1 => pc \in ExecPCs \cup {"unexecuted", "raised", "cancelled"}
    /\ owed = 1 => pc # "report"

(***************************************************************************)
(* The inductive invariant behind the two properties above: in which calls *)
(* an event is owed, and how many executions a stop still lets happen.     *)
(***************************************************************************)
OwedInHand ==
    /\ owed \in {0, 1}
    /\ pc \in (ExecPCs \ {"report"}) \cup {"unexecuted"} => owed = 1
    /\ owed = 1 => pc \in (ExecPCs \ {"report"}) \cup {"unexecuted", "raised", "cancelled"}

\* The calls between a reverse quote and the execution it may lead to.
WeighingPCs == {"fees", "note_fees", "announce", "key", "exec_log"}

\* Executions counted are of the batch in hand, and none is counted before the
\* stop or before there is a batch.
StopBudget ==
    /\ ~stopEvent => afterStop = 0
    /\ pc \in {"gas", "note_gas", "filter", "note_pair", "forward", "reverse"} =>
          afterStop = 0
    /\ afterStop + Cardinality(rev) + (IF pc \in WeighingPCs THEN 1 ELSE 0)
          <= Cardinality(Dexes)

IndInv ==
    /\ TypeOK
    /\ OwedInHand
    /\ StopBudget

\* Every scan ends.
ScansEnd == (pc = "gas") ~> (pc \in EndPCs)
=============================================================================
