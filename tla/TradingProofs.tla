---------------------------- MODULE TradingProofs ----------------------------
(***************************************************************************)
(* Theorems about Trading, for any number of attempts, of pairs and of     *)
(* foreign transactions, any DEXes and any starting balances.  What the    *)
(* executor and the chain keep to is taken over from TxExecutorProofs:     *)
(* each step of the composition is one of theirs, or leaves them alone.    *)
(***************************************************************************)
EXTENDS Trading, TxExecutorProofs

-----------------------------------------------------------------------------
(* Lemmas about the parts                                                  *)

\* Where the three nested loops of a scan go on.
LEMMA LoopsGoOn ==
    ASSUME NEW R, SC!NextReverse(R) \/ SC!NextPair
    PROVE  scanPC' \in {"returned", "filter", "reverse", "fees"}
BY DEF SC!NextReverse, SC!NextForward, SC!NextPair

\* A scan outside of execute_arb and its record neither comes from one of the
\* two nor leads to one of them, and it has not ended.
LEMMA ScanningApart ==
    ASSUME Scanning
    PROVE  /\ ~Open /\ ~Open' /\ ~Ended
           /\ UNCHANGED <<vars, bookVars>>
<1>1. CASE scanPC \notin {"execute", "record"} /\ SC!Raise
  BY <1>1 DEF Scanning, SC!Raise, SC!NotePCs, SC!EndPCs, Open, Ended
<1>2. CASE SC!GasPrice \/ SC!NoteGas
  BY <1>2, LoopsGoOn DEF Scanning, SC!GasPrice, SC!NoteGas, SC!EndPCs, Open, Ended
<1>3. CASE SC!Filter \/ SC!NotePair
  BY <1>3, LoopsGoOn
     DEF Scanning, SC!Filter, SC!NotePair, SC!AskForward, SC!EndPCs, Open, Ended
<1>4. CASE SC!Forward
  BY <1>4 DEF Scanning, SC!Forward, SC!NextForward, SC!NextPair, SC!EndPCs, Open, Ended
<1>5. CASE SC!Reverse \/ SC!Fees \/ SC!NoteFees
  BY <1>5, LoopsGoOn
     DEF Scanning, SC!Reverse, SC!Fees, SC!NoteFees, SC!Weigh, SC!EndPCs, Open, Ended
<1>6. CASE SC!Announce \/ SC!WalletKey \/ SC!KeyLogged
  BY <1>6, LoopsGoOn DEF Scanning, SC!Announce, SC!WalletKey, SC!KeyLogged,
                         SC!NotExecuted, SC!EndPCs, Open, Ended
<1>7. CASE SC!Report \/ SC!RecordUnexecuted
  BY <1>7, LoopsGoOn DEF Scanning, SC!Report, SC!RecordUnexecuted, SC!EndPCs, Open, Ended
<1> QED
  BY <1>1, <1>2, <1>3, <1>4, <1>5, <1>6, <1>7 DEF Scanning

\* Each step of the composition is a step of the executor and the chain, or
\* leaves both as they are.
LEMMA StepOfExecutor ==
    ASSUME [TradingNext]_tradingVars PROVE [Next]_vars
<1>1. CASE UNCHANGED tradingVars
  BY <1>1 DEF tradingVars
<1>2. CASE Scanning
  BY <1>2, ScanningApart
<1>3. CASE BeginExecution \/ Executing \/ NothingToExecute
  BY <1>3 DEF BeginExecution, Executing, NothingToExecute, Next
<1>4. CASE Record \/ RecordAgain \/ RecordRaises \/ LateRecord \/ Stop \/ ScanAnew
  BY <1>4 DEF Record, RecordAgain, RecordRaises, LateRecord, Stop, ScanAnew
<1>5. CASE BeCancelled \/ Killed \/ Mining \/ Elsewhere
  BY <1>5 DEF BeCancelled, Killed, Mining, Elsewhere, Next
<1> QED
  BY <1>1, <1>2, <1>3, <1>4, <1>5 DEF TradingNext

\* The attempt in hand as execute_arb goes on: it stays in hand, or ends.
LEMMA ExecStepEffect ==
    ASSUME IndInv, ExecStep
    PROVE  /\ pc # "idle"
           /\ attempt \in Attempts /\ outcome[attempt] = "running"
           /\ UNCHANGED <<attempt, threads, mined, count>>
           /\ unsure' \in {unsure, unsure \cup {attempt}}
           /\ \/ pc' # "idle" /\ outcome' = outcome
              \/ /\ pc' = "idle"
                 /\ \E r \in {"success", "fail", "raised"} :
                       outcome' = [outcome EXCEPT ![attempt] = r]
<1>1. pc # "idle"
  BY DEF ExecStep, ReadError, ReadLoanNonce, CheckBalance, ReadSwapNonce,
         ReadQuoteBalance, SendAccepted, SendRaises, Receipt, ReceiptRaises,
         ReadFinalBalance
<1>2. attempt \in Attempts /\ outcome[attempt] = "running"
  BY <1>1 DEF IndInv, InHand
<1>3. CASE ReadError \/ ReadLoanNonce \/ CheckBalance \/ ReadSwapNonce
  BY <1>1, <1>2, <1>3 DEF ReadError, ReadLoanNonce, CheckBalance, ReadSwapNonce, Except,
                          Finish, chainVars
<1>4. CASE ReadQuoteBalance \/ ReadFinalBalance \/ ReceiptRaises
  BY <1>1, <1>2, <1>4 DEF ReadQuoteBalance, ReadFinalBalance, ReceiptRaises, Except,
                          Finish, chainVars
<1>5. CASE SendAccepted \/ SendRaises
  BY <1>1, <1>2, <1>5 DEF SendAccepted, SendRaises, Except, Finish
<1>6. CASE Receipt
  BY <1>1, <1>2, <1>6 DEF Receipt, Confirmed, Reverted, Finish, chainVars
<1> QED
  BY <1>1, <1>2, <1>3, <1>4, <1>5, <1>6 DEF ExecStep

-----------------------------------------------------------------------------
(* Transactions that are on their way                                      *)

\* The attempt in hand signs as itself.
LEMMA Signature == MyTx.by = attempt /\ MyTx.n = nonce
BY DEF MyTx

\* No step of the executor or of the chain loses track of a transaction
\* without a note of it.
LEMMA TrackedInd ==
    ASSUME IndInv, Tracked, [Next]_vars PROVE Tracked'
<1> USE DEF Tracked
<1>1. CASE pc # "wait" /\ UNCHANGED <<unsure, threads, mempool>>
  BY <1>1
<1>2. CASE UNCHANGED vars
  <2>1. UNCHANGED MyTx
    BY <1>2 DEF MyTx, vars, execVars
  <2> QED
    BY <1>2, <2>1 DEF vars, execVars, chainVars
<1>3. CASE Begin \/ ReadError \/ ReadLoanNonce \/ CheckBalance \/ ReadSwapNonce
           \/ ReadQuoteBalance \/ ReadFinalBalance
  BY <1>1, <1>3 DEF Begin, ReadError, ReadLoanNonce, CheckBalance, ReadSwapNonce,
                    ReadQuoteBalance, ReadFinalBalance, chainVars
<1>4. CASE SendAccepted
  <2>1. UNCHANGED MyTx
    BY <1>4 DEF SendAccepted, MyTx
  <2> QED
    BY <1>4, <2>1 DEF SendAccepted, Accept
<1>5. CASE SendRaises
  BY <1>5, Signature DEF SendRaises, Accept
<1>6. CASE Receipt
  <2>1. \A tx \in mempool : tx # MyTx
    BY <1>6 DEF Receipt, IndInv, NoncesInOrder, TypeOK
  <2> QED
    BY <1>6, <2>1 DEF Receipt, chainVars
<1>7. CASE ReceiptRaises
  BY <1>7, Signature DEF ReceiptRaises, chainVars
<1>8. CASE Cancelled
  BY <1>8, Signature DEF Cancelled, chainVars
<1>9. CASE Crash
  BY <1>9, Signature DEF Crash, chainVars
<1>10. CASE ThreadSends \/ Mine \/ Drop \/ ForeignTx
  <2>1. UNCHANGED MyTx
    BY <1>10 DEF ThreadSends, Mine, Drop, ForeignTx, MyTx, execVars
  <2>2. /\ threads' \subseteq threads
        /\ mempool' \subseteq mempool \cup threads
        /\ UNCHANGED <<unsure, pc>>
    BY <1>10 DEF ThreadSends, Accept, Mine, Drop, ForeignTx, execVars
  <2> QED
    BY <2>1, <2>2
<1> QED
  BY <1>2, <1>3, <1>4, <1>5, <1>6, <1>7, <1>8, <1>9, <1>10 DEF Next, ExecStep, Over

-----------------------------------------------------------------------------
(* The inductive invariant                                                 *)

LEMMA TradingInitInd == TradingInit => TradingInv
<1> SUFFICES ASSUME TradingInit PROVE TradingInv
  OBVIOUS
<1>1. IndInv /\ pc = "idle" /\ scanPC = "gas"
  BY InitInd DEF TradingInit, Init, SC!Init
<1>2. InStep
  BY <1>1 DEF InStep, Open, TradingInit, Init, Attempts
<1>3. Booked /\ Tracked
  BY <1>1 DEF Booked, Tracked, TradingInit, Init
<1>4. LateBound
  BY <1>1 DEF LateBound, TradingInit
<1> QED
  BY <1>1, <1>2, <1>3, <1>4 DEF TradingInv

LEMMA ScanningInd ==
    ASSUME TradingInv, Scanning PROVE InStep' /\ Booked' /\ LateBound'
<1> USE ScanningApart DEF TradingInv, vars, execVars, chainVars, bookVars, recordVars
<1>1. InStep'
  BY DEF InStep, Open
<1>2. Booked'
  BY DEF Booked
<1>3. LateBound'
  BY DEF LateBound
<1> QED
  BY <1>1, <1>2, <1>3

\* A new attempt has no outcome and no record yet.
LEMMA BeginExecutionInd ==
    ASSUME TradingInv, BeginExecution PROVE InStep' /\ Booked' /\ LateBound'
<1> USE DEF TradingInv, BeginExecution, Begin, SC!BeginExecution
<1>1. /\ attempt \in Nat /\ attempt' = attempt + 1 /\ attempt' \in Attempts
      /\ outcome \in [Attempts -> Outcomes]
  BY BoundsAssumption DEF IndInv, TypeOK, Attempts
<1>2. \E r \in {"running", "fail"} : outcome' = [outcome EXCEPT ![attempt'] = r]
  OBVIOUS
<1>3. InStep'
  <2>1. ASSUME NEW a \in Attempts
        PROVE  /\ outcome'[a] = "none" <=> attempt' < a
               /\ outcome'[a] = "running" => pc' # "idle" /\ a = attempt'
    BY <1>1, <1>2 DEF InStep, Attempts
  <2> QED
    BY <1>1, <2>1 DEF InStep, Open
<1>4. Booked'
  <2>1. posted[attempt'] = "none" /\ attempt' \notin unanswered
    BY <1>1 DEF Booked, InStep, Attempts
  <2>2. ASSUME NEW a \in Attempts, a # attempt'
        PROVE  outcome'[a] = outcome[a]
    BY <1>1, <1>2, <2>2
  <2> QED
    BY <1>1, <1>2, <2>1, <2>2 DEF Booked, Open, bookVars, recordVars
<1>5. LateBound'
  BY DEF LateBound, Ended, SC!EndPCs, bookVars
<1> QED
  BY <1>3, <1>4, <1>5

\* An attempt that ends hands its result to the post of the record, or raises.
LEMMA ExecutingInd ==
    ASSUME TradingInv, Executing \/ NothingToExecute
    PROVE  InStep' /\ Booked' /\ LateBound'
<1> USE DEF TradingInv, SC!Execute, SC!Raise
<1>1. CASE NothingToExecute
  <2>1. UNCHANGED <<pc, attempt, outcome, mempool, threads, count, recordVars,
                    minedLate>>
    BY <1>1 DEF NothingToExecute, vars, execVars, chainVars, bookVars
  <2>2. scanPC = "execute" /\ scanPC' = "record" /\ pc = "idle"
    BY <1>1 DEF NothingToExecute
  <2>3. InStep' /\ Booked'
    BY <2>1, <2>2 DEF InStep, Booked, Open, recordVars
  <2>4. LateBound'
    BY <2>1, <2>2 DEF LateBound, Ended, SC!EndPCs
  <2> QED
    BY <2>3, <2>4
<1>2. CASE Executing
  <2> USE <1>2 DEF Executing
  <2>1. /\ outcome \in [Attempts -> Outcomes] /\ attempt \in Nat
        /\ UNCHANGED <<posted, twice, unanswered, minedLate>>
    BY DEF IndInv, TypeOK, bookVars, recordVars
  <2>2. CASE pc' # "idle"
    <3>1. UNCHANGED <<attempt, outcome, scanPC, threads>>
      BY <2>2, ExecStepEffect DEF scanVars
    <3>2. InStep' /\ Booked'
      BY <2>1, <3>1 DEF InStep, Booked, Open
    <3>3. LateBound'
      BY <2>1, <3>1 DEF LateBound, Ended, SC!EndPCs
    <3> QED
      BY <3>2, <3>3
  <2>3. CASE pc' = "idle"
    <3>1. PICK r \in {"success", "fail", "raised"} :
             outcome' = [outcome EXCEPT ![attempt] = r]
      BY <2>3, ExecStepEffect
    <3>2. /\ attempt \in Attempts /\ outcome[attempt] = "running" /\ attempt' = attempt
          /\ outcome'[attempt] = r
          /\ \A a \in Attempts : a # attempt => outcome'[a] = outcome[a]
      BY <2>1, <3>1, ExecStepEffect
    <3>3. scanPC' = IF r = "raised" THEN "raised" ELSE "record"
      BY <2>3, <3>2
    <3>4. InStep'
      BY <2>3, <3>2, <3>3 DEF InStep, Open
    <3>5. Booked'
      <4>1. posted[attempt] = "none" /\ attempt \notin unanswered
        BY <3>2 DEF Booked
      <4> QED
        BY <2>1, <3>2, <3>3, <4>1 DEF Booked, Open
    <3>6. LateBound'
      BY <2>1 DEF LateBound, Ended, SC!EndPCs
    <3> QED
      BY <3>4, <3>5, <3>6
  <2> QED
    BY <2>2, <2>3
<1> QED
  BY <1>1, <1>2

\* What storing a record does, when its attempt is at its result.
LEMMA StoreEffect ==
    ASSUME Booked, NEW a \in Attempts, outcome[a] \in {"success", "fail"}, Store(a)
    PROVE  /\ posted' \in [Attempts -> {"none", "success", "fail"}]
           /\ posted'[a] = outcome[a]
           /\ \A c \in Attempts : c # a => posted'[c] = posted[c]
           /\ twice' \subseteq twice \cup {a}
           /\ posted[a] = "none" => twice' = twice
           /\ posted[a] # "none" => twice' = twice \cup {a}
BY DEF Booked, Store

\* The record is posted.
LEMMA RecordInd ==
    ASSUME TradingInv, Record PROVE InStep' /\ Booked' /\ LateBound'
<1> USE DEF TradingInv, Record, SC!Record
<1>1. /\ scanPC = "record" /\ scanPC' = "report" /\ pc = "idle"
      /\ attempt \in Attempts /\ outcome[attempt] \in {"success", "fail"}
      /\ UNCHANGED <<pc, attempt, outcome, mempool, threads, count, unanswered,
                     minedLate>>
  BY DEF InStep, Open, vars, execVars, chainVars
<1>2. InStep'
  BY <1>1 DEF InStep, Open
<1>3. Booked'
  <2>1. Open /\ ~Open'
    BY <1>1 DEF Open
  <2>2. twice' \subseteq unanswered
    BY <1>1, <2>1, StoreEffect DEF Booked
  <2>3. \A a \in twice' : posted'[a] # "none"
    BY <1>1, <2>2, StoreEffect DEF Booked
  <2> QED
    BY <1>1, <2>1, <2>2, <2>3, StoreEffect DEF Booked
<1>4. LateBound'
  BY <1>1 DEF LateBound, Ended, SC!EndPCs
<1> QED
  BY <1>2, <1>3, <1>4

\* A request of its post is given up on, and another one is sent, or none.
LEMMA GiveUpInd ==
    ASSUME TradingInv, RecordAgain \/ RecordRaises
    PROVE  InStep' /\ Booked' /\ LateBound'
<1> USE DEF TradingInv, RecordAgain, RecordRaises, SC!Raise, GiveUp, scanVars
<1>1. /\ scanPC = "record" /\ scanPC' \in {"record", "raised"} /\ pc = "idle"
      /\ attempt \in Attempts /\ outcome[attempt] \in {"success", "fail"}
      /\ UNCHANGED <<pc, attempt, outcome, mempool, threads, count, posted, twice,
                     minedLate>>
      /\ unanswered' = unanswered \cup {attempt}
  BY DEF InStep, Open, vars, execVars, chainVars
<1>2. InStep'
  BY <1>1 DEF InStep, Open
<1>3. Booked'
  BY <1>1 DEF Booked, Open
<1>4. LateBound'
  BY <1>1 DEF LateBound, Ended, SC!EndPCs
<1> QED
  BY <1>2, <1>3, <1>4

\* A late record says what the one that was to be posted says.
LEMMA LateRecordInd ==
    ASSUME TradingInv, LateRecord PROVE InStep' /\ Booked' /\ LateBound'
<1> USE DEF TradingInv, LateRecord
<1>1. UNCHANGED <<scanPC, pc, attempt, outcome, mempool, threads, count, unanswered,
                  minedLate, Open, Ended>>
  BY DEF scanVars, vars, execVars, chainVars, Open, Ended
<1>2. InStep' /\ LateBound'
  BY <1>1 DEF InStep, LateBound
<1>3. PICK a \in unanswered : Store(a)
  OBVIOUS
<1>4. a \in Attempts /\ outcome[a] \in {"success", "fail"}
  BY <1>3 DEF Booked
<1>5. Booked'
  <2>1. twice' \subseteq unanswered
    BY <1>3, <1>4, StoreEffect DEF Booked
  <2>2. \A c \in twice' : posted'[c] # "none"
    BY <1>3, <1>4, <2>1, StoreEffect DEF Booked
  <2> QED
    BY <1>1, <1>3, <1>4, <2>1, <2>2, StoreEffect DEF Booked
<1> QED
  BY <1>2, <1>5

\* The end of a worker in the middle of an attempt, of the post of its record,
\* or of neither.
LEMMA CutInd ==
    ASSUME TradingInv, Cut, scanPC' = "cancelled", pc' = "idle", attempt' = attempt,
           \/ pc = "idle" /\ outcome' = outcome
           \/ pc # "idle" /\ outcome' = [outcome EXCEPT ![attempt] = "cancelled"]
    PROVE  InStep' /\ Booked'
<1> USE DEF TradingInv
<1>1. outcome \in [Attempts -> Outcomes]
  BY DEF IndInv, TypeOK
<1>2. CASE pc # "idle"
  <2>1. /\ attempt \in Attempts /\ outcome[attempt] = "running"
        /\ scanPC = "execute" /\ UNCHANGED <<posted, twice, unanswered>>
    BY <1>2 DEF IndInv, InHand, InStep, Cut, recordVars
  <2>2. /\ outcome'[attempt] = "cancelled"
        /\ \A a \in Attempts : a # attempt => outcome'[a] = outcome[a]
    BY <1>1, <1>2, <2>1
  <2>3. InStep'
    BY <2>1, <2>2 DEF InStep, Open
  <2>4. posted[attempt] = "none" /\ attempt \notin unanswered
    BY <2>1 DEF Booked
  <2> QED
    BY <2>1, <2>2, <2>3, <2>4 DEF Booked, Open
<1>3. CASE pc = "idle"
  <2>1. InStep'
    BY <1>3 DEF InStep, Open
  <2>2. CASE scanPC = "record"
    BY <1>3, <2>2 DEF Cut, GiveUp, Booked, InStep, Open
  <2>3. CASE scanPC # "record"
    BY <1>3, <2>3 DEF Cut, recordVars, Booked, InStep, Open
  <2> QED
    BY <2>1, <2>2, <2>3
<1> QED
  BY <1>2, <1>3

LEMMA BeCancelledInd ==
    ASSUME TradingInv, BeCancelled PROVE InStep' /\ Booked' /\ LateBound'
<1> USE DEF TradingInv, BeCancelled, SC!BeCancelled
<1>1. InStep' /\ Booked'
  BY CutInd DEF Cancelled, Finish, vars, execVars
<1>2. LateBound'
  BY DEF LateBound, Ended
<1> QED
  BY <1>1, <1>2

LEMMA KilledInd ==
    ASSUME TradingInv, Killed PROVE InStep' /\ Booked' /\ LateBound'
<1> USE DEF TradingInv, Killed, Crash
<1>1. InStep' /\ Booked'
  BY CutInd DEF Finish
<1>2. LateBound'
  BY DEF LateBound, Ended, SC!EndPCs, chainVars
<1> QED
  BY <1>1, <1>2

\* A stop changes nothing of it, and a scan begins with no late transaction.
LEMMA RestInd ==
    ASSUME TradingInv, Stop \/ ScanAnew PROVE InStep' /\ Booked' /\ LateBound'
<1> USE DEF TradingInv, vars, execVars, chainVars
<1>1. CASE Stop
  BY <1>1 DEF Stop, SC!Stop, InStep, Booked, LateBound, Open, Ended, bookVars,
              recordVars
<1>2. CASE ScanAnew
  <2>1. scanPC \in SC!EndPCs /\ scanPC' = "gas"
    BY <1>2 DEF ScanAnew, SC!NewScan, SC!NewWorker, SC!EndPCs
  <2>2. InStep' /\ Booked'
    BY <1>2, <2>1 DEF ScanAnew, InStep, Booked, Open, SC!EndPCs, recordVars
  <2>3. LateBound'
    BY <1>2, <2>1 DEF ScanAnew, LateBound, Ended, SC!EndPCs
  <2> QED
    BY <2>2, <2>3
<1> QED
  BY <1>1, <1>2

(***************************************************************************)
(* The one transaction that is pending when a scan ends may be mined; then *)
(* nothing is pending any more, and what the threads still have to send    *)
(* bears a nonce that is spent.                                            *)
(***************************************************************************)
LEMMA ChainInd ==
    ASSUME TradingInv, Mining \/ Elsewhere PROVE InStep' /\ Booked' /\ LateBound'
<1> USE DEF TradingInv
<1>1. /\ UNCHANGED <<scanPC, pc, attempt, outcome, posted, twice, unanswered>>
      /\ threads' \subseteq threads
  BY DEF Mining, Elsewhere, Mine, ThreadSends, Drop, ForeignTx, execVars, scanVars,
         bookVars, recordVars
<1>2. InStep' /\ Booked'
  BY <1>1 DEF InStep, Booked, Open
<1>3. /\ count \in Nat /\ \A tx \in threads : tx.n \in Nat /\ tx.n <= count
      /\ \A tx \in mempool : tx.n = count
      /\ \A tx1, tx2 \in mempool : tx1 = tx2
  BY DEF IndInv, NoncesInOrder, TypeOK, Tx
<1>4. CASE Mining
  <2>1. mempool # {} /\ mempool' = {} /\ count' = count + 1 /\ UNCHANGED Ended
    BY <1>1, <1>3, <1>4 DEF Mining, Mine, Ended
  <2>2. minedLate = 0 /\ minedLate' = IF Ended THEN 1 ELSE 0
    BY <1>4, <2>1 DEF Mining, LateBound
  <2> QED
    BY <1>1, <1>2, <1>3, <2>1, <2>2 DEF LateBound
<1>5. CASE Elsewhere
  <2>1. UNCHANGED <<Ended, minedLate>> /\ count' >= count /\ count' \in Nat
    BY <1>1, <1>3, <1>5 DEF Elsewhere, Ended, ThreadSends, Drop, ForeignTx, bookVars
  <2>2. ASSUME mempool = {}, \A tx \in threads : tx.n < count PROVE mempool' = {}
    BY <1>3, <1>5, <2>2 DEF Elsewhere, ThreadSends, Accept, Drop, ForeignTx
  <2>3. ASSUME \A tx \in threads : tx.n < count PROVE \A tx \in threads' : tx.n < count'
    BY <1>1, <1>3, <2>1, <2>3
  <2> QED
    BY <1>2, <2>1, <2>2, <2>3 DEF LateBound
<1> QED
  BY <1>4, <1>5

\* Every step preserves the invariant.
LEMMA TradingNextInd == TradingInv /\ [TradingNext]_tradingVars => TradingInv'
<1> SUFFICES ASSUME TradingInv, [TradingNext]_tradingVars PROVE TradingInv'
  OBVIOUS
<1>1. IndInv' /\ Tracked'
  BY StepOfExecutor, NextInd, TrackedInd DEF TradingInv
<1>2. CASE UNCHANGED tradingVars
  BY <1>1, <1>2 DEF TradingInv, InStep, Booked, LateBound, Open, Ended, tradingVars,
                    scanVars, vars, execVars, chainVars, bookVars, recordVars
<1>3. CASE TradingNext
  BY <1>1, <1>3, ScanningInd, BeginExecutionInd, ExecutingInd, RecordInd, GiveUpInd,
     LateRecordInd, BeCancelledInd, KilledInd, RestInd, ChainInd DEF TradingInv, TradingNext
<1> QED
  BY <1>2, <1>3

-----------------------------------------------------------------------------
(* Theorems                                                                *)

(***************************************************************************)
(* The invariant holds of every behaviour of the worker's scans, their     *)
(* attempts, the chain and the records together.                           *)
(***************************************************************************)
THEOREM TradingInvariance == TradingSpec => []TradingInv
<1> QED
  BY TradingInitInd, TradingNextInd, PTL DEF TradingSpec

(***************************************************************************)
(* At most one transaction of the wallet is mined between the end of a     *)
(* scan and the beginning of another, whatever was cut off.                *)
(***************************************************************************)
THEOREM FewLate == TradingSpec => []FewMinedLate
<1>1. TradingInv => FewMinedLate
  BY DEF TradingInv, LateBound, FewMinedLate
<1> QED
  BY <1>1, TradingInvariance, PTL

(***************************************************************************)
(* Every trade that went through has an "op" event that says so, but for   *)
(* those of attempts whose end nobody saw, or whose event was given up on. *)
(***************************************************************************)
THEOREM TradesRecorded == TradingSpec => []TradesAreRecorded
<1>1. ASSUME TradingInv PROVE TradesAreRecorded
  <2> USE <1>1 DEF TradingInv
  <2> SUFFICES ASSUME NEW a \in Attempts, Traded(a),
                      ~(a = attempt /\ scanPC \in {"execute", "record"})
               PROVE  \/ posted[a] = "success"
                      \/ outcome[a] \in {"raised", "cancelled"}
                      \/ outcome[a] = "fail" /\ a \in unsure
                      \/ a \in unanswered
    BY DEF TradesAreRecorded
  <2>1. a <= attempt
    <3>1. PICK m \in mined : m[1].by = a
      BY DEF Traded, Succeeded
    <3>2. m[1] \in Known
      BY DEF Known
    <3> QED
      BY <3>1, <3>2 DEF IndInv, SignedOnce
  <2>2. outcome[a] # "none"
    BY <2>1 DEF InStep, IndInv, TypeOK, Attempts
  <2>3. outcome[a] # "running"
    BY DEF InStep, Open
  <2>4. outcome[a] \in {"success", "fail", "raised", "cancelled"}
    BY <2>2, <2>3 DEF IndInv, TypeOK, Outcomes
  <2> QED
    BY <2>4, ResultsOfInd DEF Booked, Open, Traded, ResultsAreTrue
<1> QED
  BY <1>1, TradingInvariance, PTL

(***************************************************************************)
(* Scans that are cut off, and workers that begin anew, show the executor  *)
(* and the chain nothing they do not allow for by themselves, so that what *)
(* is proved of the two holds in the composition: one transaction in       *)
(* flight, true results, no second purchase.                               *)
(***************************************************************************)
THEOREM ExecutorImplemented ==
    TradingSpec => Spec /\ [](OneInFlight /\ ResultsAreTrue /\ BuysOnce)
<1>1. TradingInit => Init
  BY DEF TradingInit
<1>2. [TradingNext]_tradingVars => [Next]_vars
  BY StepOfExecutor
<1>3. TradingSpec => Spec
  BY <1>1, <1>2, PTL DEF TradingSpec, Spec
<1> QED
  BY <1>3, OneAtATime, TrueResults, NoDoubleBuy, PTL

-----------------------------------------------------------------------------
(* The ledger                                                              *)

\* The ledger does not see what leaves its variables alone.
LEMMA Unseen ==
    ASSUME UNCHANGED <<attempt, mined, recordVars, unsure>>, Open' <=> Open
    PROVE  UNCHANGED LG!ledgerVars
<1>1. UNCHANGED <<OpenAttempt, Trade>>
  BY DEF OpenAttempt, Trade, Traded, Succeeded
<1> QED
  BY <1>1 DEF LG!ledgerVars, LG!recordVars, recordVars

\* Only what is mined moves a trade.
LEMMA TradeStays ==
    ASSUME UNCHANGED mined PROVE UNCHANGED Trade
BY DEF Trade, Traded, Succeeded

\* The record of a result is one the ledger may write, early or late.
LEMMA WriteTrue ==
    ASSUME TradingInv, NEW a \in Attempts, outcome[a] \in {"success", "fail"}, Store(a)
    PROVE  LG!Write(a)
<1> USE DEF TradingInv
<1>1. outcome[a] = "success" => Trade[a] = "done"
  BY ResultsOfInd DEF ResultsAreTrue, Trade, Traded
<1>2. outcome[a] = "fail" => Trade[a] # "done" \/ a \in unsure
  BY ResultsOfInd DEF ResultsAreTrue, Trade, Traded
<1>3. posted[a] \in {"none", outcome[a]}
  BY DEF Booked
<1> QED
  BY <1>1, <1>2, <1>3 DEF LG!Write, Store

\* The start maps to the start.
LEMMA LedgerInit == TradingInit => LG!Init
<1> SUFFICES ASSUME TradingInit PROVE LG!Init
  OBVIOUS
<1>1. OpenAttempt = {}
  BY DEF TradingInit, SC!Init, OpenAttempt, Open
<1>2. Trade = [a \in Attempts |-> "none"]
  BY DEF TradingInit, Init, Trade, Traded, Succeeded
<1> QED
  BY <1>1, <1>2 DEF TradingInit, Init, LG!Init, LG!Attempts, Attempts

\* An attempt is opened.
LEMMA OpenStep ==
    ASSUME TradingInv, BeginExecution PROVE LG!Open
<1> USE DEF BeginExecution, SC!BeginExecution, Begin
<1>1. OpenAttempt = {} /\ OpenAttempt' = {attempt'}
  BY DEF OpenAttempt, Open
<1>2. UNCHANGED <<Trade, posted, twice, unanswered, unsure>>
  BY TradeStays DEF chainVars, bookVars, recordVars
<1> QED
  BY <1>1, <1>2 DEF LG!Open, LG!recordVars

\* While execute_arb goes on the attempt may lose track of a transaction; it is
\* abandoned when an exception leaves it.
LEMMA ExecutingStep ==
    ASSUME TradingInv, Executing PROVE [LG!Next]_(LG!ledgerVars)
<1> USE DEF Executing, SC!Execute, SC!Raise
<1>1. /\ attempt \in Attempts /\ attempt' = attempt
      /\ UNCHANGED <<mined, posted, twice, unanswered, Trade>>
      /\ unsure' \in {unsure, unsure \cup {attempt}}
  BY ExecStepEffect, TradeStays DEF TradingInv, bookVars, recordVars
<1>2. OpenAttempt = {attempt}
  BY DEF OpenAttempt, Open
<1>3. CASE scanPC' \in {"execute", "record"}
  <2>1. OpenAttempt' = {attempt}
    BY <1>1, <1>3 DEF OpenAttempt, Open
  <2>2. CASE unsure' = unsure
    BY <1>1, <1>2, <2>1, <2>2 DEF LG!ledgerVars, LG!recordVars
  <2>3. CASE unsure' = unsure \cup {attempt}
    BY <1>1, <1>2, <2>1, <2>3 DEF LG!Next, LG!Lose, LG!recordVars
  <2> QED
    BY <1>1, <2>2, <2>3
<1>4. CASE scanPC' = "raised"
  <2>1. OpenAttempt' = {}
    BY <1>4 DEF OpenAttempt, Open
  <2>2. LG!Abandon(attempt)
    BY <1>1, <1>2, <2>1 DEF LG!Abandon, LG!recordVars
  <2> QED
    BY <1>1, <2>2 DEF LG!Next, LG!Attempts, Attempts
<1> QED
  BY <1>3, <1>4 DEF scanVars

\* The attempt is closed with its record.
LEMMA RecordStep ==
    ASSUME TradingInv, Record PROVE LG!Next
<1> USE DEF Record, SC!Record
<1>1. attempt \in Attempts /\ outcome[attempt] \in {"success", "fail"}
  BY DEF TradingInv, InStep, Open
<1>2. LG!Write(attempt)
  BY <1>1, WriteTrue
<1>3. OpenAttempt = {attempt} /\ OpenAttempt' = {}
  BY DEF OpenAttempt, Open
<1>4. UNCHANGED <<attempt, Trade, unanswered, unsure>>
  BY TradeStays DEF vars, execVars, chainVars
<1>5. posted[attempt] # "none" => attempt \in unanswered
  BY <1>1 DEF TradingInv, Booked, Open
<1>6. LG!Close(attempt)
  BY <1>2, <1>3, <1>4, <1>5 DEF LG!Close
<1> QED
  BY <1>1, <1>6 DEF LG!Next, LG!Attempts, Attempts

\* Its record comes to be in doubt.
LEMMA DoubtStep ==
    ASSUME TradingInv, RecordAgain PROVE LG!Next
<1> USE DEF RecordAgain, GiveUp
<1>1. OpenAttempt = {attempt} /\ OpenAttempt' = {attempt}
  BY DEF OpenAttempt, Open, scanVars, vars, execVars
<1>2. UNCHANGED <<attempt, Trade, posted, twice, unsure>>
  BY TradeStays DEF vars, execVars, chainVars
<1> QED
  BY <1>1, <1>2 DEF LG!Next, LG!Doubt, LG!recordVars

\* A record in doubt is written, whatever came since.
LEMMA LateStep ==
    ASSUME TradingInv, LateRecord PROVE LG!Next
<1> USE DEF LateRecord
<1>1. PICK a \in unanswered : Store(a)
  OBVIOUS
<1>2. a \in Attempts /\ outcome[a] \in {"success", "fail"}
  BY DEF TradingInv, Booked
<1>3. LG!Write(a)
  BY <1>1, <1>2, WriteTrue
<1>4. UNCHANGED <<attempt, OpenAttempt, Trade, unanswered, unsure>>
  BY TradeStays DEF scanVars, vars, execVars, chainVars, OpenAttempt, Open
<1>5. LG!Late(a)
  BY <1>3, <1>4 DEF LG!Late
<1> QED
  BY <1>2, <1>5 DEF LG!Next, LG!Attempts, Attempts

\* An attempt that is cut off, or whose post is given up on, is abandoned.
LEMMA AbandonStep ==
    ASSUME TradingInv, RecordRaises \/ BeCancelled \/ Killed
    PROVE  [LG!Next]_(LG!ledgerVars)
<1> USE DEF RecordRaises, BeCancelled, Killed, SC!Raise, SC!BeCancelled
<1>1. /\ attempt' = attempt /\ UNCHANGED <<mined, Trade>> /\ ~Open'
      /\ unsure' \in {unsure, unsure \cup {attempt}}
      /\ pc = "idle" => unsure' = unsure
  BY TradeStays DEF Cancelled, Crash, vars, execVars, chainVars, Open
<1>2. CASE ~Open
  <2>1. unsure' = unsure /\ UNCHANGED recordVars
    BY <1>1, <1>2 DEF TradingInv, InStep, Open, Cut
  <2> QED
    BY <1>1, <1>2, <2>1, Unseen
<1>3. CASE Open
  <2>1. OpenAttempt = {attempt} /\ OpenAttempt' = {} /\ attempt \in Attempts
    BY <1>1, <1>3 DEF OpenAttempt, TradingInv, InStep
  <2>2. /\ unanswered' \in {unanswered, unanswered \cup {attempt}}
        /\ UNCHANGED <<posted, twice>>
    BY DEF Cut, GiveUp, recordVars
  <2>3. LG!Abandon(attempt)
    BY <1>1, <2>1, <2>2 DEF LG!Abandon, LG!recordVars
  <2> QED
    BY <2>1, <2>3 DEF LG!Next, LG!Attempts, Attempts
<1> QED
  BY <1>2, <1>3

(***************************************************************************)
(* What is mined is a transaction of the attempt in hand, or of one that   *)
(* lost track of it.                                                       *)
(***************************************************************************)
LEMMA MoveStep ==
    ASSUME TradingInv, Mining PROVE [LG!Next]_(LG!ledgerVars)
<1> USE DEF Mining, Mine
<1>1. PICK tx \in mempool, ok \in BOOLEAN : mined' = mined \cup {<<tx, ok>>}
  OBVIOUS
<1>2. tx.by \in Attempts /\ tx.by \in OpenAttempt \cup unsure
  <2>1. tx \in Tx
    BY DEF TradingInv, IndInv, TypeOK
  <2> QED
    BY <2>1, Signature DEF TradingInv, Tracked, InStep, OpenAttempt, Open, Tx
<1>3. UNCHANGED <<attempt, OpenAttempt, posted, twice, unanswered, unsure>>
  BY DEF execVars, scanVars, OpenAttempt, Open, recordVars
<1>4. \A a, k : Succeeded(a, k)' <=> Succeeded(a, k) \/ (ok /\ tx.by = a /\ tx.kind = k)
  <2>1. <<tx, ok>>[1] = tx /\ <<tx, ok>>[2] = ok
    OBVIOUS
  <2> QED
    BY <1>1, <2>1 DEF Succeeded
<1>5. CASE ~ok \/ tx.kind \notin {"loan", "buy", "sell"} \/ Traded(tx.by)
  <2>1. Trade' = Trade
    BY <1>4, <1>5 DEF Trade, Traded
  <2> QED
    BY <1>3, <2>1 DEF LG!ledgerVars, LG!recordVars
<1>6. CASE ok /\ ~Traded(tx.by) /\ tx.kind \in {"loan", "sell"}
  <2>1. Trade[tx.by] # "done" /\ Trade' = [Trade EXCEPT ![tx.by] = "done"]
    BY <1>2, <1>4, <1>6 DEF Trade, Traded
  <2>2. LG!Move(tx.by)
    BY <1>2, <1>3, <2>1 DEF LG!Move, LG!recordVars
  <2> QED
    BY <1>2, <2>2 DEF LG!Next, LG!Attempts, Attempts
<1>7. CASE ok /\ ~Traded(tx.by) /\ tx.kind = "buy"
  <2>1. CASE Succeeded(tx.by, "buy")
    <3>1. Trade' = Trade
      BY <1>4, <1>7, <2>1 DEF Trade, Traded
    <3> QED
      BY <1>3, <3>1 DEF LG!ledgerVars, LG!recordVars
  <2>2. CASE ~Succeeded(tx.by, "buy")
    <3>1. Trade[tx.by] = "none" /\ Trade' = [Trade EXCEPT ![tx.by] = "half"]
      BY <1>2, <1>4, <1>7, <2>2 DEF Trade, Traded
    <3>2. LG!Move(tx.by)
      BY <1>2, <1>3, <3>1 DEF LG!Move, LG!recordVars
    <3> QED
      BY <1>2, <3>2 DEF LG!Next, LG!Attempts, Attempts
  <2> QED
    BY <2>1, <2>2
<1> QED
  BY <1>5, <1>6, <1>7

\* Every step maps to a step of the ledger, or leaves it as it is.
LEMMA LedgerNext ==
    ASSUME TradingInv, [TradingNext]_tradingVars PROVE [LG!Next]_(LG!ledgerVars)
<1>1. CASE Scanning
  BY <1>1, ScanningApart, Unseen DEF vars, execVars, chainVars, bookVars
<1>2. CASE NothingToExecute
  BY <1>2, Unseen DEF NothingToExecute, SC!Execute, Open, vars, execVars, chainVars, bookVars
<1>3. CASE Stop
  BY <1>3, Unseen DEF Stop, SC!Stop, Open, vars, execVars, chainVars, bookVars
<1>4. CASE ScanAnew
  BY <1>4, Unseen DEF ScanAnew, SC!NewScan, SC!NewWorker, SC!EndPCs, Open, vars, execVars,
                      chainVars
<1>5. CASE Elsewhere
  BY <1>5, Unseen DEF Elsewhere, ThreadSends, Drop, ForeignTx, Open, execVars, scanVars,
                      bookVars
<1>6. CASE UNCHANGED tradingVars
  BY <1>6, Unseen DEF tradingVars, scanVars, vars, execVars, chainVars, bookVars, Open
<1> QED
  BY <1>1, <1>2, <1>3, <1>4, <1>5, <1>6, OpenStep, ExecutingStep, RecordStep, DoubtStep,
     LateStep, AbandonStep, MoveStep DEF TradingNext, LG!Next

(***************************************************************************)
(* The whole implements the ledger: attempts are opened and closed one by  *)
(* one, a record is true, no trade moves after its attempt was closed or   *)
(* abandoned but those of attempts that lost track of a transaction, and   *)
(* no record comes at another time than the close of its attempt, or more  *)
(* than once, but those of attempts whose post had a request unanswered.   *)
(***************************************************************************)
THEOREM LedgerImplemented == TradingSpec => ImplementsLedger
<1> QED
  BY LedgerInit, LedgerNext, TradingInvariance, PTL
     DEF TradingSpec, ImplementsLedger, LG!Spec
=============================================================================
