----------------------------- MODULE TxExecutor -----------------------------
(***************************************************************************)
(* execute_arb against the chain: one wallet's execution attempts, one     *)
(* after the other, each by the flash-loan flow (one transaction) or by    *)
(* the legacy flow (approve, buy, approve, sell, each awaited before the   *)
(* next).  Every chain call runs in a thread of its own: when the worker   *)
(* is cancelled during a broadcast the thread goes on, while a new worker  *)
(* of the same wallet may already be at its next attempt.  The chain may   *)
(* refuse, replace, drop, delay, mine or revert a transaction, and its     *)
(* answers may be lost.                                                    *)
(*                                                                         *)
(* Balances are counted in units of one trade: amount_in of the base token *)
(* and what it buys of the quote token.                                    *)
(***************************************************************************)
EXTENDS Naturals, FiniteSets

CONSTANTS
    MaxAttempts,   \* attempts, each a call of execute_arb
    MaxForeign,    \* transactions the owner of the key sends by other means
    StartBase,     \* trades' worth of base token in the wallet
    StartQuote     \* trades' worth of quote token already in the wallet

ASSUME BoundsAssumption ==
    /\ MaxAttempts \in Nat \ {0}
    /\ MaxForeign \in Nat
    /\ StartBase \in Nat
    /\ StartQuote \in Nat

Attempts == 1..MaxAttempts
Kinds    == {"loan", "approve_base", "buy", "approve_quote", "sell"}
Tx       == [n : Nat, by : Attempts, kind : Kinds, amount : Nat]
Outcomes == {"none", "running", "success", "fail", "raised", "cancelled"}

VARIABLES
    pc,        \* where the attempt in hand is: see PCs
    attempt,   \* its number; 0 before the first
    nonce,     \* its nonce variable
    kind,      \* the transaction it is about to broadcast or waits for
    amount,    \* quote_balance as it was read before the sale
    outcome,   \* how each attempt ended
    unsure,    \* the attempts that lost track of a transaction of theirs
    threads,   \* broadcasts whose attempt was cancelled
    count,     \* get_transaction_count("latest"): mined transactions
    mempool,   \* transactions waiting to be mined
    mined,     \* <<transaction, did it succeed>>
    base, quote, foreign

execVars  == <<pc, attempt, nonce, kind, amount, outcome, unsure>>
chainVars == <<count, mempool, mined, base, quote, foreign>>
vars      == <<execVars, threads, chainVars>>

PCs == {"idle", "loan_nonce", "check", "swap_nonce", "send", "wait",
        "read_quote", "read_final"}

TypeOK ==
    /\ pc \in PCs
    /\ attempt \in 0..MaxAttempts
    /\ nonce \in Nat
    /\ kind \in Kinds
    /\ amount \in Nat
    /\ outcome \in [Attempts -> Outcomes]
    /\ unsure \in SUBSET Attempts
    /\ threads \in SUBSET Tx
    /\ count \in Nat
    /\ mempool \in SUBSET Tx
    /\ mined \in SUBSET (Tx \X BOOLEAN)
    /\ base \in Nat
    /\ quote \in Nat
    /\ foreign \in 0..MaxForeign

Init ==
    /\ pc = "idle"
    /\ attempt = 0
    /\ nonce = 0
    /\ kind = "loan"
    /\ amount = 0
    /\ outcome = [a \in Attempts |-> "none"]
    /\ unsure = {}
    /\ threads = {}
    /\ count = 0
    /\ mempool = {}
    /\ mined = {}
    /\ base = StartBase
    /\ quote = StartQuote
    /\ foreign = 0

\* The transaction of the attempt in hand.
MyTx == [n |-> nonce, by |-> attempt, kind |-> kind,
         amount |-> IF kind = "sell" THEN amount ELSE 1]

Finish(result) ==
    /\ pc' = "idle"
    /\ outcome' = [outcome EXCEPT ![attempt] = result]

(***************************************************************************)
(* An exception of a chain call: execute_arb turns it into a failed result *)
(* in the flash-loan flow, and lets it out in the legacy flow.             *)
(***************************************************************************)
Except == Finish(IF kind = "loan" THEN "fail" ELSE "raised")

-----------------------------------------------------------------------------
(* An attempt                                                              *)

(***************************************************************************)
(* execute_arb up to its first chain call: no flow for these DEXes, or a   *)
(* key that does not decrypt, is a failed result without a transaction.    *)
(***************************************************************************)
Begin ==
    /\ pc = "idle"
    /\ attempt < MaxAttempts
    /\ attempt' = attempt + 1
    /\ \/ /\ pc' = "loan_nonce"
          /\ kind' = "loan"
          /\ outcome' = [outcome EXCEPT ![attempt'] = "running"]
       \/ /\ pc' = "check"
          /\ kind' = "approve_base"
          /\ outcome' = [outcome EXCEPT ![attempt'] = "running"]
       \/ /\ pc' = "idle"
          /\ outcome' = [outcome EXCEPT ![attempt'] = "fail"]
          /\ UNCHANGED kind
    /\ UNCHANGED <<nonce, amount, unsure, threads, chainVars>>

\* A call that reads the chain and raises; the last of them comes after the
\* sale is mined.
ReadError ==
    /\ pc \in {"loan_nonce", "check", "swap_nonce", "read_quote", "read_final"}
    /\ Except
    /\ UNCHANGED <<attempt, nonce, kind, amount, unsure, threads, chainVars>>

\* Mutant of ReadLoanNonce: pending transactions are counted too.
ReadLoanNoncePending ==
    /\ pc = "loan_nonce"
    /\ nonce' = count + Cardinality(mempool)
    /\ pc' = "send"
    /\ UNCHANGED <<attempt, kind, amount, outcome, unsure, threads, chainVars>>

\* Mutant of ReadLoanNonce: the last nonce used, not the next one.
ReadLoanNonceOff ==
    /\ pc = "loan_nonce"
    /\ nonce' = count - 1
    /\ pc' = "send"
    /\ UNCHANGED <<attempt, kind, amount, outcome, unsure, threads, chainVars>>

\* The nonce is the number of mined transactions, pending ones not counted.
ReadLoanNonce ==
    /\ pc = "loan_nonce"
    /\ nonce' = count
    /\ pc' = "send"
    /\ UNCHANGED <<attempt, kind, amount, outcome, unsure, threads, chainVars>>

CheckBalance ==
    /\ pc = "check"
    /\ IF base < 1 THEN Finish("fail") ELSE pc' = "swap_nonce" /\ UNCHANGED outcome
    /\ UNCHANGED <<attempt, nonce, kind, amount, unsure, threads, chainVars>>

(***************************************************************************)
(* _ensure_allowance: an allowance that is large enough needs no approval  *)
(* (what earlier approvals have left is not counted here).                 *)
(***************************************************************************)
ReadSwapNonce ==
    /\ pc = "swap_nonce"
    /\ nonce' = count
    /\ kind' \in {"approve_base", "buy"}
    /\ pc' = "send"
    /\ UNCHANGED <<attempt, amount, outcome, unsure, threads, chainVars>>

\* The sale is mined: the profit is what the base balance says it is.
ReadFinalBalance ==
    /\ pc = "read_final"
    /\ Finish("success")
    /\ UNCHANGED <<attempt, nonce, kind, amount, unsure, threads, chainVars>>

\* The sale is of the whole quote balance.
ReadQuoteBalance ==
    /\ pc = "read_quote"
    /\ amount' = quote
    /\ kind' \in {"approve_quote", "sell"}
    /\ pc' = "send"
    /\ UNCHANGED <<attempt, nonce, outcome, unsure, threads, chainVars>>

(***************************************************************************)
(* What the node does with a broadcast: it refuses it, takes it, or lets   *)
(* it replace the pending transaction of the same nonce.                   *)
(***************************************************************************)
SameNonce(tx) == {p \in mempool : p.n = tx.n}

Accept(tx) ==
    /\ tx.n >= count
    /\ mempool' = (mempool \ SameNonce(tx)) \cup {tx}

SendAccepted ==
    /\ pc = "send"
    /\ Accept(MyTx)
    /\ pc' = "wait"
    /\ UNCHANGED <<attempt, nonce, kind, amount, outcome, unsure, threads, count,
                   mined, base, quote, foreign>>

\* The call raises: refused, or accepted and the answer lost.
SendRaises ==
    /\ pc = "send"
    /\ Except
    /\ \/ UNCHANGED <<mempool, unsure>>
       \/ Accept(MyTx) /\ unsure' = unsure \cup {attempt}
    /\ UNCHANGED <<attempt, nonce, kind, amount, threads, count, mined, base, quote,
                   foreign>>

(***************************************************************************)
(* The receipt is there.  A reverted approval raises, any other reverted   *)
(* transaction is a failed result; else the next transaction of the flow   *)
(* takes the next nonce.                                                   *)
(***************************************************************************)
NextKind == [approve_base |-> "buy", approve_quote |-> "sell"]

Confirmed ==
    \/ kind = "loan" /\ Finish("success") /\ UNCHANGED <<nonce, kind>>
    \/ kind = "sell" /\ pc' = "read_final" /\ UNCHANGED <<nonce, kind, outcome>>
    \/ /\ kind = "buy"
       /\ nonce' = nonce + 1
       /\ pc' = "read_quote"
       /\ UNCHANGED <<kind, outcome>>
    \/ /\ kind \in DOMAIN NextKind
       /\ nonce' = nonce + 1
       /\ kind' = NextKind[kind]
       /\ pc' = "send"
       /\ UNCHANGED outcome

Reverted ==
    /\ Finish(IF kind \in DOMAIN NextKind THEN "raised" ELSE "fail")
    /\ UNCHANGED <<nonce, kind>>

\* Mutant of Receipt: the status is not looked at.
ReceiptIsEnough ==
    /\ pc = "wait"
    /\ \E ok \in BOOLEAN : <<MyTx, ok>> \in mined
    /\ Confirmed
    /\ UNCHANGED <<attempt, amount, unsure, threads, chainVars>>

Receipt ==
    /\ pc = "wait"
    /\ \/ <<MyTx, TRUE>> \in mined /\ Confirmed
       \/ <<MyTx, FALSE>> \in mined /\ Reverted
    /\ UNCHANGED <<attempt, amount, unsure, threads, chainVars>>

\* Mutant of ReceiptRaises: a swap whose receipt does not come is tried again.
ReceiptRetries ==
    /\ pc = "wait"
    /\ IF kind = "loan" THEN Except ELSE pc' = "swap_nonce" /\ UNCHANGED outcome
    /\ unsure' = unsure \cup {attempt}
    /\ UNCHANGED <<attempt, nonce, kind, amount, threads, chainVars>>

\* Mutant of ReceiptRaises: the receipt is waited for without a limit.
ReceiptWaitsOn == pc = "wait" /\ UNCHANGED vars

\* wait_for_transaction_receipt gives up after 120 seconds, or fails.
ReceiptRaises ==
    /\ pc = "wait"
    /\ Except
    /\ unsure' = unsure \cup {attempt}
    /\ UNCHANGED <<attempt, nonce, kind, amount, threads, chainVars>>

(***************************************************************************)
(* The worker is cancelled at the await.  A broadcast that was under way   *)
(* stays so, in its thread.                                                *)
(***************************************************************************)
Cancelled ==
    /\ pc # "idle"
    /\ Finish("cancelled")
    /\ threads' = IF pc = "send" THEN threads \cup {MyTx} ELSE threads
    /\ unsure' = unsure \cup {attempt}
    /\ UNCHANGED <<attempt, nonce, kind, amount, chainVars>>

(***************************************************************************)
(* The process is killed, and its threads with it.  What was broadcast     *)
(* stays with the chain; nothing else is kept.                             *)
(***************************************************************************)
Crash ==
    /\ IF pc = "idle" THEN UNCHANGED <<pc, outcome, unsure>>
                      ELSE Finish("cancelled") /\ unsure' = unsure \cup {attempt}
    /\ threads' = {}
    /\ UNCHANGED <<attempt, nonce, kind, amount, chainVars>>

ThreadSends ==
    /\ \E tx \in threads :
          /\ threads' = threads \ {tx}
          /\ Accept(tx) \/ UNCHANGED mempool
    /\ UNCHANGED <<execVars, count, mined, base, quote, foreign>>

-----------------------------------------------------------------------------
(* The chain                                                               *)

\* What a transaction that succeeds does to the balances.
Effect(tx) ==
    CASE tx.kind = "buy"  -> /\ base >= 1
                             /\ base' = base - 1
                             /\ quote' = quote + 1
      [] tx.kind = "sell" -> /\ quote >= tx.amount
                             /\ quote' = quote - tx.amount
                             /\ base' = base + tx.amount
      [] OTHER            -> UNCHANGED <<base, quote>>

Mine ==
    /\ \E tx \in mempool :
          /\ tx.n = count
          /\ mempool' = mempool \ {tx}
          /\ \/ mined' = mined \cup {<<tx, TRUE>>} /\ Effect(tx)
             \/ mined' = mined \cup {<<tx, FALSE>>} /\ UNCHANGED <<base, quote>>
    /\ count' = count + 1
    /\ UNCHANGED <<execVars, threads, foreign>>

Drop ==
    /\ \E tx \in mempool : mempool' = mempool \ {tx}
    /\ UNCHANGED <<execVars, threads, count, mined, base, quote, foreign>>

\* The owner of the key spends a nonce by other means.
ForeignTx ==
    /\ foreign < MaxForeign
    /\ foreign' = foreign + 1
    /\ count' = count + 1
    /\ mempool' = {tx \in mempool : tx.n # count}
    /\ UNCHANGED <<execVars, threads, mined, base, quote>>

Over ==
    /\ pc = "idle"
    /\ attempt = MaxAttempts
    /\ mempool = {}
    /\ threads = {}
    /\ UNCHANGED vars

ExecStep ==
    \/ ReadError \/ ReadLoanNonce \/ CheckBalance \/ ReadSwapNonce
    \/ ReadQuoteBalance \/ SendAccepted \/ SendRaises \/ Receipt
    \/ ReceiptRaises \/ ReadFinalBalance

Next ==
    \/ Begin \/ ExecStep \/ Cancelled \/ Crash \/ ThreadSends
    \/ Mine \/ Drop \/ ForeignTx
    \/ Over

Spec == Init /\ [][Next]_vars

\* Chain calls have time-outs; the chain itself owes nothing.
FairSpec == Spec /\ WF_vars(ExecStep)

-----------------------------------------------------------------------------
(* Properties                                                              *)

(***************************************************************************)
(* The wallet never has two transactions in flight, nor one that waits for *)
(* another to be mined first: every pending transaction bears the next     *)
(* nonce.  It rests on the nonce being read from the mined count, on each  *)
(* transaction being awaited before the next, and on the chain's rule for  *)
(* equal nonces where time-outs, cancelled workers and their threads come  *)
(* in between.                                                             *)
(***************************************************************************)
OneInFlight ==
    /\ \A tx \in mempool : tx.n = count
    /\ Cardinality(mempool) <= 1

(***************************************************************************)
(* What a result says is true of the chain.  A success went through, with  *)
(* both swaps of the trade.  A failure did not, unless the attempt had     *)
(* lost track of a transaction: a broadcast whose answer was lost, a       *)
(* receipt that did not come in time.  (An attempt that raised may have    *)
(* gone through: the last balance is read after the sale.)                 *)
(***************************************************************************)
Succeeded(a, k) == \E m \in mined : m[2] /\ m[1].by = a /\ m[1].kind = k

ResultsAreTrue ==
    \A a \in Attempts :
        /\ outcome[a] = "success" =>
              Succeeded(a, "loan") \/ (Succeeded(a, "buy") /\ Succeeded(a, "sell"))
        /\ /\ outcome[a] = "fail"
           /\ Succeeded(a, "loan") \/ Succeeded(a, "sell")
           => a \in unsure

\* An attempt spends its base amount at most once.
BuysOnce ==
    \A m1, m2 \in mined :
        /\ m1[2] /\ m2[2]
        /\ m1[1].kind = "buy" /\ m2[1].kind = "buy"
        /\ m1[1].by = m2[1].by
        => m1 = m2

(***************************************************************************)
(* The inductive invariant behind the three properties above: where each   *)
(* transaction the wallet ever signed may be, and what each pc says about  *)
(* those of the attempt in hand.                                           *)
(***************************************************************************)
Known == mempool \cup threads \cup {m[1] : m \in mined}

\* The kinds of transaction that come before each kind in its flow.
EarlierKinds ==
    [loan          |-> {},
     approve_base  |-> {},
     buy           |-> {"approve_base"},
     approve_quote |-> {"approve_base", "buy"},
     sell          |-> {"approve_base", "buy", "approve_quote"}]

SentKinds ==
    (IF pc \in {"send", "wait", "read_quote", "read_final"} THEN EarlierKinds[kind] ELSE {})
    \cup (IF pc \in {"wait", "read_quote", "read_final"} THEN {kind} ELSE {})

\* The attempt in hand runs, each pc belongs to its flow, and what it has sent
\* are transactions of the kinds before, the one it waits for being MyTx.
InHand ==
    pc # "idle" =>
        /\ attempt \in Attempts
        /\ outcome[attempt] = "running"
        /\ pc = "loan_nonce" => kind = "loan"
        /\ pc \in {"check", "swap_nonce"} => kind = "approve_base"
        /\ pc = "read_quote" => kind = "buy"
        /\ pc = "read_final" => kind = "sell"
        /\ pc \in {"send", "wait", "read_quote"} => nonce <= count
        /\ \A tx \in Known : tx.by = attempt =>
              /\ tx.kind \in SentKinds
              /\ pc = "wait" /\ tx.kind = kind => tx = MyTx

\* A swap that goes on has bought, and one that has only to read the last
\* balance has sold.
ProgressIsMined ==
    /\ \/ pc \in {"read_quote", "read_final"}
       \/ pc \in {"send", "wait"} /\ kind \in {"approve_quote", "sell"}
       => Succeeded(attempt, "buy")
    /\ pc = "read_final" => Succeeded(attempt, "sell")

\* Nobody signs two transactions of one kind in one attempt, and a thread that
\* is left over is one of a cancelled attempt.
SignedOnce ==
    /\ \A tx \in Known : tx.by <= attempt
    /\ \A tx1, tx2 \in Known :
          tx1.by = tx2.by /\ tx1.kind = tx2.kind => tx1 = tx2
    /\ \A tx \in threads : outcome[tx.by] = "cancelled"

\* No broadcast is ahead of the chain, and each nonce is mined once.
NoncesInOrder ==
    /\ \A tx \in threads : tx.n <= count
    /\ \A tx1, tx2 \in mempool : tx1 = tx2
    /\ \A tx \in mempool : tx.n = count
    /\ \A m \in mined : m[1].n < count
    /\ \A m1, m2 \in mined : m1[1].n = m2[1].n => m1 = m2

\* A success is mined; what a failure that kept track has sent has reverted.
OutcomesAreTrue ==
    \A a \in Attempts :
        /\ outcome[a] = "success" =>
              Succeeded(a, "loan") \/ (Succeeded(a, "buy") /\ Succeeded(a, "sell"))
        /\ outcome[a] = "fail" /\ a \notin unsure =>
              \A tx \in Known :
                  tx.by = a /\ tx.kind \in {"loan", "sell"} => <<tx, FALSE>> \in mined

IndInv ==
    /\ TypeOK
    /\ InHand
    /\ ProgressIsMined
    /\ SignedOnce
    /\ NoncesInOrder
    /\ OutcomesAreTrue

\* Every attempt ends, whatever becomes of its transactions.
AttemptsEnd == (pc # "idle") ~> (pc = "idle")

(***************************************************************************)
(* What worker.py says the round trip is: the sale spends the quote token  *)
(* the purchase brought.                                                   *)
(***************************************************************************)
SellsWhatItBought ==
    \A tx \in mempool : tx.kind = "sell" => tx.amount = 1
=============================================================================
