-------------------------- MODULE TxExecutorProofs --------------------------
(***************************************************************************)
(* Theorems about TxExecutor, for any number of attempts and of foreign    *)
(* transactions and any starting balances.                                 *)
(***************************************************************************)
EXTENDS TxExecutor, FiniteSetTheorems, TLAPS

-----------------------------------------------------------------------------
(* Lemmas about the operators of the model                                 *)

\* What is mined is a transaction and a flag.
LEMMA MinedPairs ==
    ASSUME TypeOK, NEW m \in mined
    PROVE  m[1] \in Tx /\ m[2] \in BOOLEAN /\ m = <<m[1], m[2]>>
BY DEF TypeOK

\* The transaction of an attempt in hand is a transaction.
LEMMA MyTxType ==
    ASSUME TypeOK, attempt \in Attempts
    PROVE  MyTx \in Tx /\ MyTx.n = nonce /\ MyTx.by = attempt /\ MyTx.kind = kind
BY DEF TypeOK, MyTx, Tx

\* What is known is transactions.
LEMMA KnownType ==
    ASSUME TypeOK, NEW tx \in Known
    PROVE  tx \in Tx /\ tx.n \in Nat /\ tx.by \in Attempts /\ tx.kind \in Kinds
<1>1. tx \in Tx
  BY MinedPairs DEF TypeOK, Known
<1> QED
  BY <1>1 DEF Tx

\* A node takes a broadcast that is not ahead of the chain only with the next
\* nonce, in place of whatever was pending.
LEMMA AcceptReplaces ==
    ASSUME TypeOK, NoncesInOrder, NEW tx \in Tx, tx.n <= count, Accept(tx)
    PROVE  tx.n = count /\ mempool' = {tx}
<1>1. tx.n = count
  BY DEF Accept, TypeOK, Tx
<1>2. SameNonce(tx) = mempool
  BY <1>1 DEF SameNonce, NoncesInOrder
<1> QED
  BY <1>1, <1>2 DEF Accept

-----------------------------------------------------------------------------
(* The inductive invariant                                                 *)

\* The initial states satisfy the invariant.
LEMMA InitInd == Init => IndInv
<1> SUFFICES ASSUME Init PROVE IndInv
  OBVIOUS
<1>1. TypeOK
  BY BoundsAssumption DEF Init, TypeOK, PCs, Kinds, Outcomes
<1>2. Known = {}
  BY DEF Init, Known
<1> QED
  BY <1>1, <1>2 DEF Init, IndInv, InHand, ProgressIsMined, SignedOnce,
                    NoncesInOrder, OutcomesAreTrue, Attempts

\* A new attempt has no transactions yet.
LEMMA BeginInd ==
    ASSUME IndInv, Begin PROVE IndInv'
<1> USE DEF IndInv, Begin
<1>1. attempt' \in Attempts /\ attempt < attempt' /\ attempt \in Nat
  BY BoundsAssumption DEF TypeOK, Attempts
<1>2. TypeOK'
  BY <1>1, BoundsAssumption DEF TypeOK, chainVars, PCs, Kinds, Outcomes
<1>3. UNCHANGED Known /\ \A a, k : Succeeded(a, k)' <=> Succeeded(a, k)
  BY DEF Known, Succeeded, chainVars
<1>4. \A tx \in Known : tx.by \in Nat /\ tx.by <= attempt /\ tx.by # attempt'
  BY <1>1, KnownType DEF SignedOnce, Attempts
<1>5. InHand'
  BY <1>1, <1>3, <1>4 DEF InHand, TypeOK, chainVars
<1>6. ProgressIsMined'
  BY DEF ProgressIsMined
<1>7. SignedOnce'
  BY <1>1, <1>3, <1>4, KnownType DEF SignedOnce, TypeOK, Known, chainVars
<1>8. NoncesInOrder'
  BY DEF NoncesInOrder, chainVars
<1>9. OutcomesAreTrue'
  BY <1>1, <1>3, <1>4 DEF OutcomesAreTrue, TypeOK, chainVars
<1> QED
  BY <1>2, <1>5, <1>6, <1>7, <1>8, <1>9

(***************************************************************************)
(* The steps that only read the chain, or its receipt: no transaction and  *)
(* no thread changes.                                                      *)
(***************************************************************************)
LEMMA ChainUntouched ==
    ASSUME IndInv, UNCHANGED <<threads, chainVars>>
    PROVE  /\ UNCHANGED Known
           /\ \A a, k : Succeeded(a, k)' <=> Succeeded(a, k)
           /\ NoncesInOrder'
           /\ attempt' = attempt /\ outcome' = outcome => SignedOnce'
BY DEF IndInv, Known, Succeeded, NoncesInOrder, SignedOnce, chainVars

\* An attempt that ends: how, and what must be true for it.
LEMMA FinishInd ==
    ASSUME IndInv, pc # "idle", NEW r \in Outcomes \ {"none", "running"}, Finish(r),
           UNCHANGED <<attempt, nonce, kind, amount, threads, chainVars>>,
           unsure' \in {unsure, unsure \cup {attempt}},
           r = "success" => \/ Succeeded(attempt, "loan")
                            \/ Succeeded(attempt, "buy") /\ Succeeded(attempt, "sell"),
           r = "fail" /\ attempt \notin unsure' =>
              \A tx \in Known : tx.by = attempt /\ tx.kind \in {"loan", "sell"} =>
                  <<tx, FALSE>> \in mined
    PROVE  IndInv'
<1> USE DEF IndInv, Finish
<1>1. attempt \in Attempts /\ outcome[attempt] = "running"
  BY DEF InHand
<1>2. TypeOK'
  BY <1>1 DEF TypeOK, PCs, chainVars
<1>3. InHand' /\ ProgressIsMined'
  BY DEF InHand, ProgressIsMined
<1>4. SignedOnce'
  <2>1. \A tx \in threads : tx.by # attempt
    BY <1>1 DEF SignedOnce
  <2> QED
    BY <1>1, <2>1, ChainUntouched DEF SignedOnce, TypeOK, chainVars
<1>5. NoncesInOrder'
  BY ChainUntouched
<1>6. OutcomesAreTrue'
  BY <1>1, ChainUntouched DEF OutcomesAreTrue, TypeOK, chainVars
<1> QED
  BY <1>2, <1>3, <1>4, <1>5, <1>6

\* An exception comes before any transaction of the loan flow, or the attempt
\* has lost track of it.
LEMMA ExceptInd ==
    ASSUME IndInv, pc # "idle", Except,
           UNCHANGED <<attempt, nonce, kind, amount, threads, chainVars>>,
           \/ pc # "wait" /\ UNCHANGED unsure
           \/ unsure' = unsure \cup {attempt}
    PROVE  IndInv'
<1>1. ASSUME kind = "loan", attempt \notin unsure', NEW tx \in Known, tx.by = attempt
      PROVE  FALSE
  BY <1>1 DEF IndInv, InHand, SentKinds, EarlierKinds
<1>2. CASE kind = "loan"
  BY <1>1, <1>2, FinishInd DEF Except, Outcomes
<1>3. CASE kind # "loan"
  BY <1>3, FinishInd DEF Except, Outcomes
<1> QED
  BY <1>2, <1>3

\* Before an attempt sends it has no transaction, and the nonce it reads is the
\* next one.
LEMMA ReadInd ==
    ASSUME IndInv,
           \/ ReadError \/ ReadLoanNonce \/ CheckBalance \/ ReadSwapNonce
           \/ ReadQuoteBalance \/ ReadFinalBalance
    PROVE  IndInv'
<1>1. CASE ReadError
  BY <1>1, ExceptInd DEF ReadError
<1>2. CASE CheckBalance /\ base < 1
  <2>1. \A tx \in Known : tx.by # attempt
    BY <1>2 DEF CheckBalance, IndInv, InHand, SentKinds
  <2> QED
    BY <1>2, <2>1, FinishInd DEF CheckBalance, Outcomes
<1>3. CASE ReadFinalBalance
  BY <1>3, FinishInd DEF ReadFinalBalance, IndInv, ProgressIsMined, Outcomes
<1>4. ASSUME UNCHANGED <<attempt, outcome, unsure, threads, chainVars>>,
             pc \in {"loan_nonce", "check", "swap_nonce", "read_quote"},
             pc' \in {"swap_nonce", "send"}, pc' = "swap_nonce" => pc = "check",
             kind' \in Kinds, nonce' \in Nat, amount' \in Nat,
             nonce' <= count \/ pc' # "send",
             pc = "loan_nonce" => kind' = "loan",
             pc = "check" => kind' = "approve_base",
             pc = "swap_nonce" => kind' \in {"approve_base", "buy"},
             pc = "read_quote" => kind' \in {"approve_quote", "sell"}
      PROVE  IndInv'
  <2> USE <1>4 DEF IndInv
  <2>1. TypeOK'
    BY DEF TypeOK, PCs, chainVars
  <2>2. InHand'
    <3>1. \A tx \in Known : tx.by = attempt => tx.kind \in SentKinds'
      BY DEF InHand, SentKinds, EarlierKinds, Kinds
    <3> QED
      BY <3>1, ChainUntouched DEF InHand, chainVars
  <2>3. ProgressIsMined'
    BY ChainUntouched DEF ProgressIsMined
  <2>4. OutcomesAreTrue'
    BY ChainUntouched DEF OutcomesAreTrue, chainVars
  <2> QED
    BY <2>1, <2>2, <2>3, <2>4, ChainUntouched
<1>5. count \in Nat /\ quote \in Nat /\ amount \in Nat /\ nonce \in Nat /\ kind \in Kinds
  BY DEF IndInv, TypeOK
<1>6. CASE ReadLoanNonce
  BY <1>4, <1>5, <1>6 DEF ReadLoanNonce, IndInv, InHand
<1>7. CASE CheckBalance /\ ~(base < 1)
  BY <1>4, <1>5, <1>7 DEF CheckBalance, IndInv, InHand
<1>8. CASE ReadSwapNonce
  BY <1>4, <1>5, <1>8 DEF ReadSwapNonce, Kinds
<1>9. CASE ReadQuoteBalance
  BY <1>4, <1>5, <1>9 DEF ReadQuoteBalance, Kinds, IndInv, InHand
<1> QED
  BY <1>1, <1>2, <1>3, <1>6, <1>7, <1>8, <1>9

LEMMA ReceiptInd ==
    ASSUME IndInv, Receipt PROVE IndInv'
<1> USE DEF IndInv, Receipt
<1>1. /\ attempt \in Attempts /\ MyTx \in Tx
      /\ MyTx.n = nonce /\ MyTx.by = attempt /\ MyTx.kind = kind
  BY MyTxType DEF InHand
<1>2. CASE <<MyTx, TRUE>> \in mined /\ Confirmed
  <2>1. Succeeded(attempt, kind)
    BY <1>1, <1>2 DEF Succeeded
  <2>2. nonce + 1 <= count
    BY <1>1, <1>2 DEF NoncesInOrder, TypeOK
  <2>3. CASE kind = "loan"
    BY <1>2, <2>1, <2>3, FinishInd DEF Confirmed, Outcomes, NextKind
  <2>4. CASE kind # "loan"
    <3> USE <1>2, <2>4 DEF Confirmed, NextKind
    <3>1. TypeOK'
      BY DEF TypeOK, PCs, Kinds, chainVars
    <3>2. InHand'
      <4>1. \A tx \in Known : tx.by = attempt => tx.kind \in SentKinds'
        BY DEF InHand, SentKinds, EarlierKinds
      <4>2. UNCHANGED <<attempt, outcome>> /\ pc' \in {"send", "read_quote", "read_final"}
        OBVIOUS
      <4>3. pc' \in {"send", "read_quote"} => nonce' <= count
        BY <2>2
      <4> QED
        BY <4>1, <4>2, <4>3, ChainUntouched DEF InHand, chainVars
    <3>3. ProgressIsMined'
      BY <2>1, ChainUntouched DEF ProgressIsMined
    <3>4. SignedOnce'
      BY ChainUntouched
    <3>5. OutcomesAreTrue'
      BY ChainUntouched DEF OutcomesAreTrue, chainVars
    <3> QED
      BY <3>1, <3>2, <3>3, <3>4, <3>5, ChainUntouched
  <2> QED
    BY <2>3, <2>4
<1>3. CASE <<MyTx, FALSE>> \in mined /\ Reverted
  <2>1. ASSUME NEW tx \in Known, tx.by = attempt, tx.kind \in {"loan", "sell"}
        PROVE  <<tx, FALSE>> \in mined
    <3>1. tx.kind = kind
      BY <2>1 DEF InHand, SentKinds, EarlierKinds, TypeOK, Kinds
    <3> QED
      BY <1>3, <2>1, <3>1 DEF InHand
  <2>2. PICK r \in {"raised", "fail"} : Finish(r)
    BY <1>3 DEF Reverted
  <2> QED
    BY <1>3, <2>1, <2>2, FinishInd DEF Reverted, Outcomes
<1> QED
  BY <1>2, <1>3

\* A broadcast that is accepted adds MyTx to what is known, and nothing else.
LEMMA SendAcceptedInd ==
    ASSUME IndInv, SendAccepted PROVE IndInv'
<1> USE DEF IndInv, SendAccepted
<1>1. /\ attempt \in Attempts /\ MyTx \in Tx /\ outcome[attempt] = "running"
      /\ MyTx.n = nonce /\ MyTx.by = attempt /\ MyTx.kind = kind
  BY MyTxType DEF InHand
<1>2. MyTx.n = count /\ mempool' = {MyTx}
  BY <1>1, AcceptReplaces DEF InHand
<1>3. Known' \subseteq Known \cup {MyTx}
  BY <1>2 DEF Known
<1>4. TypeOK'
  BY <1>1, <1>2 DEF TypeOK, PCs
<1>5. kind \notin EarlierKinds[kind] /\ kind \in Kinds
  BY DEF TypeOK, Kinds, EarlierKinds
<1>6. \A tx \in Known : ~(tx.by = attempt /\ tx.kind = kind)
  BY <1>5 DEF InHand, SentKinds
<1>7. InHand'
  <2>1. UNCHANGED MyTx
    BY DEF MyTx
  <2> QED
    BY <1>1, <1>2, <1>3, <1>6, <2>1 DEF InHand, SentKinds
<1>8. ProgressIsMined'
  BY DEF ProgressIsMined, Succeeded
<1>9. SignedOnce'
  <2>1. attempt <= attempt
    BY DEF TypeOK
  <2> QED
    BY <1>1, <1>2, <1>3, <1>6, <2>1 DEF SignedOnce
<1>10. NoncesInOrder'
  BY <1>1, <1>2 DEF NoncesInOrder
<1>11. OutcomesAreTrue'
  BY <1>1, <1>3 DEF OutcomesAreTrue, Succeeded
<1> QED
  BY <1>4, <1>7, <1>8, <1>9, <1>10, <1>11

\* A broadcast whose answer is lost ends the attempt, and it may be pending.
LEMMA SendRaisesInd ==
    ASSUME IndInv, SendRaises PROVE IndInv'
<1>1. CASE UNCHANGED <<mempool, unsure>>
  BY <1>1, ExceptInd DEF SendRaises, chainVars
<1>2. CASE Accept(MyTx) /\ unsure' = unsure \cup {attempt}
  <2> USE <1>2 DEF IndInv, SendRaises, Except, Finish
  <2>1. /\ attempt \in Attempts /\ MyTx \in Tx /\ outcome[attempt] = "running"
        /\ MyTx.n = nonce /\ MyTx.by = attempt /\ MyTx.kind = kind
    BY MyTxType DEF InHand
  <2>2. MyTx.n = count /\ mempool' = {MyTx}
    BY <2>1, AcceptReplaces DEF InHand
  <2>3. Known' \subseteq Known \cup {MyTx}
    BY <2>2 DEF Known
  <2>4. TypeOK'
    BY <2>1, <2>2 DEF TypeOK, PCs, Outcomes
  <2>5. kind \notin EarlierKinds[kind] /\ kind \in Kinds
    BY DEF TypeOK, Kinds, EarlierKinds
  <2>6. \A tx \in Known : ~(tx.by = attempt /\ tx.kind = kind)
    BY <2>5 DEF InHand, SentKinds
  <2>7. InHand' /\ ProgressIsMined'
    BY DEF InHand, ProgressIsMined
  <2>8. SignedOnce'
    <3>1. \A tx \in threads : tx.by # attempt
      BY <2>1 DEF SignedOnce
    <3>2. attempt <= attempt
      BY DEF TypeOK
    <3>3. \A tx \in threads : outcome'[tx.by] = "cancelled"
      BY <2>1, <3>1, KnownType DEF SignedOnce, TypeOK, Known
    <3> QED
      BY <2>1, <2>2, <2>3, <2>6, <3>2, <3>3 DEF SignedOnce
  <2>9. NoncesInOrder'
    BY <2>1, <2>2 DEF NoncesInOrder
  <2>10. OutcomesAreTrue'
    <3>1. ASSUME NEW a \in Attempts \ {attempt}
          PROVE  /\ outcome'[a] = outcome[a] /\ (a \in unsure' <=> a \in unsure)
                 /\ \A tx \in Known' : tx.by = a => tx \in Known
      BY <2>1, <2>3 DEF TypeOK
    <3>2. attempt \in unsure' /\ outcome'[attempt] \in {"fail", "raised"}
      BY <2>1 DEF TypeOK
    <3>3. mined' = mined /\ \A a, k : Succeeded(a, k)' <=> Succeeded(a, k)
      BY DEF Succeeded
    <3> HIDE DEF SendRaises
    <3> QED
      BY <3>1, <3>2, <3>3 DEF OutcomesAreTrue
  <2> QED
    BY <2>4, <2>7, <2>8, <2>9, <2>10
<1> QED
  BY <1>1, <1>2 DEF SendRaises

\* The attempt is cancelled; a broadcast under way becomes a thread's.
LEMMA CancelledInd ==
    ASSUME IndInv, Cancelled PROVE IndInv'
<1> USE DEF IndInv, Cancelled
<1>1. CASE pc # "send"
  BY <1>1, FinishInd DEF Outcomes
<1>2. CASE pc = "send"
  <2> USE <1>2 DEF Finish
  <2>1. /\ attempt \in Attempts /\ MyTx \in Tx /\ outcome[attempt] = "running"
        /\ MyTx.n = nonce /\ MyTx.by = attempt /\ MyTx.kind = kind
    BY MyTxType DEF InHand
  <2>2. threads' = threads \cup {MyTx} /\ Known' = Known \cup {MyTx}
    BY DEF Known, chainVars
  <2>3. TypeOK'
    BY <2>1, <2>2 DEF TypeOK, PCs, Outcomes, chainVars
  <2>4. kind \notin EarlierKinds[kind] /\ kind \in Kinds
    BY DEF TypeOK, Kinds, EarlierKinds
  <2>5. \A tx \in Known : ~(tx.by = attempt /\ tx.kind = kind)
    BY <2>4 DEF InHand, SentKinds
  <2>6. InHand' /\ ProgressIsMined'
    BY DEF InHand, ProgressIsMined
  <2>7. SignedOnce'
    <3>1. \A tx \in threads' : outcome'[tx.by] = "cancelled"
      BY <2>1, <2>2, KnownType DEF SignedOnce, TypeOK, Known
    <3>2. attempt <= attempt
      BY DEF TypeOK
    <3> QED
      BY <2>1, <2>2, <2>5, <3>1, <3>2 DEF SignedOnce
  <2>8. NoncesInOrder'
    BY <2>1, <2>2 DEF NoncesInOrder, InHand, chainVars
  <2>9. OutcomesAreTrue'
    <3>1. outcome'[attempt] = "cancelled" /\ attempt \in unsure'
      BY <2>1 DEF TypeOK
    <3>2. ASSUME NEW a \in Attempts \ {attempt}
          PROVE  /\ outcome'[a] = outcome[a] /\ (a \in unsure' <=> a \in unsure)
                 /\ \A tx \in Known' : tx.by = a => tx \in Known
      BY <2>1, <2>2 DEF TypeOK
    <3>3. mined' = mined /\ \A a, k : Succeeded(a, k)' <=> Succeeded(a, k)
      BY DEF Succeeded, chainVars
    <3> HIDE DEF Cancelled
    <3> QED
      BY <3>1, <3>2, <3>3 DEF OutcomesAreTrue
  <2> QED
    BY <2>3, <2>6, <2>7, <2>8, <2>9
<1> QED
  BY <1>1, <1>2

\* The process dies: its threads are forgotten.
LEMMA CrashInd ==
    ASSUME IndInv, Crash PROVE IndInv'
<1> USE DEF IndInv, Crash, Finish
<1>1. pc' = "idle" /\ UNCHANGED <<attempt, chainVars>> /\ threads' = {}
  OBVIOUS
<1>2. Known' \subseteq Known
  BY <1>1 DEF Known, chainVars
<1>3. \A a \in Attempts : \/ outcome'[a] = outcome[a] /\ (a \in unsure' <=> a \in unsure)
                          \/ outcome'[a] = "cancelled"
  BY DEF InHand, TypeOK
<1>4. TypeOK'
  BY <1>1 DEF TypeOK, PCs, Outcomes, chainVars, InHand
<1>5. InHand' /\ ProgressIsMined'
  BY <1>1 DEF InHand, ProgressIsMined
<1>6. SignedOnce' /\ NoncesInOrder'
  BY <1>1, <1>2 DEF SignedOnce, NoncesInOrder, chainVars
<1>7. OutcomesAreTrue'
  <2>1. \A a, k : Succeeded(a, k)' <=> Succeeded(a, k)
    BY <1>1 DEF Succeeded, chainVars
  <2>2. mined' = mined
    BY <1>1 DEF chainVars
  <2>3. ASSUME NEW a \in Attempts, outcome'[a] # "cancelled"
        PROVE  outcome'[a] = outcome[a] /\ (a \in unsure' <=> a \in unsure)
    BY <1>3, <2>3
  <2> HIDE DEF Crash
  <2> QED
    BY <1>2, <2>1, <2>2, <2>3 DEF OutcomesAreTrue
<1> QED
  BY <1>4, <1>5, <1>6, <1>7

\* A thread's broadcast moves a transaction that was known already.
LEMMA ThreadSendsInd ==
    ASSUME IndInv, ThreadSends PROVE IndInv'
<1> USE DEF IndInv, ThreadSends
<1>1. PICK tx \in threads :
         threads' = threads \ {tx} /\ (Accept(tx) \/ UNCHANGED mempool)
  OBVIOUS
<1>2. tx \in Tx
  BY DEF TypeOK
<1>3. \/ tx.n = count /\ mempool' = {tx}
      \/ UNCHANGED mempool
  BY <1>1, <1>2, AcceptReplaces DEF NoncesInOrder
<1>4. Known' \subseteq Known
  BY <1>1, <1>3 DEF Known
<1>5. TypeOK'
  BY <1>1, <1>2, <1>3 DEF TypeOK, execVars
<1>6. InHand'
  <2>1. UNCHANGED <<SentKinds, MyTx>>
    BY DEF SentKinds, MyTx, execVars
  <2> QED
    BY <1>4, <2>1 DEF InHand, execVars
<1>7. ProgressIsMined'
  BY DEF ProgressIsMined, Succeeded, execVars
<1>8. SignedOnce' /\ NoncesInOrder'
  BY <1>1, <1>3, <1>4 DEF SignedOnce, NoncesInOrder, execVars
<1>9. OutcomesAreTrue'
  BY <1>4 DEF OutcomesAreTrue, Succeeded, execVars
<1> QED
  BY <1>5, <1>6, <1>7, <1>8, <1>9

-----------------------------------------------------------------------------
(* The chain's steps                                                       *)

\* Mining makes a pending transaction a mined one, and takes the next nonce.
LEMMA MineInd ==
    ASSUME IndInv, Mine PROVE IndInv'
<1> USE DEF IndInv, Mine
<1>1. PICK tx \in mempool, ok \in BOOLEAN :
         /\ tx.n = count
         /\ mempool' = mempool \ {tx}
         /\ mined' = mined \cup {<<tx, ok>>}
         /\ IF ok THEN Effect(tx) ELSE UNCHANGED <<base, quote>>
  OBVIOUS
<1>2. /\ count' = count + 1 /\ count \in Nat
      /\ UNCHANGED <<pc, attempt, nonce, kind, amount, outcome, unsure, threads, foreign>>
  BY DEF execVars, TypeOK
<1>3. mempool' = {} /\ tx \in Known /\ tx \in Tx
  BY <1>1 DEF NoncesInOrder, Known, TypeOK
<1>4. Known' = Known
  <2>1. mempool = {tx}
    BY DEF NoncesInOrder
  <2>2. {m[1] : m \in mined'} = {m[1] : m \in mined} \cup {tx}
    <3>1. <<tx, ok>>[1] = tx
      OBVIOUS
    <3>2. \A x : x \in {m[1] : m \in mined'} <=> (\E m \in mined : x = m[1]) \/ x = tx
      BY <1>1, <3>1, Zenon
    <3> QED
      BY <3>2
  <2> QED
    BY <1>2, <1>3, <2>1, <2>2 DEF Known
<1>5. \A m \in mined : m[1] \in Tx /\ m[1].n \in Nat /\ m[1].n < count
  BY MinedPairs DEF NoncesInOrder, Tx
<1>6. TypeOK'
  <2>1. base' \in Nat /\ quote' \in Nat
    <3>1. tx.amount \in Nat /\ tx.kind \in Kinds /\ base \in Nat /\ quote \in Nat
      BY <1>3 DEF TypeOK, Tx
    <3> QED
      BY <1>1, <3>1 DEF Effect, Kinds
  <2> QED
    BY <1>1, <1>2, <1>3, <2>1 DEF TypeOK
<1>7. \A a, k : Succeeded(a, k) => Succeeded(a, k)'
  BY <1>1 DEF Succeeded
<1>8. InHand'
  <2>1. UNCHANGED <<SentKinds, MyTx>>
    BY <1>2 DEF SentKinds, MyTx
  <2>2. nonce <= count => nonce <= count'
    BY <1>2 DEF TypeOK
  <2> QED
    BY <1>2, <1>4, <2>1, <2>2 DEF InHand
<1>9. ProgressIsMined'
  BY <1>2, <1>7 DEF ProgressIsMined
<1>10. SignedOnce'
  BY <1>2, <1>3, <1>4 DEF SignedOnce
<1>11. NoncesInOrder'
  <2>1. \A t \in threads : t.n <= count'
    BY <1>2 DEF NoncesInOrder, TypeOK, Tx
  <2>2. \A m \in mined' : m[1].n < count'
    BY <1>1, <1>2, <1>5
  <2>3. \A m1, m2 \in mined' : m1[1].n = m2[1].n => m1 = m2
    BY <1>1, <1>2, <1>5 DEF NoncesInOrder
  <2> QED
    BY <1>2, <1>3, <2>1, <2>2, <2>3 DEF NoncesInOrder
<1>12. OutcomesAreTrue'
  BY <1>1, <1>2, <1>4, <1>7 DEF OutcomesAreTrue
<1> QED
  BY <1>6, <1>8, <1>9, <1>10, <1>11, <1>12

\* A pending transaction goes, by itself or with the nonce it bears.
LEMMA DropInd ==
    ASSUME IndInv, Drop \/ ForeignTx PROVE IndInv'
<1> USE DEF IndInv
<1>1. /\ mempool' \subseteq mempool
      /\ count' = count \/ mempool' = {}
      /\ count' \in Nat /\ count <= count' /\ foreign' \in 0..MaxForeign
      /\ UNCHANGED <<pc, attempt, nonce, kind, amount, outcome, unsure, threads,
                     mined, base, quote>>
  <2>1. CASE Drop
    BY <2>1 DEF Drop, execVars, TypeOK
  <2>2. CASE ForeignTx
    BY <2>2, BoundsAssumption DEF ForeignTx, execVars, TypeOK, NoncesInOrder
  <2> QED
    BY <2>1, <2>2
<1>2. Known' \subseteq Known
  BY <1>1 DEF Known
<1>3. \A n \in Nat : (n <= count => n <= count') /\ (n < count => n < count')
  BY <1>1 DEF TypeOK
<1>4. TypeOK'
  BY <1>1 DEF TypeOK
<1>5. UNCHANGED <<SentKinds, MyTx>> /\ \A a, k : Succeeded(a, k)' <=> Succeeded(a, k)
  BY <1>1 DEF SentKinds, MyTx, Succeeded
<1>6. InHand'
  BY <1>1, <1>2, <1>3, <1>5 DEF InHand, TypeOK
<1>7. ProgressIsMined' /\ OutcomesAreTrue'
  BY <1>1, <1>2, <1>5 DEF ProgressIsMined, OutcomesAreTrue
<1>8. SignedOnce'
  BY <1>1, <1>2 DEF SignedOnce
<1>9. NoncesInOrder'
  <2>1. \A tx \in threads : tx.n \in Nat
    BY DEF TypeOK, Tx
  <2>2. \A m \in mined : m[1].n \in Nat
    BY MinedPairs DEF Tx
  <2> QED
    BY <1>1, <1>3, <2>1, <2>2 DEF NoncesInOrder
<1> QED
  BY <1>4, <1>6, <1>7, <1>8, <1>9

-----------------------------------------------------------------------------
(* Every step preserves the invariant.                                     *)
LEMMA NextInd == IndInv /\ [Next]_vars => IndInv'
<1> SUFFICES ASSUME IndInv, [Next]_vars PROVE IndInv'
  OBVIOUS
<1>1. CASE ReceiptRaises
  BY <1>1, ExceptInd DEF ReceiptRaises
<1>2. CASE UNCHANGED vars
  <2>1. UNCHANGED <<Known, SentKinds, MyTx>> /\ \A a, k : Succeeded(a, k)' <=> Succeeded(a, k)
    BY <1>2 DEF Known, SentKinds, MyTx, Succeeded, vars, execVars, chainVars
  <2> QED
    BY <1>2, <2>1 DEF IndInv, TypeOK, InHand, ProgressIsMined, SignedOnce, NoncesInOrder,
                      OutcomesAreTrue, vars, execVars, chainVars
<1> QED
  BY <1>1, <1>2, BeginInd, ReadInd, SendAcceptedInd, SendRaisesInd, ReceiptInd,
     CancelledInd, CrashInd, ThreadSendsInd, MineInd, DropInd
     DEF Next, ExecStep, Over

(***************************************************************************)
(* The invariant holds of every behaviour of the executor and the chain.   *)
(***************************************************************************)
THEOREM Invariance == Spec => []IndInv
<1> QED
  BY InitInd, NextInd, PTL DEF Spec

(***************************************************************************)
(* Every variable keeps its type.                                          *)
(***************************************************************************)
THEOREM TypeCorrect == Spec => []TypeOK
<1>1. IndInv => TypeOK
  BY DEF IndInv
<1> QED
  BY <1>1, Invariance, PTL

(***************************************************************************)
(* The wallet never has two transactions in flight, nor one that waits for *)
(* another: every pending transaction bears the next nonce.                *)
(***************************************************************************)
THEOREM OneAtATime == Spec => []OneInFlight
<1>1. ASSUME IndInv PROVE OneInFlight
  <2>1. \A tx \in mempool : tx.n = count
    BY <1>1 DEF IndInv, NoncesInOrder
  <2>2. CASE mempool = {}
    <3>1. Cardinality({}) = 0
      BY FS_EmptySet
    <3> QED
      BY <2>1, <2>2, <3>1 DEF OneInFlight
  <2>3. CASE mempool # {}
    <3>1. PICK tx \in mempool : mempool = {tx}
      BY <1>1, <2>3 DEF IndInv, NoncesInOrder
    <3>2. Cardinality({tx}) = 1
      BY FS_Singleton
    <3> QED
      BY <2>1, <3>1, <3>2 DEF OneInFlight
  <2> QED
    BY <2>2, <2>3
<1> QED
  BY <1>1, Invariance, PTL

\* What a result says of the chain follows from the invariant.
LEMMA ResultsOfInd ==
    ASSUME IndInv PROVE ResultsAreTrue
<1> SUFFICES ASSUME NEW a \in Attempts, outcome[a] = "fail", a \notin unsure,
                    NEW k \in {"loan", "sell"}, Succeeded(a, k)
             PROVE  FALSE
  BY DEF IndInv, OutcomesAreTrue, ResultsAreTrue
<1>1. PICK m \in mined : m[2] /\ m[1].by = a /\ m[1].kind = k
  BY DEF Succeeded
<1>2. <<m[1], FALSE>> \in mined
  BY <1>1 DEF IndInv, OutcomesAreTrue, Known
<1>3. m[1] = <<m[1], FALSE>>[1] /\ <<m[1], FALSE>>[2] = FALSE
  OBVIOUS
<1>4. m = <<m[1], FALSE>>
  BY <1>2, <1>3 DEF IndInv, NoncesInOrder
<1> QED
  BY <1>1, <1>3, <1>4

(***************************************************************************)
(* A success went through, with both swaps of the trade, and a failure did *)
(* not, unless the attempt had lost track of a transaction of its own.     *)
(***************************************************************************)
THEOREM TrueResults == Spec => []ResultsAreTrue
<1>1. IndInv => ResultsAreTrue
  BY ResultsOfInd
<1> QED
  BY <1>1, Invariance, PTL

(***************************************************************************)
(* An attempt spends its base amount at most once, whatever the chain and  *)
(* the threads left over by cancelled attempts do.                         *)
(***************************************************************************)
THEOREM NoDoubleBuy == Spec => []BuysOnce
<1>1. ASSUME IndInv PROVE BuysOnce
  <2> SUFFICES ASSUME NEW m1 \in mined, NEW m2 \in mined,
                      m1[1].by = m2[1].by, m1[1].kind = m2[1].kind
               PROVE  m1 = m2
    BY DEF BuysOnce
  <2>1. m1[1] = m2[1]
    BY <1>1 DEF IndInv, SignedOnce, Known
  <2> QED
    BY <1>1, <2>1 DEF IndInv, NoncesInOrder
<1> QED
  BY <1>1, Invariance, PTL
=============================================================================
