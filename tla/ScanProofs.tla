----------------------------- MODULE ScanProofs -----------------------------
(***************************************************************************)
(* Theorems about Scan, for any finite set of DEXes and any number of      *)
(* listed pairs.                                                           *)
(***************************************************************************)
EXTENDS Scan, FiniteSetTheorems, TLAPS

-----------------------------------------------------------------------------
(* Lemmas about batches and the three nested loops                         *)

\* A batch is finite, and no larger than the list of DEXes.
LEMMA BatchSize ==
    ASSUME NEW R \in SUBSET Dexes
    PROVE  /\ Cardinality(R) \in Nat
           /\ Cardinality(Dexes) \in Nat
           /\ Cardinality(R) <= Cardinality(Dexes)
           /\ \A d \in R : Cardinality(R \ {d}) + 1 = Cardinality(R)
<1>1. IsFiniteSet(Dexes) /\ IsFiniteSet(R) /\ Cardinality(R) <= Cardinality(Dexes)
  BY DexesAssumption, FS_Subset
<1>2. Cardinality(R) \in Nat /\ Cardinality(Dexes) \in Nat
  BY <1>1, FS_CardinalityType
<1>3. ASSUME NEW d \in R PROVE Cardinality(R \ {d}) + 1 = Cardinality(R)
  <2>1. Cardinality(R \ {d}) = Cardinality(R) - 1
    BY <1>1, FS_RemoveElement
  <2> QED
    BY <1>2, <2>1
<1> QED
  BY <1>1, <1>2, <1>3

\* The loop over the pairs returns, or goes on only without a stop.
LEMMA NextPairStep ==
    ASSUME TypeOK, NextPair
    PROVE  /\ left' \in 0..MaxPairs
           /\ pc' \in {"returned", "filter"}
           /\ pc' # "returned" => ~stopEvent
BY MaxPairsAssumption DEF NextPair, TypeOK

\* So does the loop over the forward quotes.
LEMMA NextForwardStep ==
    ASSUME TypeOK, NEW F \in SUBSET Dexes, NextForward(F)
    PROVE  /\ left' \in 0..MaxPairs
           /\ fwd' \in SUBSET Dexes
           /\ pc' \in {"returned", "filter", "reverse"}
           /\ pc' # "returned" => ~stopEvent
BY NextPairStep DEF NextForward, TypeOK

\* The loop over the reverse quotes does not look at the stop event, but takes
\* one quote from the batch.
LEMMA NextReverseStep ==
    ASSUME TypeOK, NEW R \in SUBSET Dexes, NextReverse(R)
    PROVE  /\ left' \in 0..MaxPairs
           /\ fwd' \in SUBSET Dexes
           /\ rev' \in SUBSET Dexes
           /\ \/ /\ pc' = "fees"
                 /\ Cardinality(rev') + 1 = Cardinality(R)
              \/ /\ pc' \in {"returned", "filter", "reverse"}
                 /\ rev' = {}
                 /\ pc' # "returned" => ~stopEvent
<1>1. CASE R = {}
  BY <1>1, NextForwardStep DEF NextReverse, TypeOK
<1>2. CASE R # {}
  <2>1. PICK d \in R : rev' = R \ {d} /\ pc' = "fees" /\ UNCHANGED <<left, fwd>>
    BY <1>2 DEF NextReverse
  <2> QED
    BY <2>1, BatchSize DEF TypeOK
<1> QED
  BY <1>1, <1>2

-----------------------------------------------------------------------------
(* The inductive invariant                                                 *)

\* The initial states satisfy the invariant.
LEMMA InitInd == Init => IndInv
<1> SUFFICES ASSUME Init PROVE IndInv
  OBVIOUS
<1>1. TypeOK /\ OwedInHand
  <2>1. "gas" \in PCs /\ MaxPairs \in 0..MaxPairs
    BY MaxPairsAssumption DEF PCs
  <2>2. 0 \in Nat /\ 0 # 1
    OBVIOUS
  <2>3. TypeOK
    BY <2>1, <2>2, Zenon DEF Init, TypeOK
  <2> QED
    BY <2>3 DEF Init, OwedInHand, ExecPCs
<1>2. StopBudget
  BY BatchSize DEF Init, StopBudget, WeighingPCs, TypeOK
<1> QED
  BY <1>1, <1>2 DEF IndInv

\* Before there is a batch nothing is counted, so the stop costs nothing.
LEMMA QuoteStepInd ==
    ASSUME IndInv, GasPrice \/ NoteGas \/ Filter \/ NotePair \/ Forward \/ Reverse
    PROVE  IndInv'
<1> USE DEF IndInv
<1>1. /\ UNCHANGED <<stopEvent, configVars, tallyVars>>
      /\ noted' \in SUBSET Keys /\ usable' \in SUBSET Dexes
      /\ owed = 0 /\ afterStop = 0
      /\ left' \in 0..MaxPairs /\ fwd' \in SUBSET Dexes /\ rev' \in SUBSET Dexes
      /\ pc' \in {"returned", "filter", "forward", "reverse", "fees",
                  "note_gas", "note_pair"}
      /\ pc' = "fees" => Cardinality(rev') + 1 <= Cardinality(Dexes)
  <2> USE DEF TypeOK, Keys, noteVars, tallyVars
  <2>1. CASE GasPrice
    BY <2>1, NextPairStep DEF GasPrice, Mark, OwedInHand, ExecPCs, StopBudget
  <2>2. CASE NoteGas
    BY <2>2, NextPairStep DEF NoteGas, OwedInHand, ExecPCs, StopBudget
  <2>3. CASE Filter
    BY <2>3, NextPairStep DEF Filter, AskForward, Mark, OwedInHand, ExecPCs, StopBudget
  <2>4. CASE NotePair
    BY <2>4, NextPairStep DEF NotePair, AskForward, OwedInHand, ExecPCs, StopBudget
  <2>5. CASE Forward
    BY <2>5, NextForwardStep DEF Forward, Mark, OwedInHand, ExecPCs, StopBudget
  <2>6. CASE Reverse
    <3>1. PICK R \in SUBSET Dexes : NextReverse(R)
      BY <2>6 DEF Reverse
    <3>2. Cardinality(R) <= Cardinality(Dexes)
      BY BatchSize
    <3> QED
      BY <2>6, <3>1, <3>2, NextReverseStep DEF Reverse, OwedInHand, ExecPCs, StopBudget
  <2> QED
    BY <2>1, <2>2, <2>3, <2>4, <2>5, <2>6
<1>2. TypeOK'
  BY <1>1 DEF TypeOK, PCs, NotePCs, ExecPCs, EndPCs, configVars, tallyVars
<1>3. OwedInHand'
  BY <1>1 DEF OwedInHand, ExecPCs, tallyVars
<1>4. StopBudget'
  BY <1>1, BatchSize DEF StopBudget, WeighingPCs, tallyVars
<1> QED
  BY <1>2, <1>3, <1>4

(***************************************************************************)
(* The steps after which the batch goes on: with the quote in hand used up *)
(* the budget allows the next.                                             *)
(***************************************************************************)
LEMMA NextQuoteInd ==
    ASSUME IndInv, NextReverse(rev), owed' = 0,
           UNCHANGED <<stopEvent, configVars, usable, afterStop>>,
           noted' \in SUBSET Keys
    PROVE  IndInv'
<1> USE DEF IndInv
<1>1. rev \in SUBSET Dexes
  BY DEF TypeOK
<1>2. TypeOK'
  BY <1>1, NextReverseStep DEF TypeOK, PCs, NotePCs, ExecPCs, EndPCs, configVars
<1>3. OwedInHand'
  BY <1>1, NextReverseStep DEF OwedInHand, ExecPCs
<1>4. StopBudget'
  <2>1. Cardinality({}) = 0
    BY FS_EmptySet
  <2>2. afterStop + Cardinality(rev) <= Cardinality(Dexes)
    BY <1>1, BatchSize DEF StopBudget, TypeOK
  <2>3. /\ afterStop \in Nat /\ Cardinality(Dexes) \in Nat
        /\ Cardinality(rev) \in Nat /\ Cardinality(rev') \in Nat
    BY <1>1, <1>2, BatchSize DEF TypeOK
  <2>4. CASE pc' = "fees" /\ Cardinality(rev') + 1 = Cardinality(rev)
    BY <2>2, <2>3, <2>4 DEF StopBudget, WeighingPCs
  <2>5. CASE /\ pc' \in {"returned", "filter", "reverse"} /\ rev' = {}
             /\ pc' # "returned" => ~stopEvent
    <3>1. /\ pc' # "returned" => afterStop' = 0
          /\ ~stopEvent' => afterStop' = 0
      BY <2>5, Zenon DEF StopBudget
    <3>2. afterStop' + Cardinality(rev') <= Cardinality(Dexes) /\ pc' \notin WeighingPCs
      BY <2>1, <2>2, <2>3, <2>5 DEF WeighingPCs
    <3> QED
      BY <2>3, <2>5, <3>1, <3>2 DEF StopBudget
  <2> QED
    BY <1>1, <2>4, <2>5, NextReverseStep
<1> QED
  BY <1>2, <1>3, <1>4

\* The steps within one opportunity.
LEMMA SameQuoteInd ==
    ASSUME IndInv, UNCHANGED <<stopEvent, configVars, quoteVars>>,
           noted' \in SUBSET Keys,
           \/ /\ pc \in WeighingPCs
              /\ pc' \in WeighingPCs \cup {"key_log", "unexecuted"}
              /\ afterStop' = afterStop
           \/ /\ pc = "exec_log" /\ pc' = "execute"
              /\ afterStop' = IF stopEvent THEN afterStop + 1 ELSE afterStop
           \/ /\ pc' \in {"unexecuted", "record", "report"}
              /\ pc \in {"key_log", "execute", "record"}
              /\ afterStop' = afterStop,
           owed' = IF pc' \in (ExecPCs \ {"report"}) \cup {"unexecuted"} THEN 1 ELSE 0
    PROVE  IndInv'
<1> USE DEF IndInv, quoteVars
<1>1. TypeOK'
  BY DEF TypeOK, PCs, NotePCs, ExecPCs, WeighingPCs, configVars
<1>2. OwedInHand'
  BY DEF OwedInHand
<1>3. StopBudget'
  <2>1. Cardinality(rev) \in Nat /\ Cardinality(Dexes) \in Nat /\ afterStop \in Nat
    BY BatchSize DEF TypeOK
  <2> QED
    BY <2>1 DEF StopBudget, WeighingPCs
<1> QED
  BY <1>1, <1>2, <1>3

\* Weighing a round trip, and announcing it.
LEMMA WeighInd ==
    ASSUME IndInv, Fees \/ NoteFees \/ Announce
    PROVE  IndInv'
<1> USE DEF IndInv
<1>1. owed = 0 /\ pc \in WeighingPCs
  BY DEF Fees, NoteFees, Announce, WeighingPCs, OwedInHand, ExecPCs
<1>2. noted' \in SUBSET Keys
  BY DEF Fees, NoteFees, Announce, Mark, TypeOK, Keys, noteVars
<1>3. CASE Fees
  BY <1>1, <1>2, <1>3, NextQuoteInd, SameQuoteInd
     DEF Fees, Weigh, tallyVars, quoteVars, WeighingPCs, ExecPCs
<1>4. CASE NoteFees
  BY <1>1, <1>2, <1>4, NextQuoteInd, SameQuoteInd
     DEF NoteFees, Weigh, tallyVars, quoteVars, WeighingPCs, ExecPCs
<1>5. CASE Announce
  BY <1>1, <1>2, <1>5, NextQuoteInd, SameQuoteInd
     DEF Announce, NotExecuted, quoteVars, WeighingPCs, ExecPCs
<1> QED
  BY <1>3, <1>4, <1>5

\* Executing an opportunity and posting its record.
LEMMA ExecuteInd ==
    ASSUME IndInv,
           \/ WalletKey \/ KeyLogged \/ BeginExecution \/ Execute \/ Record
           \/ Report \/ RecordUnexecuted
    PROVE  IndInv'
<1> USE DEF IndInv
<1>1. owed = IF pc = "report" THEN 0 ELSE 1
  BY DEF WalletKey, KeyLogged, BeginExecution, Execute, Record, Report,
         RecordUnexecuted, OwedInHand, ExecPCs
<1>2. noted' \in SUBSET Keys
  BY DEF WalletKey, KeyLogged, BeginExecution, Execute, Record, Report,
         RecordUnexecuted, TypeOK, noteVars
<1>3. CASE WalletKey
  BY <1>1, <1>2, <1>3, NextQuoteInd, SameQuoteInd
     DEF WalletKey, NotExecuted, quoteVars, WeighingPCs, ExecPCs
<1>4. CASE KeyLogged
  BY <1>1, <1>2, <1>4, NextQuoteInd, SameQuoteInd
     DEF KeyLogged, NotExecuted, quoteVars, WeighingPCs, ExecPCs
<1>5. CASE BeginExecution \/ Execute \/ Record
  BY <1>1, <1>2, <1>5, SameQuoteInd
     DEF BeginExecution, Execute, Record, tallyVars, WeighingPCs, ExecPCs
<1>6. CASE Report \/ RecordUnexecuted
  BY <1>1, <1>2, <1>6, NextQuoteInd DEF Report, RecordUnexecuted, tallyVars
<1> QED
  BY <1>3, <1>4, <1>5, <1>6

\* The ways out of a scan, and the new one.
LEMMA EndInd ==
    ASSUME IndInv,
           Raise \/ NewScan \/ NewWorker \/ Stop \/ BeCancelled \/ UNCHANGED vars
    PROVE  IndInv'
<1> USE DEF IndInv, Raise, NewScan, NewWorker, Stop, BeCancelled, vars, configVars,
            quoteVars, noteVars, tallyVars
<1>1. TypeOK'
  <2>1. {"gas", "raised", "cancelled"} \subseteq PCs /\ MaxPairs \in 0..MaxPairs
    BY MaxPairsAssumption DEF PCs, EndPCs
  <2>0. 0 \in Nat
    OBVIOUS
  <2>2. CASE Raise \/ Stop \/ BeCancelled \/ UNCHANGED vars
    BY <2>1, <2>2, Zenon DEF TypeOK
  <2>3. CASE NewScan \/ NewWorker
    BY <2>0, <2>1, <2>3, Zenon DEF TypeOK
  <2> QED
    BY <2>2, <2>3
<1>2. OwedInHand'
  BY DEF OwedInHand, NotePCs, ExecPCs, EndPCs
<1>3. StopBudget'
  <2>1. /\ Cardinality(rev) \in Nat /\ Cardinality(Dexes) \in Nat
        /\ Cardinality(rev') \in Nat /\ Cardinality(rev') <= Cardinality(Dexes)
        /\ afterStop \in Nat
    BY <1>1, BatchSize DEF TypeOK
  <2> QED
    BY <2>1 DEF StopBudget, WeighingPCs, EndPCs, NotePCs
<1> QED
  BY <1>1, <1>2, <1>3

\* Every step preserves the invariant.
LEMMA NextInd == IndInv /\ [Next]_vars => IndInv'
BY QuoteStepInd, WeighInd, ExecuteInd, EndInd DEF Next, ScanStep, Over

(***************************************************************************)
(* The invariant holds of every behaviour of a worker's scans.             *)
(***************************************************************************)
THEOREM Invariance == Spec => []IndInv
<1> QED
  BY InitInd, NextInd, PTL DEF Spec

(***************************************************************************)
(* Every variable keeps its type.                                          *)
(***************************************************************************)
THEOREM TypeCorrect == Spec => []TypeOK
<1>1. IndInv => TypeOK
  BY DEF IndInv
<1> QED
  BY <1>1, Invariance, PTL

(***************************************************************************)
(* However the stop event comes, at most one batch is executed after it.   *)
(***************************************************************************)
THEOREM StopBoundsExecutions == Spec => []FewExecutionsAfterStop
<1>1. ASSUME IndInv PROVE FewExecutionsAfterStop
  <2>1. Cardinality(rev) \in Nat /\ Cardinality(Dexes) \in Nat /\ afterStop \in Nat
    BY <1>1, BatchSize DEF IndInv, TypeOK
  <2> QED
    BY <1>1, <2>1 DEF IndInv, StopBudget, FewExecutionsAfterStop
<1> QED
  BY <1>1, Invariance, PTL

(***************************************************************************)
(* No event is owed twice, nor outside the calls that may still post it.   *)
(***************************************************************************)
THEOREM Accounted == Spec => []EveryOpportunityAccounted
<1>1. IndInv => EveryOpportunityAccounted
  BY DEF IndInv, OwedInHand, EveryOpportunityAccounted, ExecPCs
<1> QED
  BY <1>1, Invariance, PTL
=============================================================================
