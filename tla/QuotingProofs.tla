--------------------------- MODULE QuotingProofs ----------------------------
(***************************************************************************)
(* Theorems about Quoting, for any list of DEXes with any aliases, any     *)
(* adapters and any number of pools.                                       *)
(***************************************************************************)
EXTENDS Quoting, TLAPS

-----------------------------------------------------------------------------
(* Names and adapters                                                      *)

\* The list without its aliases names no adapter twice.
LEMMA QuotersDiffer ==
    ASSUME NEW m \in Quoters, NEW n \in Quoters, canonical[m] = canonical[n]
    PROVE  m = n
<1>1. /\ m = CHOOSE o \in Names : canonical[o] = canonical[m]
      /\ n = CHOOSE o \in Names : canonical[o] = canonical[n]
  BY DEF Quoters
<1> QED
  BY <1>1

LEMMA QuotersAreNames == Quoters \subseteq Names
BY DEF Quoters

\* What is found out is a yes or a no.
LEMMA FindingGives ==
    ASSUME NEW n PROVE Finding(n) \in {"yes", "no"}
BY DEF Finding

\* Where a thread begins.
LEMMA FirstStepGives ==
    ASSUME TypeOK, NEW n \in Names, NEW D \in Directions
    PROVE  /\ FirstStep(n, D) \in {"ask", "support", "done"}
           /\ FirstStep(n, D) = "support" =>
                 canonical[n] \in Gated /\ cache[<<canonical[n], D>>] = "unknown"
           /\ FirstStep(n, D) = "done" =>
                 canonical[n] \in Gated /\ cache[<<canonical[n], D>>] = "no"
<1>1. cache[<<canonical[n], D>>] \in {"unknown", "yes", "no"}
  BY NamesAssumption DEF TypeOK
<1>2. CASE canonical[n] \notin Gated
  <2>1. FirstStep(n, D) = "ask"
    BY <1>2, Zenon DEF FirstStep
  <2> QED
    BY <2>1
<1>3. CASE canonical[n] \in Gated /\ cache[<<canonical[n], D>>] = "unknown"
  <2>1. FirstStep(n, D) = "support"
    BY <1>3, Zenon DEF FirstStep
  <2> QED
    BY <1>3, <2>1
<1>4. CASE canonical[n] \in Gated /\ cache[<<canonical[n], D>>] = "yes"
  <2>1. FirstStep(n, D) = "ask"
    BY <1>4, Zenon DEF FirstStep
  <2> QED
    BY <2>1
<1>5. CASE canonical[n] \in Gated /\ cache[<<canonical[n], D>>] = "no"
  <2>1. FirstStep(n, D) = "done"
    BY <1>5, Zenon DEF FirstStep
  <2> QED
    BY <1>5, <2>1
<1> QED
  BY <1>1, <1>2, <1>3, <1>4, <1>5

-----------------------------------------------------------------------------
(* The inductive invariant                                                 *)

\* The initial states satisfy the invariant.
LEMMA InitInd == Init => IndInv
<1> SUFFICES ASSUME Init PROVE IndInv
  OBVIOUS
<1>1. TypeOK
  <2>1. trouble \in BOOLEAN
    BY DEF Init
  <2>2. best \in [Names -> 0..MaxOut]
    BY PoolsAssumption DEF Init
  <2> QED
    BY <2>1, <2>2, QuotersAreNames DEF Init, TypeOK, Directions
<1>2. FilterAlone /\ AdaptersApart /\ QuotersOnly /\ BestHeard /\ EveryPoolAsked
  BY DEF Init, FilterAlone, AdaptersApart, QuotersOnly, BestHeard, EveryPoolAsked
<1> QED
  BY <1>1, <1>2 DEF IndInv

\* Whatever the adapters find out, it is found out once.
LEMMA RememberOnce ==
    ASSUME IndInv, NEW n \in Names, Supports(n) = "unknown", Remember(n)
    PROVE  /\ cache' \in [Adapters \X Directions -> {"unknown", "yes", "no"}]
           /\ cache'[<<canonical[n], direction>>] = Finding(n)
           /\ \A k \in Adapters \X Directions :
                 cache[k] # "unknown" => cache'[k] = cache[k]
           /\ \A m \in Names : canonical[m] # canonical[n] =>
                 cache'[<<canonical[m], direction>>] = cache[<<canonical[m], direction>>]
           /\ \A m \in Names : Supports(m) # "unknown" =>
                 cache'[<<canonical[m], direction>>] = cache[<<canonical[m], direction>>]
<1>1. /\ cache \in [Adapters \X Directions -> {"unknown", "yes", "no"}]
      /\ direction \in Directions
      /\ cache' = [cache EXCEPT ![<<canonical[n], direction>>] = Finding(n)]
      /\ \A m \in Names : canonical[m] \in Adapters
  BY NamesAssumption DEF IndInv, TypeOK, Remember
<1> QED
  BY <1>1, FindingGives DEF Supports

\* What the filter keeps are names out of the list without its aliases.
LEMMA KeepsQuoters ==
    ASSUME IndInv, NEW n \in todo, NEW answer, Keep(n, answer)
    PROVE  /\ todo' \in SUBSET Names /\ usable' \in SUBSET Names
           /\ QuotersOnly'
BY QuotersAreNames DEF IndInv, TypeOK, QuotersOnly, Quoters, Keep

\* The filter decides without asking.
LEMMA FilterDecidesInd ==
    ASSUME IndInv, NEW n \in Names, FilterKnown(n) \/ FilterTable(n)
    PROVE  IndInv'
<1>1. /\ pc = "filter" /\ n \in todo /\ QuotersOnly'
      /\ todo' \in SUBSET Names /\ usable' \in SUBSET Names
      /\ UNCHANGED <<pc, direction, pending, thread, left, heard, best, listed, trouble>>
  BY KeepsQuoters DEF FilterKnown, FilterTable, threadVars
<1>2. cache' \in [Adapters \X Directions -> {"unknown", "yes", "no"}]
  BY RememberOnce DEF FilterKnown, FilterTable, IndInv, TypeOK
<1>3. TypeOK'
  BY <1>1, <1>2 DEF IndInv, TypeOK
<1>4. \A m \in Names : thread'[m] = "idle"
  BY <1>1 DEF IndInv, FilterAlone
<1>5. FilterAlone' /\ AdaptersApart' /\ EveryPoolAsked'
  BY <1>1, <1>4 DEF FilterAlone, AdaptersApart, EveryPoolAsked
<1>6. BestHeard'
  BY <1>1 DEF IndInv, BestHeard
<1> QED
  BY <1>1, <1>3, <1>5, <1>6 DEF IndInv

\* The event loop asks, with no thread beside it.
LEMMA FilterAsksInd ==
    ASSUME IndInv, NEW n \in Names, FilterAsks(n)
    PROVE  IndInv'
<1>1. /\ pc = "filter" /\ pc' = "blocked" /\ n \in todo /\ Supports(n) = "unknown"
      /\ thread' = [thread EXCEPT ![n] = "support"]
      /\ UNCHANGED <<direction, pending, todo, usable, left, heard, best, cache, listed, trouble>>
  BY DEF FilterAsks
<1>2. /\ thread \in [Names -> {"idle", "support", "ask", "done"}]
      /\ \A m \in Names : thread[m] = "idle"
  BY <1>1 DEF IndInv, TypeOK, FilterAlone
<1>3. \A m \in Names : thread'[m] = IF m = n THEN "support" ELSE "idle"
  BY <1>1, <1>2
<1>4. TypeOK'
  BY <1>1, <1>2 DEF IndInv, TypeOK
<1>5. FilterAlone' /\ EveryPoolAsked'
  BY <1>1, <1>3 DEF FilterAlone, EveryPoolAsked
<1>6. AdaptersApart'
  BY <1>1, <1>3 DEF AdaptersApart, Supports
<1>7. BestHeard' /\ QuotersOnly'
  BY <1>1 DEF IndInv, BestHeard, QuotersOnly, Quoters
<1> QED
  BY <1>4, <1>5, <1>6, <1>7 DEF IndInv

\* The answer ends the event loop's wait.
LEMMA ChainAnswersLoopInd ==
    ASSUME IndInv, NEW n \in Names, ChainAnswersLoop(n)
    PROVE  IndInv'
<1>1. /\ pc = "blocked" /\ pc' = "filter" /\ thread[n] = "support"
      /\ thread' = [thread EXCEPT ![n] = "idle"]
      /\ Keep(n, Finding(n)) /\ Remember(n)
      /\ UNCHANGED <<direction, pending, left, heard, best, listed, trouble>>
  BY DEF ChainAnswersLoop
<1>2. /\ thread \in [Names -> {"idle", "support", "ask", "done"}] /\ n \in todo
      /\ \A m \in Names \ {n} : thread[m] = "idle"
      /\ Supports(n) = "unknown"
  BY <1>1 DEF IndInv, TypeOK, FilterAlone, AdaptersApart
<1>3. \A m \in Names : thread'[m] = "idle"
  BY <1>1, <1>2
<1>4. TypeOK' /\ QuotersOnly'
  <2>1. /\ todo' \in SUBSET Names /\ usable' \in SUBSET Names /\ QuotersOnly'
        /\ cache' \in [Adapters \X Directions -> {"unknown", "yes", "no"}]
    BY <1>1, <1>2, KeepsQuoters, RememberOnce
  <2> QED
    BY <1>1, <1>2, <2>1 DEF IndInv, TypeOK
<1>5. FilterAlone' /\ AdaptersApart' /\ EveryPoolAsked'
  BY <1>1, <1>3 DEF FilterAlone, AdaptersApart, EveryPoolAsked
<1>6. BestHeard'
  BY <1>1 DEF IndInv, BestHeard
<1> QED
  BY <1>4, <1>5, <1>6 DEF IndInv

\* The threads of a gather use different adapters.
LEMMA GatherInd ==
    ASSUME IndInv, NEW D \in Directions, NEW N \in SUBSET Names, Gather(D, N),
           \A m, n \in N : canonical[m] = canonical[n] => m = n,
           pc' \in {"gather", "fees"}, pending' \in SUBSET Names,
           UNCHANGED <<todo, usable, cache, listed, trouble>>
    PROVE  IndInv'
<1>1. /\ direction' = D
      /\ thread' = [n \in Names |-> IF n \in N THEN FirstStep(n, D) ELSE "idle"]
      /\ left' = [n \in Names |-> IF n \in N THEN Pools ELSE {}]
      /\ heard' = [n \in Names |-> {}]
      /\ best' = [n \in Names |-> 0]
  BY DEF Gather
<1>2. TypeOK
  BY DEF IndInv
<1>3. TypeOK'
  <2>1. thread' \in [Names -> {"idle", "support", "ask", "done"}]
    BY <1>1, <1>2, FirstStepGives
  <2>2. best' \in [Names -> 0..MaxOut]
    BY <1>1, PoolsAssumption
  <2>3. left' \in [Names -> SUBSET Pools] /\ heard' \in [Names -> SUBSET (1..MaxOut)]
    BY <1>1
  <2> QED
    BY <1>1, <1>2, <2>1, <2>2, <2>3 DEF TypeOK
<1>4. FilterAlone'
  BY DEF FilterAlone
<1>5. \A n \in Names : thread'[n] # "idle" => n \in N /\ thread'[n] = FirstStep(n, D)
  BY <1>1
<1>6. AdaptersApart'
  <2> SUFFICES ASSUME NEW n \in Names, thread'[n] = "support"
               PROVE  /\ Supports(n)' = "unknown"
                      /\ canonical[n] \in Gated
                      /\ \A m \in Names \ {n} :
                            thread'[m] = "support" => canonical[m] # canonical[n]
    BY DEF AdaptersApart
  <2>1. n \in N /\ FirstStep(n, D) = "support"
    BY <1>5
  <2>2. Supports(n)' = "unknown" /\ canonical[n] \in Gated
    BY <1>1, <1>2, <2>1, FirstStepGives DEF Supports
  <2> QED
    BY <1>5, <2>1, <2>2
<1>7. EveryPoolAsked'
  BY <1>1, <1>2, <1>5, FirstStepGives DEF EveryPoolAsked, Supports
<1>8. BestHeard' /\ QuotersOnly'
  BY <1>1 DEF IndInv, BestHeard, QuotersOnly, Quoters
<1> QED
  BY <1>3, <1>4, <1>6, <1>7, <1>8 DEF IndInv

\* A thread finds out whether its adapter has a pool.
LEMMA ThreadSupportsInd ==
    ASSUME IndInv, NEW n \in Names, ThreadSupports(n)
    PROVE  IndInv'
<1>1. /\ pc \in {"gather", "fees"} /\ thread[n] = "support" /\ Remember(n)
      /\ thread' = [thread EXCEPT ![n] = IF Finding(n) = "yes" THEN "ask" ELSE "done"]
      /\ UNCHANGED <<pc, direction, pending, todo, usable, left, heard, best, listed, trouble>>
  BY DEF ThreadSupports, workerVars
<1>2. /\ thread \in [Names -> {"idle", "support", "ask", "done"}]
      /\ Supports(n) = "unknown" /\ canonical[n] \in Gated
      /\ \A m \in Names \ {n} : thread[m] = "support" => canonical[m] # canonical[n]
  BY <1>1 DEF IndInv, TypeOK, AdaptersApart
<1>3. /\ thread'[n] \in {"ask", "done"}
      /\ thread'[n] = "done" => Finding(n) = "no"
      /\ \A m \in Names \ {n} : thread'[m] = thread[m]
  BY <1>1, <1>2, FindingGives
<1>4. TypeOK'
  <2>1. cache' \in [Adapters \X Directions -> {"unknown", "yes", "no"}]
    BY <1>1, <1>2, RememberOnce
  <2>2. thread' \in [Names -> {"idle", "support", "ask", "done"}]
    BY <1>1, <1>2
  <2> QED
    BY <1>1, <2>1, <2>2 DEF IndInv, TypeOK
<1>5. FilterAlone' /\ QuotersOnly' /\ BestHeard'
  BY <1>1 DEF IndInv, FilterAlone, QuotersOnly, Quoters, BestHeard
<1>6. AdaptersApart'
  <2> SUFFICES ASSUME NEW m \in Names, thread'[m] = "support"
               PROVE  /\ Supports(m)' = "unknown"
                      /\ canonical[m] \in Gated
                      /\ \A o \in Names \ {m} :
                            thread'[o] = "support" => canonical[o] # canonical[m]
    BY DEF AdaptersApart
  <2>1. m # n /\ thread[m] = "support" /\ canonical[m] # canonical[n]
    BY <1>2, <1>3
  <2>2. /\ Supports(m) = "unknown" /\ canonical[m] \in Gated
        /\ \A o \in Names \ {m} : thread[o] = "support" => canonical[o] # canonical[m]
    BY <1>1, <2>1 DEF IndInv, AdaptersApart
  <2>3. Supports(m)' = Supports(m)
    BY <1>1, <1>2, <2>1, RememberOnce DEF Supports
  <2> QED
    BY <1>3, <2>2, <2>3
<1>7. EveryPoolAsked'
  <2> SUFFICES ASSUME NEW m \in Names, thread'[m] = "done"
               PROVE  left'[m] = {} \/ (canonical[m] \in Gated /\ Supports(m)' = "no")
    BY DEF EveryPoolAsked
  <2>1. CASE m = n
    BY <1>1, <1>2, <1>3, <2>1, RememberOnce DEF Supports
  <2>2. CASE m # n
    <3>1. left[m] = {} \/ (canonical[m] \in Gated /\ Supports(m) = "no")
      BY <1>3, <2>2 DEF IndInv, EveryPoolAsked
    <3>2. Supports(m) = "no" => Supports(m)' = "no"
      BY <1>1, <1>2, RememberOnce DEF Supports
    <3> QED
      BY <1>1, <3>1, <3>2
  <2> QED
    BY <2>1, <2>2
<1> QED
  BY <1>4, <1>5, <1>6, <1>7 DEF IndInv

\* The best answer stays the best with one more.
LEMMA PoolAnswersInd ==
    ASSUME IndInv, NEW n \in Names, PoolAnswers(n)
    PROVE  IndInv'
<1>1. PICK p \in left[n], out \in 1..MaxOut :
         /\ left' = [left EXCEPT ![n] = left[n] \ {p}]
         /\ heard' = [heard EXCEPT ![n] = heard[n] \cup {out}]
         /\ best' = [best EXCEPT ![n] = Better(out, best[n])]
  BY DEF PoolAnswers
<1>2. /\ thread[n] = "ask"
      /\ UNCHANGED <<pc, direction, pending, todo, usable, thread, cache, listed, trouble>>
  BY DEF PoolAnswers, workerVars
<1>3. /\ left \in [Names -> SUBSET Pools] /\ heard \in [Names -> SUBSET (1..MaxOut)]
      /\ best \in [Names -> 0..MaxOut] /\ MaxOut \in Nat
  BY PoolsAssumption DEF IndInv, TypeOK
<1>4. /\ Better(out, best[n]) \in {out, best[n]} /\ Better(out, best[n]) \in 0..MaxOut
      /\ out <= Better(out, best[n]) /\ best[n] <= Better(out, best[n])
  BY <1>3 DEF Better
<1>5. TypeOK'
  <2>1. /\ left' \in [Names -> SUBSET Pools] /\ heard' \in [Names -> SUBSET (1..MaxOut)]
        /\ best' \in [Names -> 0..MaxOut]
    BY <1>1, <1>3, <1>4
  <2> QED
    BY <1>2, <2>1 DEF IndInv, TypeOK
<1>6. FilterAlone' /\ AdaptersApart' /\ QuotersOnly'
  BY <1>2 DEF IndInv, FilterAlone, AdaptersApart, Supports, QuotersOnly, Quoters
<1>7. EveryPoolAsked'
  BY <1>1, <1>2, <1>3 DEF IndInv, EveryPoolAsked, Supports
<1>8. BestHeard'
  <2> SUFFICES ASSUME NEW m \in Names
               PROVE  /\ best'[m] \in heard'[m] \cup {0}
                      /\ \A o \in heard'[m] : o <= best'[m]
    BY DEF BestHeard
  <2>1. best[m] \in heard[m] \cup {0} /\ \A o \in heard[m] : o <= best[m]
    BY DEF IndInv, BestHeard
  <2>2. CASE m = n
    <3>1. heard'[m] = heard[m] \cup {out} /\ best'[m] = Better(out, best[m])
      BY <1>1, <1>3, <2>2
    <3>2. \A o \in heard[m] : o \in Nat
      BY <1>3
    <3> QED
      BY <1>3, <1>4, <2>1, <2>2, <3>1, <3>2
  <2>3. CASE m # n
    BY <1>1, <1>3, <2>1, <2>3
  <2> QED
    BY <2>2, <2>3
<1> QED
  BY <1>5, <1>6, <1>7, <1>8 DEF IndInv

\* A pool fails, and the others are asked; or none is left to ask.
LEMMA QuoteEndsInd ==
    ASSUME IndInv, NEW n \in Names, PoolFails(n) \/ QuoteReturns(n)
    PROVE  IndInv'
<1>1. /\ thread[n] = "ask"
      /\ UNCHANGED <<pc, direction, pending, todo, usable, heard, best, cache, listed, trouble>>
      /\ \/ UNCHANGED thread /\ \E p \in left[n] : left' = [left EXCEPT ![n] = left[n] \ {p}]
         \/ UNCHANGED left /\ left[n] = {} /\ thread' = [thread EXCEPT ![n] = "done"]
  BY DEF PoolFails, QuoteReturns, workerVars
<1>2. /\ thread \in [Names -> {"idle", "support", "ask", "done"}]
      /\ left \in [Names -> SUBSET Pools]
  BY DEF IndInv, TypeOK
<1>3. TypeOK'
  <2>1. thread' \in [Names -> {"idle", "support", "ask", "done"}]
    BY <1>1, <1>2
  <2>2. left' \in [Names -> SUBSET Pools]
    BY <1>1, <1>2
  <2> QED
    BY <1>1, <2>1, <2>2 DEF IndInv, TypeOK
<1>4. \A m \in Names : /\ thread'[m] = "support" <=> thread[m] = "support"
                       /\ thread'[m] = "done" => thread[m] = "done" \/ (m = n /\ left'[n] = {})
                       /\ thread[m] = "done" => left'[m] = left[m]
  BY <1>1, <1>2
<1>5. FilterAlone'
  BY <1>1, <1>2 DEF IndInv, FilterAlone
<1>6. AdaptersApart'
  BY <1>1, <1>4 DEF IndInv, AdaptersApart, Supports
<1>7. EveryPoolAsked'
  BY <1>1, <1>4 DEF IndInv, EveryPoolAsked, Supports
<1>8. QuotersOnly' /\ BestHeard'
  BY <1>1 DEF IndInv, QuotersOnly, Quoters, BestHeard
<1> QED
  BY <1>3, <1>5, <1>6, <1>7, <1>8 DEF IndInv

\* A round begins with no thread.
LEMMA NextRoundInd ==
    ASSUME IndInv, NextRound PROVE IndInv'
<1>1. /\ pc' = "filter" /\ direction' = "forward" /\ pending' = {} /\ todo' = Quoters
      /\ usable' = {} /\ thread' = [n \in Names |-> "idle"]
      /\ UNCHANGED <<left, heard, best, cache, listed, trouble>>
  BY DEF NextRound
<1>2. TypeOK'
  BY <1>1, QuotersAreNames DEF IndInv, TypeOK, Directions
<1>3. FilterAlone' /\ AdaptersApart' /\ EveryPoolAsked'
  BY <1>1 DEF FilterAlone, AdaptersApart, EveryPoolAsked
<1>4. QuotersOnly' /\ BestHeard'
  BY <1>1 DEF IndInv, QuotersOnly, Quoters, BestHeard
<1> QED
  BY <1>2, <1>3, <1>4 DEF IndInv

\* The gathers are of names that differ in their adapters, or of one name.
LEMMA GathersInd ==
    ASSUME IndInv, ForwardQuotes \/ ReverseQuotes \/ FeeQuote
    PROVE  IndInv'
<1>1. pending \in SUBSET Names /\ usable \in SUBSET Names /\ usable \subseteq Quoters
  BY DEF IndInv, TypeOK, QuotersOnly
<1>2. CASE ForwardQuotes
  <2>1. \A m, n \in usable : canonical[m] = canonical[n] => m = n
    BY <1>1, QuotersDiffer
  <2> QED
    BY <1>1, <1>2, <2>1, GatherInd DEF ForwardQuotes, Directions
<1>3. CASE ReverseQuotes
  <2>1. pending' \in SUBSET Names
    BY <1>1, <1>3 DEF ReverseQuotes, Forward, Quoted
  <2>2. /\ Quoters \in SUBSET Names
        /\ \A m, n \in Quoters : canonical[m] = canonical[n] => m = n
    BY QuotersAreNames, QuotersDiffer
  <2> QED
    BY <1>3, <2>1, <2>2, GatherInd DEF ReverseQuotes, Directions
<1>4. CASE FeeQuote
  <2>1. PICK n \in Names : Gather("reverse", {n})
    BY <1>4 DEF FeeQuote
  <2> QED
    BY <1>1, <1>4, <2>1, GatherInd DEF FeeQuote, Directions
<1> QED
  BY <1>2, <1>3, <1>4

\* Every step keeps the invariant.
LEMMA NextInd == IndInv /\ [Next]_vars => IndInv'
<1> SUFFICES ASSUME IndInv, [Next]_vars PROVE IndInv'
  OBVIOUS
<1>1. ASSUME NEW n \in Names,
             \/ FilterKnown(n) \/ FilterTable(n) \/ FilterAsks(n) \/ ChainAnswersLoop(n)
             \/ ThreadSupports(n) \/ PoolAnswers(n) \/ PoolFails(n) \/ QuoteReturns(n)
      PROVE  IndInv'
  BY <1>1, FilterDecidesInd, FilterAsksInd, ChainAnswersLoopInd, ThreadSupportsInd,
     PoolAnswersInd, QuoteEndsInd
<1>2. CASE TroubleToggles \/ UNCHANGED vars
  <2>1. UNCHANGED <<workerVars, threadVars, cache, listed>> /\ trouble' \in BOOLEAN
    BY <1>2 DEF TroubleToggles, vars, IndInv, TypeOK
  <2> QED
    BY <2>1 DEF workerVars, threadVars, IndInv, TypeOK, FilterAlone, AdaptersApart,
                Supports, QuotersOnly, Quoters, BestHeard, EveryPoolAsked
<1> QED
  BY <1>1, <1>2, GathersInd, NextRoundInd DEF Next

-----------------------------------------------------------------------------
(* Theorems                                                                *)

\* The inductive invariant of Quoting: no adapter is asked by two threads at
\* once whether it has a pool.
THEOREM Invariance == Spec => []IndInv
BY InitInd, NextInd, PTL DEF Spec

\* Every variable keeps its type.
THEOREM TypeCorrect == Spec => []TypeOK
<1>1. IndInv => TypeOK
  BY DEF IndInv
<1> QED
  BY <1>1, Invariance, PTL

\* A quote that has returned is the best of what the adapter's pools answered,
\* and every pool was asked, unless the adapter has none (quote, _best_quote).
THEOREM BestQuoted == Spec => []BestOfAnswers
<1>1. IndInv => BestOfAnswers
  <2> SUFFICES ASSUME IndInv, NEW n \in Names, thread[n] = "done"
               PROVE  /\ best[n] = Max(heard[n] \cup {0})
                      /\ left[n] = {} \/ (canonical[n] \in Gated /\ Supports(n) = "no")
    BY DEF BestOfAnswers
  <2>1. /\ heard[n] \in SUBSET Nat /\ best[n] \in Nat
    <3>1. heard[n] \in SUBSET (1..MaxOut) /\ best[n] \in 0..MaxOut
      BY DEF IndInv, TypeOK
    <3> QED
      BY <3>1, PoolsAssumption
  <2> DEFINE S == heard[n] \cup {0}
             b == best[n]
  <2>2. b \in S /\ S \subseteq Nat /\ \A y \in S : b >= y
    BY <2>1 DEF IndInv, BestHeard
  <2> HIDE DEF S, b
  <2>3. Max(S) \in S /\ \A y \in S : Max(S) >= y
    BY <2>2 DEF Max
  <2>4. b = Max(S)
    <3>1. b >= Max(S) /\ Max(S) >= b /\ b \in Nat /\ Max(S) \in Nat
      BY <2>2, <2>3
    <3> QED
      BY <3>1
  <2> QED
    BY <2>4 DEF S, b, IndInv, EveryPoolAsked
<1> QED
  BY <1>1, Invariance, PTL

\* What an adapter has found out about a direction never changes, for no
\* thread asks what another has remembered (supports_pair, _supports_cache).
THEOREM FoundOutOnce == Spec => SupportIsFinal
<1> DEFINE Final == \A k \in Adapters \X Directions :
                       cache[k] # "unknown" => cache'[k] = cache[k]
<1>1. IndInv /\ [Next]_vars => [Final]_cache
  <2> SUFFICES ASSUME IndInv, Next, cache' # cache PROVE Final
    BY DEF vars
  <2>1. PICK n \in Names : FilterTable(n) \/ ChainAnswersLoop(n) \/ ThreadSupports(n)
    BY DEF Next, FilterKnown, FilterAsks, PoolAnswers, PoolFails, QuoteReturns,
           ForwardQuotes, ReverseQuotes, FeeQuote, NextRound, TroubleToggles
  <2>2. Supports(n) = "unknown" /\ Remember(n)
    BY <2>1 DEF FilterTable, ChainAnswersLoop, ThreadSupports, IndInv, AdaptersApart
  <2> QED
    BY <2>2, RememberOnce
<1> QED
  BY <1>1, Invariance, PTL DEF Spec, SupportIsFinal
=============================================================================
