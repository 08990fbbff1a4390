------------------------------ MODULE Quoting -------------------------------
(***************************************************************************)
(* How one worker gets its quotes for a pair: the filter by supports_pair, *)
(* which runs on the event loop, the gather of the forward quotes, for     *)
(* each of them the gather of the reverse quotes, every quote in a thread  *)
(* of its own, and the quotes the fees are estimated with, one at a time;  *)
(* round after round with the same adapters.                               *)
(*                                                                         *)
(* An adapter remembers, for each direction of the pair, whether it has a  *)
(* pool; it asks the chain the first time.  A quote is the best answer of  *)
(* the adapter's pools (or fee tiers); a pool that fails is passed over.   *)
(* The chain's node may be in trouble for a while: its calls then raise.   *)
(* The fees' quotes are from WETH to the base token: the pair's reverse    *)
(* direction when it is quoted in WETH, which is the case modelled.        *)
(***************************************************************************)
EXTENDS Naturals, FiniteSets, FiniteSetsExt

CONSTANTS
    Names,     \* the entries of settings.dex_list
    Adapters,  \* the quoters of create_quoters
    canonical, \* [Names -> Adapters]: canonical_dex_name and the registry
    Gated,     \* the adapters that ask supports_pair before each quote
    Static,    \* the adapters whose supports_pair is a look-up in a table
    Pools,     \* the pools, or fee tiers, of an adapter
    MaxOut     \* the largest amount a pool answers with

ASSUME NamesAssumption    == canonical \in [Names -> Adapters]
ASSUME AdaptersAssumption == Gated \subseteq Adapters /\ Static \subseteq Adapters
ASSUME PoolsAssumption    == IsFiniteSet(Pools) /\ MaxOut \in Nat

Directions == {"forward", "reverse"}

VARIABLES
    pc,        \* of the worker: "filter", "blocked" (in a call of the chain
               \* that the event loop itself waits for), "gather" or "fees"
    direction,
    pending,   \* forward quotes that wait for their reverse quotes
    todo,      \* names the filter has not looked at
    usable,    \* valid_quoters
    thread,    \* [Names -> where the thread of the quote is]
    left,      \* [Names -> pools it has not asked]
    heard,     \* [Names -> amounts its pools have answered with]
    best,      \* [Names -> best_amount; 0 for None]
    cache,     \* [Adapters \X Directions -> _supports_cache]
    listed,    \* the adapters that do have a pool for the pair
    trouble    \* calls of the chain raise

workerVars == <<pc, direction, pending, todo, usable>>
threadVars == <<thread, left, heard, best>>
vars       == <<workerVars, threadVars, cache, listed, trouble>>

TypeOK ==
    /\ pc \in {"filter", "blocked", "gather", "fees"}
    /\ direction \in Directions
    /\ pending \in SUBSET Names
    /\ todo \in SUBSET Names
    /\ usable \in SUBSET Names
    /\ thread \in [Names -> {"idle", "support", "ask", "done"}]
    /\ left \in [Names -> SUBSET Pools]
    /\ heard \in [Names -> SUBSET (1..MaxOut)]
    /\ best \in [Names -> 0..MaxOut]
    /\ cache \in [Adapters \X Directions -> {"unknown", "yes", "no"}]
    /\ listed \in SUBSET Adapters
    /\ trouble \in BOOLEAN

\* Mutant of Quoters: aliases of one DEX are not told from different DEXes.
QuotersTwice == Names

\* One name for each DEX in the list: seen_keys passes over its aliases.
Quoters == {n \in Names : n = CHOOSE m \in Names : canonical[m] = canonical[n]}

Supports(n) == cache[<<canonical[n], direction>>]

Init ==
    /\ pc = "filter"
    /\ direction = "forward"
    /\ pending = {}
    /\ todo = Quoters
    /\ usable = {}
    /\ thread = [n \in Names |-> "idle"]
    /\ left = [n \in Names |-> {}]
    /\ heard = [n \in Names |-> {}]
    /\ best = [n \in Names |-> 0]
    /\ cache = [k \in Adapters \X Directions |-> "unknown"]
    /\ listed \in SUBSET Adapters
    /\ trouble \in BOOLEAN

-----------------------------------------------------------------------------
(* supports_pair                                                           *)

\* Mutant of Finding: supports_pair remembers the exception.
FindingRaises(n) ==
    IF canonical[n] \notin Static /\ trouble THEN "error"
    ELSE IF canonical[n] \in listed THEN "yes" ELSE "no"

\* What _supports_pair finds; supports_pair makes an exception a "no".
Finding(n) == IF canonical[n] \in listed /\ (canonical[n] \in Static \/ ~trouble)
                THEN "yes" ELSE "no"

Remember(n) == cache' = [cache EXCEPT ![<<canonical[n], direction>>] = Finding(n)]

Keep(n, answer) ==
    /\ todo' = todo \ {n}
    /\ usable' = IF answer = "yes" THEN usable \cup {n} ELSE usable

\* The filter of _collect_forward_quotes: a remembered answer, or a look-up.
FilterKnown(n) ==
    /\ pc = "filter"
    /\ n \in todo
    /\ Supports(n) # "unknown"
    /\ Keep(n, Supports(n))
    /\ UNCHANGED <<pc, direction, pending, threadVars, cache, listed, trouble>>

FilterTable(n) ==
    /\ pc = "filter"
    /\ n \in todo
    /\ Supports(n) = "unknown"
    /\ canonical[n] \in Static
    /\ Keep(n, Finding(n))
    /\ Remember(n)
    /\ UNCHANGED <<pc, direction, pending, threadVars, listed, trouble>>

\* The chain is asked, not in a thread but on the event loop, which waits.
FilterAsks(n) ==
    /\ pc = "filter"
    /\ n \in todo
    /\ Supports(n) = "unknown"
    /\ canonical[n] \notin Static
    /\ pc' = "blocked"
    /\ thread' = [thread EXCEPT ![n] = "support"]
    /\ UNCHANGED <<direction, pending, todo, usable, left, heard, best, cache, listed, trouble>>

ChainAnswersLoop(n) ==
    /\ pc = "blocked"
    /\ thread[n] = "support"
    /\ pc' = "filter"
    /\ thread' = [thread EXCEPT ![n] = "idle"]
    /\ Keep(n, Finding(n))
    /\ Remember(n)
    /\ UNCHANGED <<direction, pending, left, heard, best, listed, trouble>>

-----------------------------------------------------------------------------
(* The quotes                                                              *)

(***************************************************************************)
(* The threads of a gather begin: a gated adapter looks at its cache, and  *)
(* asks the chain when that knows nothing; the others ask their pools.     *)
(***************************************************************************)
FirstStep(n, D) ==
    LET known == cache[<<canonical[n], D>>] IN
    IF canonical[n] \notin Gated THEN "ask"
    ELSE CASE known = "unknown" -> "support"
           [] known = "yes"     -> "ask"
           [] known = "no"      -> "done"

Gather(D, N) ==
    /\ direction' = D
    /\ thread' = [n \in Names |-> IF n \in N THEN FirstStep(n, D) ELSE "idle"]
    /\ left' = [n \in Names |-> IF n \in N THEN Pools ELSE {}]
    /\ heard' = [n \in Names |-> {}]
    /\ best' = [n \in Names |-> 0]

ForwardQuotes ==
    /\ pc = "filter"
    /\ todo = {}
    /\ pc' = "gather"
    /\ Gather("forward", usable)
    /\ UNCHANGED <<pending, todo, usable, cache, listed, trouble>>

ThreadSupports(n) ==
    /\ pc \in {"gather", "fees"}
    /\ thread[n] = "support"
    /\ Remember(n)
    /\ thread' = [thread EXCEPT ![n] = IF Finding(n) = "yes" THEN "ask" ELSE "done"]
    /\ UNCHANGED <<workerVars, left, heard, best, listed, trouble>>

\* Mutant of Better: the last answer wins.
LaterWins(new, old) == new

\* amount_out > best_amount, or the first amount.
Better(new, old) == IF new > old THEN new ELSE old

\* A pool answers.
PoolAnswers(n) ==
    /\ thread[n] = "ask"
    /\ ~trouble
    /\ canonical[n] \in listed
    /\ \E p \in left[n], out \in 1..MaxOut :
          /\ left' = [left EXCEPT ![n] = @ \ {p}]
          /\ heard' = [heard EXCEPT ![n] = @ \cup {out}]
          /\ best' = [best EXCEPT ![n] = Better(out, @)]
    /\ UNCHANGED <<workerVars, thread, cache, listed, trouble>>

\* Mutant of PoolFails: a pool that fails ends the quote.
PoolFailsForAll(n) ==
    /\ thread[n] = "ask"
    /\ left[n] # {}
    /\ thread' = [thread EXCEPT ![n] = "done"]
    /\ UNCHANGED <<workerVars, left, heard, best, cache, listed, trouble>>

\* A pool does not exist, has no liquidity, answers 0, or its call raises.
PoolFails(n) ==
    /\ thread[n] = "ask"
    /\ \E p \in left[n] : left' = [left EXCEPT ![n] = @ \ {p}]
    /\ UNCHANGED <<workerVars, thread, heard, best, cache, listed, trouble>>

QuoteReturns(n) ==
    /\ thread[n] = "ask"
    /\ left[n] = {}
    /\ thread' = [thread EXCEPT ![n] = "done"]
    /\ UNCHANGED <<workerVars, left, heard, best, cache, listed, trouble>>

-----------------------------------------------------------------------------
(* From one gather to the next                                             *)

GatherOver ==
    /\ pc \in {"gather", "fees"}
    /\ \A n \in Names : thread[n] \in {"idle", "done"}

Quoted == {n \in Names : best[n] > 0}

\* The forward quotes that still wait for their reverse quotes.
Forward == IF direction = "forward" THEN Quoted ELSE pending

\* One forward quote and the reverse quotes for it, of the whole list.
ReverseQuotes ==
    /\ GatherOver
    /\ \E n \in Forward : pending' = Forward \ {n}
    /\ pc' = "gather"
    /\ Gather("reverse", Quoters)
    /\ UNCHANGED <<todo, usable, cache, listed, trouble>>

(***************************************************************************)
(* _estimate_fees_in_base, called for every reverse quote: the names in    *)
(* their order, aliases included, until one has a quote.                   *)
(***************************************************************************)
FeeQuote ==
    /\ GatherOver
    /\ direction = "reverse"
    /\ pc = "fees" \/ Quoted # {}
    /\ pc' = "fees"
    /\ \E n \in Names : Gather("reverse", {n})
    /\ UNCHANGED <<pending, todo, usable, cache, listed, trouble>>

(***************************************************************************)
(* The round is over, or the post of a log_once has failed: the filter's   *)
(* for a name it passed over, or the one that no fees could be estimated.  *)
(***************************************************************************)
RoundOver ==
    \/ GatherOver /\ Forward = {}
    \/ GatherOver /\ pc = "fees" /\ Quoted = {}
    \/ pc = "filter" /\ Quoters \ (todo \cup usable) # {}

NextRound ==
    /\ RoundOver
    /\ pc' = "filter"
    /\ direction' = "forward"
    /\ pending' = {}
    /\ todo' = Quoters
    /\ usable' = {}
    /\ thread' = [n \in Names |-> "idle"]
    /\ UNCHANGED <<left, heard, best, cache, listed, trouble>>

TroubleToggles ==
    /\ trouble' = ~trouble
    /\ UNCHANGED <<workerVars, threadVars, cache, listed>>

Next ==
    \/ \E n \in Names :
          \/ FilterKnown(n) \/ FilterTable(n) \/ FilterAsks(n)
          \/ ChainAnswersLoop(n)
          \/ ThreadSupports(n) \/ PoolAnswers(n) \/ PoolFails(n) \/ QuoteReturns(n)
    \/ ForwardQuotes \/ ReverseQuotes \/ FeeQuote \/ NextRound
    \/ TroubleToggles

Spec == Init /\ [][Next]_vars

-----------------------------------------------------------------------------
(* Properties                                                              *)

(***************************************************************************)
(* A quote is the best of what the adapter's pools answered, and it is an  *)
(* error only when every pool was asked and none had anything to offer, or *)
(* the adapter has no pool for this direction.                             *)
(***************************************************************************)
BestOfAnswers ==
    \A n \in Names : thread[n] = "done" =>
        /\ best[n] = Max(heard[n] \cup {0})
        /\ left[n] = {} \/ (canonical[n] \in Gated /\ Supports(n) = "no")

(***************************************************************************)
(* What an adapter has found out about a direction of the pair never       *)
(* changes while the worker lives, an answer "no" that was a failing node  *)
(* included.  It rests on no adapter being used by two threads at once.    *)
(***************************************************************************)
SupportIsFinal ==
    [][\A k \in Adapters \X Directions :
          cache[k] # "unknown" => cache'[k] = cache[k]]_cache

(***************************************************************************)
(* The inductive invariant behind the properties: the event loop asks for  *)
(* one adapter while no thread runs, and of two threads that ask whether   *)
(* their adapters have a pool the adapters are different ones.             *)
(***************************************************************************)
FilterAlone ==
    /\ pc = "filter" => \A n \in Names : thread[n] = "idle"
    /\ pc = "blocked" =>
          \A n \in Names : thread[n] # "idle" =>
              /\ thread[n] = "support" /\ n \in todo
              /\ \A m \in Names \ {n} : thread[m] = "idle"

AdaptersApart ==
    \A n \in Names : thread[n] = "support" =>
        /\ Supports(n) = "unknown"
        /\ pc \in {"gather", "fees"} => canonical[n] \in Gated
        /\ \A m \in Names \ {n} :
              thread[m] = "support" => canonical[m] # canonical[n]

QuotersOnly == todo \cup usable \subseteq Quoters

BestHeard ==
    \A n \in Names : /\ best[n] \in heard[n] \cup {0}
                     /\ \A out \in heard[n] : out <= best[n]

EveryPoolAsked ==
    \A n \in Names : thread[n] = "done" =>
        left[n] = {} \/ (canonical[n] \in Gated /\ Supports(n) = "no")

IndInv ==
    /\ TypeOK
    /\ FilterAlone
    /\ AdaptersApart
    /\ QuotersOnly
    /\ BestHeard
    /\ EveryPoolAsked

(***************************************************************************)
(* What worker.py says of the filter: it is "all sync, no network", so the *)
(* event loop, and every other worker with it, never waits for the chain.  *)
(***************************************************************************)
FilterNeedsNoNetwork == pc # "blocked"
=============================================================================
