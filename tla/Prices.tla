------------------------------- MODULE Prices -------------------------------
(***************************************************************************)
(* util/prices.py: what a token is worth in USD.  A price is asked of the  *)
(* chain and kept for CACHE_TTL_SEC in a cache that all the workers of the *)
(* process share.  The call is synchronous: the event loop stands still    *)
(* until it returns, so one lookup is under way at most.                   *)
(*                                                                         *)
(* Only the ages count: how long an entry of the cache still has to live,  *)
(* and how long ago a token had a price.                                   *)
(***************************************************************************)
EXTENDS Naturals

CONSTANTS
    Routed,     \* the tokens of _USD_ROUTES, USDC left out
    Rates,      \* what one token may be worth; a price of 0 would be kept like these
    TTL,        \* CACHE_TTL_SEC
    CallTime    \* how long a call may take: HTTP_TIMEOUT_SEC

ASSUME PricesAssumption ==
    /\ "USDC" \notin Routed
    /\ Rates \subseteq Nat \ {0}
    /\ TTL \in Nat
    /\ CallTime \in 0..TTL

VARIABLES
    rate,   \* what each token is worth now
    ago,    \* how long ago each token was worth each price, up to TTL + 1
    cache,  \* _CACHE: {} or {[price, left]} of each token
    call    \* {} or {[token, spent, got]}, the call under way: the time since
            \* "now" was read, and the price the node has found (0: none yet)

priceVars == <<rate, ago, cache, call>>

PriceTypeOK ==
    /\ rate \in [Routed -> Rates]
    /\ ago \in [Routed -> [Rates -> 0..(TTL + 1)]]
    /\ cache \in [Routed -> SUBSET [price : Rates, left : 1..TTL]]
    /\ call \in SUBSET [token : Routed, spent : 0..CallTime, got : Rates \cup {0}]

PriceInit ==
    /\ rate \in [Routed -> Rates]
    /\ ago = [t \in Routed |-> [p \in Rates |-> IF p = rate[t] THEN 0 ELSE TTL + 1]]
    /\ cache = [t \in Routed |-> {}]
    /\ call = {}

-----------------------------------------------------------------------------
(* get_usd_price                                                           *)

\* Entries that have not expired; the expired are taken for absent.
Good(E) == {e \in E : e.left > 0}

\* No entry that is still good: the chain is asked.
Ask(t) ==
    /\ t \in Routed
    /\ cache[t] = {}
    /\ call = {}
    /\ call' = {[token |-> t, spent |-> 0, got |-> 0]}
    /\ UNCHANGED <<rate, ago, cache>>

\* The node runs the quote, at some moment of the call.
NodeReads(t) ==
    /\ \E c \in call :
          /\ c.token = t
          /\ c.got = 0
          /\ call' = {[c EXCEPT !.got = rate[t]]}
    /\ UNCHANGED <<rate, ago, cache>>

\* Mutant of Entry: the entry lives from the answer on.
EntryFromAnswer(c) == [price |-> c.got, left |-> TTL]

\* What the cache keeps of an answer: "now" was read before the call.
Entry(c) == [price |-> c.got, left |-> TTL - c.spent]

\* get_usd_price returns p: USDC is worth 1; else the cache, or the answer.
Returns(t, p) ==
    \/ /\ t = "USDC"
       /\ p = 1
       /\ UNCHANGED priceVars
    \/ /\ t \in Routed
       /\ call = {}
       /\ \E e \in cache[t] : p = e.price
       /\ UNCHANGED priceVars
    \/ /\ t \in Routed
       /\ \E c \in call :
             /\ c.token = t
             /\ c.got # 0
             /\ p = c.got
             /\ cache' = [cache EXCEPT ![t] = Good({Entry(c)})]
       /\ call' = {}
       /\ UNCHANGED <<rate, ago>>

\* get_usd_price returns None: no route, or the call failed, however far it got.
ReturnsNone(t) ==
    \/ /\ t \notin Routed \cup {"USDC"}
       /\ UNCHANGED priceVars
    \/ /\ \E c \in call : c.token = t
       /\ call' = {}
       /\ UNCHANGED <<rate, ago, cache>>

-----------------------------------------------------------------------------
(* The clock and the market                                                *)

Older(n) == IF n > TTL THEN n ELSE n + 1

Tick ==
    /\ \A c \in call : c.spent < CallTime
    /\ ago' = [t \in Routed |->
                  [p \in Rates |-> IF p = rate[t] THEN 0 ELSE Older(ago[t][p])]]
    /\ cache' = [t \in Routed |->
                    Good({[e EXCEPT !.left = @ - 1] : e \in cache[t]})]
    /\ call' = {[c EXCEPT !.spent = @ + 1] : c \in call}
    /\ UNCHANGED rate

RateMoves ==
    /\ \E t \in Routed, p \in Rates :
          /\ rate' = [rate EXCEPT ![t] = p]
          /\ ago' = [ago EXCEPT ![t][p] = 0]
    /\ UNCHANGED <<cache, call>>

\* Why prices are fresh: an entry is dropped before its price has been out of
\* date for TTL, and the answer of a call is no older than the call.
PricesInv ==
    /\ PriceTypeOK
    /\ \A t \in Routed : ago[t][rate[t]] = 0
    /\ \A t \in Routed : \A e \in cache[t] : ago[t][e.price] + e.left <= TTL
    /\ \A c \in call : c.got # 0 => ago[c.token][c.got] <= c.spent

\* How old a price is that get_usd_price returns.
AgeOf(t, p) == IF t \in Routed THEN ago[t][p] ELSE 0
=============================================================================
