-------------------------- MODULE RoundTripProofs ---------------------------
(***************************************************************************)
(* Theorems about RoundTrip and Prices, for any DEXes, fee tiers, pools,   *)
(* amounts, prices and times.                                              *)
(***************************************************************************)
EXTENDS RoundTrip, TLAPS

-----------------------------------------------------------------------------
(* Prices                                                                  *)

\* At first every token has its present price, and nothing is cached.
LEMMA PricesInitInd == PriceInit => PricesInv
<1> SUFFICES ASSUME PriceInit PROVE PricesInv
  OBVIOUS
<1>1. ago \in [Routed -> [Rates -> 0..(TTL + 1)]]
  BY PricesAssumption DEF PriceInit
<1> QED
  BY <1>1 DEF PriceInit, PricesInv, PriceTypeOK

\* The steps of a lookup.  The answer of a call is as old as the call at most.
LEMMA LookupInd ==
    ASSUME PricesInv, NEW t \in Routed, Ask(t) \/ NodeReads(t)
    PROVE  PricesInv'
<1> USE PricesAssumption DEF PricesInv, PriceTypeOK
<1>1. CASE Ask(t)
  BY <1>1 DEF Ask
<1>2. CASE NodeReads(t)
  <2>1. PICK c \in call : c.token = t /\ c.got = 0 /\ call' = {[c EXCEPT !.got = rate[t]]}
    BY <1>2 DEF NodeReads
  <2>2. UNCHANGED <<rate, ago, cache>>
    BY <1>2 DEF NodeReads
  <2>3. /\ rate[t] \in Rates /\ ago[t][rate[t]] = 0 /\ c.spent \in 0..CallTime
        /\ [c EXCEPT !.got = rate[t]] = [token |-> t, spent |-> c.spent, got |-> rate[t]]
    BY <2>1
  <2>4. call' = {[token |-> t, spent |-> c.spent, got |-> rate[t]]}
    BY <2>1, <2>3
  <2> QED
    BY <2>2, <2>3, <2>4
<1> QED
  BY <1>1, <1>2

\* What the cache keeps of an answer lives no longer than TTL from the call.
LEMMA ReturnsInd ==
    ASSUME PricesInv, NEW t, NEW p, Returns(t, p)
    PROVE  PricesInv' /\ AgeOf(t, p) \in 0..TTL
<1> USE PricesAssumption DEF PricesInv, PriceTypeOK
<1>1. CASE t = "USDC" /\ p = 1 /\ UNCHANGED priceVars
  BY <1>1 DEF AgeOf, priceVars
<1>2. CASE t \in Routed /\ (\E e \in cache[t] : p = e.price) /\ UNCHANGED priceVars
  <2>1. PICK e \in cache[t] : p = e.price
    BY <1>2
  <2>2. e \in [price : Rates, left : 1..TTL] /\ ago[t][e.price] + e.left <= TTL
    BY <1>2
  <2>3. ago[t][e.price] \in 0..(TTL + 1)
    BY <1>2, <2>2
  <2> QED
    BY <1>2, <2>1, <2>2, <2>3 DEF AgeOf, priceVars
<1>3. CASE /\ t \in Routed
           /\ \E c \in call :
                 /\ c.token = t
                 /\ c.got # 0
                 /\ p = c.got
                 /\ cache' = [cache EXCEPT ![t] = Good({Entry(c)})]
           /\ call' = {}
           /\ UNCHANGED <<rate, ago>>
  <2>1. PICK c \in call : /\ c.token = t /\ c.got # 0 /\ p = c.got
                          /\ cache' = [cache EXCEPT ![t] = Good({Entry(c)})]
    BY <1>3
  <2>2. /\ c.got \in Rates /\ c.spent \in 0..CallTime
        /\ ago[t][c.got] \in 0..(TTL + 1) /\ ago[t][c.got] <= c.spent
    BY <1>3, <2>1
  <2>3. \A e \in Good({Entry(c)}) : /\ e \in [price : Rates, left : 1..TTL]
                                    /\ ago[t][e.price] + e.left <= TTL
    BY <2>2 DEF Good, Entry
  <2>4. cache' \in [Routed -> SUBSET [price : Rates, left : 1..TTL]]
    BY <2>1, <2>3
  <2>5. \A u \in Routed : \A e \in cache'[u] : ago[u][e.price] + e.left <= TTL
    BY <1>3, <2>1, <2>3
  <2>6. ago[t][c.got] \in 0..TTL /\ AgeOf(t, p) = ago[t][c.got]
    BY <1>3, <2>1, <2>2 DEF AgeOf
  <2> QED
    BY <1>3, <2>4, <2>5, <2>6
<1> QED
  BY <1>1, <1>2, <1>3 DEF Returns

\* A lookup that fails leaves no entry behind.
LEMMA ReturnsNoneInd ==
    ASSUME PricesInv, NEW t, ReturnsNone(t) PROVE PricesInv'
BY DEF PricesInv, PriceTypeOK, ReturnsNone, priceVars

\* Entries, calls and prices age together.
LEMMA TimeInd ==
    ASSUME PricesInv, Tick \/ RateMoves PROVE PricesInv'
<1> USE PricesAssumption DEF PricesInv, PriceTypeOK
<1>1. CASE Tick
  <2>1. \A t \in Routed : \A p \in Rates :
           /\ ago[t][p] \in 0..(TTL + 1)
           /\ ago'[t][p] = IF p = rate[t] THEN 0 ELSE Older(ago[t][p])
    BY <1>1 DEF Tick
  <2>2. \A t \in Routed : \A p \in Rates : /\ ago'[t][p] \in 0..(TTL + 1)
                                           /\ ago'[t][p] <= ago[t][p] + 1
    BY <2>1 DEF Older
  <2>3. ago' \in [Routed -> [Rates -> 0..(TTL + 1)]] /\ rate' = rate
    BY <1>1, <2>1, <2>2 DEF Tick
  <2>4. \A t \in Routed : ago'[t][rate'[t]] = 0
    BY <2>1, <2>3
  <2>5. ASSUME NEW t \in Routed, NEW f \in cache'[t]
        PROVE  f \in [price : Rates, left : 1..TTL] /\ ago'[t][f.price] + f.left <= TTL
    <3>1. PICK e \in cache[t] : f = [e EXCEPT !.left = @ - 1] /\ f.left > 0
      BY <1>1, <2>5 DEF Tick, Good
    <3>2. e.price \in Rates /\ e.left \in 1..TTL /\ f = [price |-> e.price, left |-> e.left - 1]
      BY <3>1
    <3> QED
      BY <2>1, <2>2, <3>1, <3>2
  <2>6. cache' \in [Routed -> SUBSET [price : Rates, left : 1..TTL]]
    BY <1>1, <2>5 DEF Tick
  <2>7. ASSUME NEW d \in call'
        PROVE  /\ d \in [token : Routed, spent : 0..CallTime, got : Rates \cup {0}]
               /\ d.got # 0 => ago'[d.token][d.got] <= d.spent
    <3>1. PICK c \in call : d = [c EXCEPT !.spent = @ + 1] /\ c.spent < CallTime
      BY <1>1, <2>7 DEF Tick
    <3>2. /\ c.token \in Routed /\ c.spent \in 0..CallTime /\ c.got \in Rates \cup {0}
          /\ d = [token |-> c.token, spent |-> c.spent + 1, got |-> c.got]
      BY <3>1
    <3> QED
      BY <2>1, <2>2, <3>1, <3>2
  <2> QED
    BY <2>3, <2>4, <2>5, <2>6, <2>7
<1>2. CASE RateMoves
  <2>1. PICK t \in Routed, p \in Rates : /\ rate' = [rate EXCEPT ![t] = p]
                                         /\ ago' = [ago EXCEPT ![t][p] = 0]
    BY <1>2 DEF RateMoves
  <2>2. \A u \in Routed : \A q \in Rates :
           ago'[u][q] = IF u = t /\ q = p THEN 0 ELSE ago[u][q]
    BY <2>1
  <2>3. UNCHANGED <<cache, call>>
    BY <1>2 DEF RateMoves
  <2>4. ago' \in [Routed -> [Rates -> 0..(TTL + 1)]] /\ rate' \in [Routed -> Rates]
    BY <2>1, <2>2
  <2>5. \A u \in Routed : ago'[u][rate'[u]] = 0
    BY <2>1, <2>2
  <2>6. ASSUME NEW u \in Routed, NEW q \in Rates
        PROVE  ago[u][q] \in Int /\ ago'[u][q] \in Int /\ ago'[u][q] <= ago[u][q]
    <3>1. ago[u][q] \in 0..(TTL + 1)
      OBVIOUS
    <3> QED
      BY <2>2, <3>1
  <2>7. ASSUME NEW u \in Routed, NEW e \in cache[u]
        PROVE  ago'[u][e.price] + e.left <= TTL
    <3>1. e \in [price : Rates, left : 1..TTL] /\ ago[u][e.price] + e.left <= TTL
      BY <2>7
    <3>2. e.price \in Rates /\ e.left \in Int
      BY <3>1
    <3>3. /\ ago[u][e.price] \in Int /\ ago'[u][e.price] \in Int
          /\ ago'[u][e.price] <= ago[u][e.price]
      BY <2>6, <3>2
    <3> HIDE DEF PricesInv, PriceTypeOK
    <3> QED
      BY <3>1, <3>2, <3>3, PricesAssumption
  <2>8. ASSUME NEW c \in call, c.got # 0
        PROVE  ago'[c.token][c.got] <= c.spent
    <3>1. /\ c \in [token : Routed, spent : 0..CallTime, got : Rates \cup {0}]
          /\ ago[c.token][c.got] <= c.spent
      BY <2>8
    <3>2. c.token \in Routed /\ c.spent \in Int /\ c.got \in Rates
      BY <2>8, <3>1
    <3>3. /\ ago[c.token][c.got] \in Int /\ ago'[c.token][c.got] \in Int
          /\ ago'[c.token][c.got] <= ago[c.token][c.got]
      BY <2>6, <3>2
    <3> HIDE DEF PricesInv, PriceTypeOK
    <3> QED
      BY <3>1, <3>2, <3>3
  <2> QED
    BY <2>3, <2>4, <2>5, <2>7, <2>8
<1> QED
  BY <1>1, <1>2

-----------------------------------------------------------------------------
(* Pools                                                                   *)

\* Integer division rounds down.
LEMMA DivRounds ==
    ASSUME NEW x \in Nat, NEW y \in Nat \ {0}
    PROVE  x \div y \in Nat /\ y * (x \div y) <= x /\ x < y * (x \div y) + y
OBVIOUS

LEMMA TimesMonotone ==
    ASSUME NEW x \in Nat, NEW y \in Nat, NEW z \in Nat, x <= y
    PROVE  z * x <= z * y
OBVIOUS

\* A swap takes less than the pool holds of what it pays out.
LEMMA SwapBounds ==
    ASSUME NEW r1 \in Nat \ {0}, NEW r2 \in Nat \ {0}, NEW a \in Nat
    PROVE  Swap(<<r1, r2>>, a) \in Nat /\ Swap(<<r1, r2>>, a) < r2
<1> DEFINE y == r1 + a
           q == (r2 * a) \div y
<1>1. y \in Nat \ {0} /\ a < y /\ r2 * a \in Nat
  OBVIOUS
<1>2. q \in Nat /\ y * q <= r2 * a
  BY <1>1, DivRounds
<1>3. r2 * a < r2 * y
  <2>1. r2 * a + r2 * r1 = r2 * y /\ r2 * r1 > 0
    OBVIOUS
  <2> QED
    BY <1>1, <2>1
<1>4. q < r2
  <2> HIDE DEF y, q
  <2> SUFFICES ASSUME r2 <= q PROVE FALSE
    BY <1>2
  <2>1. y * r2 <= y * q
    BY <1>1, <1>2, TimesMonotone
  <2> QED
    BY <1>1, <1>2, <1>3, <2>1
<1> QED
  BY <1>2, <1>4 DEF Swap

\* What a pool holds is a pair of amounts, in either order.
LEMMA ReservesType ==
    ASSUME NEW m \in Markets, NEW pool \in Pools, NEW side \in {"buy", "sell"}
    PROVE  /\ Reserves(m, pool, side) \in Positive \X Positive
           /\ m[pool] = <<m[pool][1], m[pool][2]>>
           /\ m[pool][1] \in Positive /\ m[pool][2] \in Positive
           /\ Reserves(m, pool, side)
                = <<Reserves(m, pool, side)[1], Reserves(m, pool, side)[2]>>
           /\ Reserves(m, pool, side)[1] \in Positive
           /\ Reserves(m, pool, side)[2] \in Positive
<1>1. m[pool] \in Positive \X Positive
  BY DEF Markets
<1> QED
  BY <1>1 DEF Reserves

\* A swap brings a natural number.
LEMMA SwapType ==
    ASSUME NEW m \in Markets, NEW pool \in Pools, NEW side \in {"buy", "sell"},
           NEW a \in Nat
    PROVE  Swap(Reserves(m, pool, side), a) \in Nat
BY ReservesType, SwapBounds DEF Positive

\* A purchase leaves every pool with something of both tokens, and the others
\* as they were.
LEMMA AfterBuy ==
    ASSUME NEW m \in Markets, NEW pool \in Pools, NEW a \in Nat
    PROVE  /\ After(m, pool, "buy", a) \in Markets
           /\ \A o \in Pools \ {pool} : After(m, pool, "buy", a)[o] = m[o]
<1> DEFINE out == Swap(Reserves(m, pool, "buy"), a)
<1>1. /\ Reserves(m, pool, "buy") = <<m[pool][1], m[pool][2]>>
      /\ m[pool][1] \in Positive /\ m[pool][2] \in Positive
  BY ReservesType DEF Reserves
<1>2. out \in Nat /\ out < m[pool][2]
  BY <1>1, SwapBounds DEF Positive
<1>3. m[pool][1] + a \in Positive /\ m[pool][2] - out \in Positive
  BY <1>1, <1>2 DEF Positive
<1> HIDE DEF out
<1>4. After(m, pool, "buy", a) = [m EXCEPT ![pool] = <<m[pool][1] + a, m[pool][2] - out>>]
  BY DEF After, out
<1> QED
  BY <1>3, <1>4 DEF Markets

\* The divisor is the least that gives the pool something it does not refuse.
LEMMA DivisorIsGood ==
    ASSUME NEW pool, NEW r, NEW a \in Nat \ {0}
    PROVE  \/ Divisor(pool, r, a) = None
           \/ Divisor(pool, r, a) = 1 /\ ~Refuses(pool, r, a)
           \/ Divisor(pool, r, a) \in {10, 100} /\ Refuses(pool, r, a)
<1> DEFINE good == {n \in Divisors : a \div n > 0 /\ ~Refuses(pool, r, a \div n)}
<1>1. a \div 1 = a
  OBVIOUS
<1>2. 1 \in good <=> ~Refuses(pool, r, a)
  BY <1>1 DEF Divisors
<1>3. good \subseteq {1, 10, 100} /\ Divisor(pool, r, a) = IF good = {} THEN None ELSE Min(good)
  BY DEF Divisors, Divisor
<1> HIDE DEF good
<1>4. ASSUME good # {}
      PROVE  Min(good) \in good /\ \A y \in good : Min(good) <= y
  <2>1. \E x \in good : \A y \in good : x <= y
    <3>1. CASE 1 \in good
      BY <1>3, <3>1
    <3>2. CASE 1 \notin good /\ 10 \in good
      BY <1>3, <3>2
    <3>3. CASE 1 \notin good /\ 10 \notin good
      <4>1. PICK x \in good : TRUE
        BY <1>4
      <4>2. \A y \in good : y = 100
        BY <1>3, <3>3
      <4> QED
        BY <4>1, <4>2
    <3> QED
      BY <1>3, <1>4, <3>1, <3>2, <3>3
  <2> QED
    BY <2>1 DEF Min
<1>5. CASE 1 \in good
  <2>1. Min(good) \in {1, 10, 100} /\ Min(good) <= 1
    BY <1>3, <1>4, <1>5
  <2>2. Divisor(pool, r, a) = 1
    BY <1>3, <1>5, <2>1
  <2> QED
    BY <1>2, <1>5, <2>2
<1>6. CASE 1 \notin good
  <2>1. good # {} => Min(good) \in {10, 100}
    BY <1>3, <1>4, <1>6
  <2> QED
    BY <1>2, <1>3, <1>6, <2>1
<1> QED
  BY <1>5, <1>6

\* A quote is a natural number, and one that was not scaled is what the swap
\* brings; a scaled one is of an amount the pool refuses.
LEMMA QuoteTypes ==
    ASSUME NEW m \in Markets, NEW pool \in Pools, NEW side \in {"buy", "sell"},
           NEW a \in Nat \ {0}
    PROVE  /\ PoolQuote(m, pool, side, a) \in Nat
           /\ PoolQuote(m, pool, side, a) > 0 =>
                 IF Scaled(m, pool, side, a)
                   THEN Refuses(pool, Reserves(m, pool, side), a)
                   ELSE /\ ~Refuses(pool, Reserves(m, pool, side), a)
                        /\ PoolQuote(m, pool, side, a) = Swap(Reserves(m, pool, side), a)
<1> DEFINE r == Reserves(m, pool, side)
           n == Divisor(pool, r, a)
<1>1. PoolQuote(m, pool, side, a) = IF n = None THEN 0 ELSE Swap(r, a \div n) * n
  BY DEF PoolQuote
<1>2. Scaled(m, pool, side, a) <=> n # 1
  BY DEF Scaled
<1>3. \/ n = None
      \/ n = 1 /\ ~Refuses(pool, r, a)
      \/ n \in {10, 100} /\ Refuses(pool, r, a)
  BY DivisorIsGood
<1>4. \A b \in Nat : Swap(r, b) \in Nat
  BY SwapType
<1> HIDE DEF n, r
<1>5. CASE n = None
  BY <1>1, <1>5 DEF None
<1>6. CASE n = 1 /\ ~Refuses(pool, r, a)
  <2>1. a \div 1 = a
    OBVIOUS
  <2>2. Swap(r, a) \in Nat
    BY <1>4
  <2>3. PoolQuote(m, pool, side, a) = Swap(r, a)
    BY <1>1, <1>6, <2>1, <2>2 DEF None
  <2> QED
    BY <1>2, <1>6, <2>2, <2>3 DEF r
<1>7. CASE n \in {10, 100} /\ Refuses(pool, r, a)
  <2>1. a \div 10 \in Nat /\ a \div 100 \in Nat
    BY DivRounds
  <2>2. Swap(r, a \div n) \in Nat
    BY <1>4, <1>7, <2>1
  <2>3. PoolQuote(m, pool, side, a) \in Nat
    BY <1>1, <1>7, <2>2 DEF None
  <2> QED
    BY <1>2, <1>7, <2>3 DEF r
<1> QED
  BY <1>3, <1>5, <1>6, <1>7

\* Every pool is of a listed DEX, and the pools the legs name are among them.
LEMMA PoolNames ==
    ASSUME NEW pool \in Pools
    PROVE  pool[1] \in Dexes /\ LegPool(pool[1]) \in Pools
<1>1. PICK d \in Dexes : pool \in PoolsOf(d)
  BY DEF Pools
<1>2. pool[1] = d /\ LegPool(d) \in PoolsOf(d)
  <2>1. CASE d = UniswapV3
    BY <1>1, <2>1, RoundTripAssumption DEF PoolsOf, LegPool
  <2>2. CASE d # UniswapV3
    BY <1>1, <2>2 DEF PoolsOf, LegPool
  <2> QED
    BY <2>1, <2>2
<1> QED
  BY <1>1, <1>2 DEF Pools

\* A pool a DEX answers with is one of its own, with a quote.
LEMMA BestIsQuoted ==
    ASSUME NEW m, NEW d \in Dexes, NEW A \in SUBSET PoolsOf(d), NEW side, NEW a,
           NEW pool \in BestOf(m, A, side, a)
    PROVE  pool \in Pools /\ PoolQuote(m, pool, side, a) > 0
BY DEF BestOf, Pools

-----------------------------------------------------------------------------
(* The inductive invariant                                                 *)

\* The beginnings of an opportunity and of its record.
LEMMA NothingYet ==
    /\ NoTrade \in Trades
    /\ NoResult \in Results
    /\ NoOp \in Ops
    /\ NoMarket \in [Pools -> Nat \X Nat]
<1>1. NoTrade \in Trades
  BY RoundTripAssumption DEF NoTrade, Trades
<1>2. NoResult \in Results
  BY DEF NoResult, Results
<1>3. NoOp \in Ops
  BY DEF NoOp, Ops
<1>4. NoMarket \in [Pools -> Nat \X Nat]
  BY DEF NoMarket
<1> QED
  BY <1>1, <1>2, <1>3, <1>4

\* The initial states satisfy the invariant.
LEMMA InitInd == Init => IndInv
<1> SUFFICES ASSUME Init PROVE IndInv
  OBVIOUS
<1>1. PricesInv
  BY PricesInitInd DEF Init
<1>2. TypeOK
  BY <1>1, NothingYet DEF Init, TypeOK, PCs, PricesInv, NoResult
<1>3. LoanPaysOrReverts
  BY DEF Init, NoResult, LoanPaysOrReverts
<1>4. PricesAreFresh
  BY PricesAssumption DEF Init, NoOp, PricesAreFresh
<1> QED
  BY <1>1, <1>2, <1>3, <1>4 DEF Init, IndInv, QuotesHold, SaleHolds

\* The forward quote is of the market as it is.
LEMMA ForwardInd ==
    ASSUME IndInv, Forward PROVE IndInv'
<1> USE DEF IndInv
<1>1. PICK d \in Dexes : \E A \in SUBSET PoolsOf(d) :
        \E pool \in BestOf(market', A, "buy", Amount) :
           trade' = [NoTrade EXCEPT
                       !.buy = pool,
                       !.bought = PoolQuote(market', pool, "buy", Amount),
                       !.scaled = Scaled(market', pool, "buy", Amount)]
  BY DEF Forward
<1>2. PICK pool \in Pools :
        /\ PoolQuote(market', pool, "buy", Amount) > 0
        /\ trade' = [NoTrade EXCEPT
                       !.buy = pool,
                       !.bought = PoolQuote(market', pool, "buy", Amount),
                       !.scaled = Scaled(market', pool, "buy", Amount)]
  BY <1>1, BestIsQuoted
<1>3. market' \in Markets /\ market' \in [Pools -> Nat \X Nat]
  BY RoundTripAssumption DEF Forward, AnyMarket, Markets, Positive
<1>4. pool \in Pools /\ PoolQuote(market', pool, "buy", Amount) > 0
  BY <1>2
<1>5. PoolQuote(market', pool, "buy", Amount) \in Nat
  BY <1>3, <1>4, QuoteTypes, RoundTripAssumption
<1>6. Scaled(market', pool, "buy", Amount) \in BOOLEAN
  BY DEF Scaled
<1>7. trade' \in Trades
  BY <1>2, <1>4, <1>5, <1>6, NothingYet DEF Trades
<1>8. /\ trade'.buy = pool /\ trade'.bought = PoolQuote(market', pool, "buy", Amount)
      /\ trade'.scaled = Scaled(market', pool, "buy", Amount)
  BY <1>2 DEF NoTrade
<1>9. pc' = "reverse" /\ UNCHANGED <<symbol, still, result, op, priceVars>>
  BY DEF Forward
<1>10. PricesInv'
  BY <1>9 DEF PricesInv, PriceTypeOK, priceVars
<1>11. TypeOK'
  BY <1>3, <1>7, <1>9, <1>10 DEF TypeOK, PCs, PricesInv
<1>12. QuotesHold'
  BY <1>3, <1>4, <1>8, <1>9 DEF QuotesHold, Quoted, ScaledBuy
<1>13. SaleHolds' /\ LoanPaysOrReverts' /\ PricesAreFresh'
  BY <1>9 DEF SaleHolds, LoanPaysOrReverts, PricesAreFresh
<1> QED
  BY <1>10, <1>11, <1>12, <1>13

\* The reverse quote is of the same market, for what the forward one promised.
LEMMA ReverseInd ==
    ASSUME IndInv, Reverse PROVE IndInv'
<1> USE DEF IndInv
<1>1. PICK d \in Dexes : \E A \in SUBSET PoolsOf(d) :
        \E pool \in BestOf(market, A, "sell", trade.bought) :
           trade' = [trade EXCEPT
                       !.sell = pool,
                       !.back = PoolQuote(market, pool, "sell", trade.bought),
                       !.scaled = @ \/ Scaled(market, pool, "sell", trade.bought)]
  BY DEF Reverse
<1>2. PICK pool \in Pools :
        /\ PoolQuote(market, pool, "sell", trade.bought) > 0
        /\ trade' = [trade EXCEPT
                       !.sell = pool,
                       !.back = PoolQuote(market, pool, "sell", trade.bought),
                       !.scaled = @ \/ Scaled(market, pool, "sell", trade.bought)]
  BY <1>1, BestIsQuoted
<1>3. /\ pc = "reverse" /\ pc' = "fees"
      /\ UNCHANGED <<symbol, market, still, result, op, priceVars>>
  BY DEF Reverse
<1>4. /\ market \in Markets /\ trade.bought \in Nat \ {0} /\ trade \in Trades
      /\ Quoted(trade.buy, "buy", Amount, trade.bought)
      /\ still => (trade.scaled <=> ScaledBuy)
  BY <1>3 DEF QuotesHold, Quoted, TypeOK, Trades
<1>5. PoolQuote(market, pool, "sell", trade.bought) \in Nat
  BY <1>4, QuoteTypes
<1>6. (trade.scaled \/ Scaled(market, pool, "sell", trade.bought)) \in BOOLEAN
  BY DEF Scaled
<1>7. /\ trade' \in Trades
      /\ trade'.buy = trade.buy /\ trade'.bought = trade.bought /\ trade'.sell = pool
      /\ trade'.back = PoolQuote(market, pool, "sell", trade.bought)
      /\ trade'.scaled = (trade.scaled \/ Scaled(market, pool, "sell", trade.bought))
  BY <1>2, <1>4, <1>5, <1>6 DEF Trades
<1>8. PricesInv'
  BY <1>3 DEF PricesInv, PriceTypeOK, priceVars
<1>9. TypeOK'
  BY <1>3, <1>7, <1>8 DEF TypeOK, PCs, PricesInv
<1>10. QuotesHold'
  <2>1. Quoted(trade.buy, "buy", Amount, trade.bought)'
    BY <1>3, <1>4, <1>7 DEF Quoted
  <2>2. Quoted(trade.sell, "sell", trade.bought, trade.back)'
    BY <1>2, <1>3, <1>7 DEF Quoted
  <2>3. (still => (trade.scaled <=> ScaledBuy \/ ScaledSell))'
    BY <1>3, <1>4, <1>7 DEF ScaledBuy, ScaledSell
  <2> QED
    BY <1>3, <1>4, <2>1, <2>2, <2>3 DEF QuotesHold
<1>11. SaleHolds' /\ LoanPaysOrReverts' /\ PricesAreFresh'
  BY <1>3 DEF SaleHolds, LoanPaysOrReverts, PricesAreFresh
<1> QED
  BY <1>8, <1>9, <1>10, <1>11

\* An opportunity pays what it has to, with its fees.
LEMMA WeighInd ==
    ASSUME IndInv, Weigh PROVE IndInv'
<1> USE DEF IndInv
<1>1. PICK f \in Fees : Pays(f) /\ trade' = [trade EXCEPT !.fees = f]
  BY DEF Weigh
<1>2. /\ pc = "fees" /\ pc' = "opportunity"
      /\ UNCHANGED <<symbol, market, still, result, op, priceVars>>
  BY DEF Weigh
<1>3. /\ trade' \in Trades /\ trade'.fees = f
      /\ trade'.buy = trade.buy /\ trade'.bought = trade.bought
      /\ trade'.sell = trade.sell /\ trade'.back = trade.back
      /\ trade'.scaled = trade.scaled
  BY <1>1 DEF TypeOK, Trades
<1>4. PricesInv'
  BY <1>2 DEF PricesInv, PriceTypeOK, priceVars
<1>5. TypeOK'
  BY <1>2, <1>3, <1>4 DEF TypeOK, PCs, PricesInv
<1>6. QuotesHold'
  <2>1. Pays(trade.fees)'
    BY <1>1, <1>3 DEF Pays
  <2> QED
    BY <1>2, <1>3, <2>1 DEF QuotesHold, Quoted, ScaledBuy, ScaledSell
<1>7. SaleHolds' /\ LoanPaysOrReverts' /\ PricesAreFresh'
  BY <1>2 DEF SaleHolds, LoanPaysOrReverts, PricesAreFresh
<1> QED
  BY <1>4, <1>5, <1>6, <1>7

\* With somebody else's trade in a pool the quotes promise nothing more.
LEMMA MarketMovesInd ==
    ASSUME IndInv, MarketMoves PROVE IndInv'
<1> USE DEF IndInv
<1>1. PICK pool \in Pools, level \in Levels : market' = [market EXCEPT ![pool] = level]
  BY DEF MarketMoves
<1>2. /\ pc \in {"reverse", "fees", "opportunity", "sell"} /\ still' = FALSE
      /\ UNCHANGED <<pc, symbol, trade, result, op, priceVars>>
  BY DEF MarketMoves
<1>3. market' \in Markets /\ market' \in [Pools -> Nat \X Nat]
  BY <1>1, <1>2, RoundTripAssumption DEF QuotesHold, Markets, Positive
<1>4. PricesInv'
  BY <1>2 DEF PricesInv, PriceTypeOK, priceVars
<1>5. TypeOK'
  BY <1>2, <1>3, <1>4 DEF TypeOK, PricesInv
<1>6. QuotesHold'
  BY <1>2, <1>3 DEF QuotesHold, Quoted, Pays
<1>7. SaleHolds' /\ LoanPaysOrReverts' /\ PricesAreFresh'
  BY <1>2 DEF SaleHolds, LoanPaysOrReverts, PricesAreFresh
<1> QED
  BY <1>4, <1>5, <1>6, <1>7

\* The result is all that is left of an opportunity.
LEMMA SettleInd ==
    ASSUME IndInv, NEW r \in Results, Settle(r), r.profit \in {0, r.paid},
           r.flow = "loan" => IF r.ok THEN 100 * r.paid > r.loan * MinPct - 100
                                      ELSE r.paid = 0
    PROVE  IndInv'
<1> USE DEF IndInv, Settle
<1>1. PricesInv'
  BY DEF PricesInv, PriceTypeOK, priceVars
<1>2. TypeOK'
  BY <1>1, NothingYet DEF TypeOK, PCs, PricesInv
<1>3. QuotesHold' /\ SaleHolds'
  BY DEF QuotesHold, SaleHolds
<1>4. LoanPaysOrReverts' /\ PricesAreFresh'
  BY DEF LoanPaysOrReverts, PricesAreFresh
<1> QED
  BY <1>1, <1>2, <1>3, <1>4

\* What does not pay is dropped.
LEMMA DismissInd ==
    ASSUME IndInv, Dismiss PROVE IndInv'
<1> USE DEF IndInv, Dismiss
<1>1. PricesInv'
  BY DEF PricesInv, PriceTypeOK, priceVars
<1>2. TypeOK'
  BY <1>1, NothingYet DEF TypeOK, PCs, PricesInv
<1>3. QuotesHold' /\ SaleHolds'
  BY DEF QuotesHold, SaleHolds
<1>4. LoanPaysOrReverts' /\ PricesAreFresh'
  BY DEF LoanPaysOrReverts, PricesAreFresh
<1> QED
  BY <1>1, <1>2, <1>3, <1>4

\* The legs' pools exist, and the results of a trade through them are numbers.
LEMMA LegsType ==
    ASSUME IndInv, pc \in {"opportunity", "sell"}
    PROVE  /\ market \in Markets /\ trade \in Trades
           /\ trade.buy \in Pools /\ trade.sell \in Pools
           /\ Legs = <<LegPool(trade.buy[1]), LegPool(trade.sell[1])>>
           /\ Legs[1] \in Pools /\ Legs[2] \in Pools
           /\ AsQuoted => Legs[1] = trade.buy /\ Legs[2] = trade.sell
<1>1. market \in Markets /\ trade.buy \in Pools /\ trade.sell \in Pools /\ trade \in Trades
  BY DEF IndInv, TypeOK, QuotesHold, Quoted, SaleHolds
<1>2. Legs = <<LegPool(trade.buy[1]), LegPool(trade.sell[1])>>
  BY DEF Legs
<1> QED
  BY <1>1, <1>2, PoolNames DEF AsQuoted

LEMMA TradeNumbers ==
    ASSUME IndInv
    PROVE  /\ trade.bought \in Nat /\ trade.back \in Nat /\ trade.fees \in Nat
           /\ trade.loan \in Nat /\ trade.got \in Nat
<1>1. trade \in Trades
  BY DEF IndInv, TypeOK
<1>2. /\ trade.bought \in Nat /\ trade.back \in Nat /\ trade.fees \in Fees
      /\ trade.loan \in Nat /\ trade.got \in Nat
  BY <1>1 DEF Trades
<1>3. Fees \subseteq Nat
  BY RoundTripAssumption
<1> QED
  BY <1>2, <1>3

\* The parts of a result, by flow.
LEMMA NoResultParts ==
    /\ NoResult \in Results /\ NoResult.flow = "none" /\ NoResult.ok = FALSE
    /\ NoResult.why = "none" /\ NoResult.paid = 0 /\ NoResult.profit = 0
BY DEF NoResult, Results

LEMMA LoanResultParts ==
    ASSUME NEW loan \in Nat
    PROVE  /\ LoanResult(loan) \in Results
           /\ LoanResult(loan).flow = "loan" /\ LoanResult(loan).loan = loan
           /\ LoanResult(loan).ok = FALSE /\ LoanResult(loan).why = "none"
           /\ LoanResult(loan).paid = 0 /\ LoanResult(loan).profit = 0
<1> DEFINE r1 == [NoResult EXCEPT !.flow = "loan"]
           r2 == [r1 EXCEPT !.loan = loan]
           r3 == [r2 EXCEPT !.feesIn = "ETH"]
<1>1. LoanResult(loan) = r3
  BY DEF LoanResult
<1> HIDE DEF r3
<1>2. /\ r1 \in Results /\ r1.flow = "loan"
      /\ r1.ok = FALSE /\ r1.why = "none" /\ r1.paid = 0 /\ r1.profit = 0
  BY NoResultParts DEF Results
<1> HIDE DEF r1
<1>3. /\ r2 \in Results /\ r2.flow = "loan" /\ r2.loan = loan
      /\ r2.ok = FALSE /\ r2.why = "none" /\ r2.paid = 0 /\ r2.profit = 0
  BY <1>2 DEF Results
<1> HIDE DEF r2
<1>4. /\ r3 \in Results /\ r3.flow = "loan" /\ r3.loan = loan
      /\ r3.ok = FALSE /\ r3.why = "none" /\ r3.paid = 0 /\ r3.profit = 0
  BY <1>3 DEF Results, r3
<1> QED
  BY <1>1, <1>4

LEMMA SwapsResultParts ==
    ASSUME trade.loan \in Nat
    PROVE  /\ SwapsResult \in Results /\ SwapsResult.flow = "swaps"
           /\ SwapsResult.loan = trade.loan
           /\ SwapsResult.ok = FALSE /\ SwapsResult.why = "none"
           /\ SwapsResult.paid = 0 /\ SwapsResult.profit = 0
<1> DEFINE r1 == [NoResult EXCEPT !.flow = "swaps"]
           r2 == [r1 EXCEPT !.loan = trade.loan]
           r3 == [r2 EXCEPT !.feesIn = "ETH"]
<1>1. SwapsResult = r3
  BY DEF SwapsResult
<1> HIDE DEF r3
<1>2. /\ r1 \in Results /\ r1.flow = "swaps"
      /\ r1.ok = FALSE /\ r1.why = "none" /\ r1.paid = 0 /\ r1.profit = 0
  BY NoResultParts DEF Results
<1> HIDE DEF r1
<1>3. /\ r2 \in Results /\ r2.flow = "swaps" /\ r2.loan = trade.loan
      /\ r2.ok = FALSE /\ r2.why = "none" /\ r2.paid = 0 /\ r2.profit = 0
  BY <1>2 DEF Results
<1> HIDE DEF r2
<1>4. /\ r3 \in Results /\ r3.flow = "swaps" /\ r3.loan = trade.loan
      /\ r3.ok = FALSE /\ r3.why = "none" /\ r3.paid = 0 /\ r3.profit = 0
  BY <1>3 DEF Results, r3
<1> QED
  BY <1>1, <1>4

\* What a flash loan brings, and the reasons for which it reverts.
Got(loan)     == Swap(Reserves(market, Legs[1], "buy"), loan)
Rest(loan)    == Reserves(After(market, Legs[1], "buy", loan), Legs[2], "sell")
Paid(loan)    == Swap(Rest(loan), Got(loan)) - loan - Premium[loan]
Refused(loan) == \/ Refuses(Legs[1], Reserves(market, Legs[1], "buy"), loan)
                 \/ Refuses(Legs[2], Rest(loan), Got(loan))

LEMMA LoanMinedStep ==
    ASSUME IndInv, LoanMined
    PROVE  \E loan \in Loans : \E r \in Results :
              /\ Settle(r) /\ r.flow = "loan" /\ r.loan = loan /\ r.profit \in {0, r.paid}
              /\ \/ /\ r.ok /\ r.why = "none" /\ r.paid = Paid(loan)
                    /\ ~Refused(loan) /\ Paid(loan) >= MinProfit(loan)
                 \/ /\ ~r.ok /\ r.why = "minimum" /\ r.paid = 0
                    /\ ~Refused(loan) /\ Paid(loan) < MinProfit(loan)
                 \/ /\ ~r.ok /\ r.why = "refused" /\ r.paid = 0
                    /\ Refused(loan)
<1>1. pc = "opportunity"
  BY DEF LoanMined
<1>2. PICK loan \in Loans :
        LET reverted == [LoanResult(loan) EXCEPT !.fees = 1]
        IN  \/ /\ ~Refused(loan)
               /\ Paid(loan) >= MinProfit(loan)
               /\ \E p \in Reported(Paid(loan), loan) :
                     Settle([reverted EXCEPT !.ok = TRUE, !.paid = Paid(loan), !.profit = p])
            \/ /\ ~Refused(loan)
               /\ Paid(loan) < MinProfit(loan)
               /\ Settle([reverted EXCEPT !.why = "minimum"])
            \/ Refused(loan) /\ Settle([reverted EXCEPT !.why = "refused"])
  BY Zenon DEF LoanMined, Got, Rest, Paid, Refused
<1>3. loan \in Nat
  BY RoundTripAssumption
<1>4. Paid(loan) \in Int
  <2>1. Legs[1] \in Pools /\ Legs[2] \in Pools /\ market \in Markets
    BY <1>1, LegsType
  <2>2. Got(loan) \in Nat
    BY <1>3, <2>1, SwapType DEF Got
  <2>3. Swap(Rest(loan), Got(loan)) \in Nat
    BY <1>3, <2>1, <2>2, AfterBuy, SwapType DEF Rest
  <2>4. Premium[loan] \in Nat
    BY RoundTripAssumption
  <2> QED
    BY <1>3, <2>3, <2>4 DEF Paid
<1> DEFINE base == LoanResult(loan)
           rev  == [base EXCEPT !.fees = 1]
<1>5. /\ rev \in Results /\ rev.flow = "loan" /\ rev.loan = loan
      /\ rev.ok = FALSE /\ rev.why = "none" /\ rev.paid = 0 /\ rev.profit = 0
  <2>1. /\ base \in Results /\ base.flow = "loan" /\ base.loan = loan
        /\ base.ok = FALSE /\ base.why = "none" /\ base.paid = 0 /\ base.profit = 0
    BY <1>3, LoanResultParts
  <2> HIDE DEF base
  <2> QED
    BY <2>1 DEF Results
<1> HIDE DEF rev
<1>6. ASSUME NEW p \in Reported(Paid(loan), loan),
             Settle([rev EXCEPT !.ok = TRUE, !.paid = Paid(loan), !.profit = p])
      PROVE  \E r \in Results :
                /\ Settle(r) /\ r.flow = "loan" /\ r.loan = loan
                /\ r.profit \in {0, r.paid} /\ r.ok /\ r.why = "none"
                /\ r.paid = Paid(loan)
  <2> DEFINE r1 == [rev EXCEPT !.ok = TRUE]
             r2 == [r1 EXCEPT !.paid = Paid(loan)]
             r3 == [r2 EXCEPT !.profit = p]
  <2>1. Settle(r3)
    BY <1>6
  <2>2. p \in Int /\ p \in {0, Paid(loan)}
    BY <1>4 DEF Reported
  <2> HIDE DEF r3
  <2>3. /\ r1 \in Results /\ r1.flow = "loan" /\ r1.loan = loan
        /\ r1.ok = TRUE /\ r1.why = "none"
    BY <1>5 DEF Results
  <2> HIDE DEF r1
  <2>4. /\ r2 \in Results /\ r2.flow = "loan" /\ r2.loan = loan
        /\ r2.ok = TRUE /\ r2.why = "none" /\ r2.paid = Paid(loan)
    BY <1>4, <2>3 DEF Results
  <2> HIDE DEF r2
  <2>5. /\ r3 \in Results /\ r3.flow = "loan" /\ r3.loan = loan
        /\ r3.ok = TRUE /\ r3.why = "none" /\ r3.paid = Paid(loan) /\ r3.profit = p
    BY <2>2, <2>4 DEF Results, r3
  <2> QED
    BY <2>1, <2>2, <2>5
<1>7. ASSUME NEW w \in {"minimum", "refused"}, Settle([rev EXCEPT !.why = w])
      PROVE  \E r \in Results :
                /\ Settle(r) /\ r.flow = "loan" /\ r.loan = loan
                /\ r.profit \in {0, r.paid} /\ ~r.ok /\ r.why = w /\ r.paid = 0
  <2> DEFINE q == [rev EXCEPT !.why = w]
  <2>1. /\ q \in Results /\ q.flow = "loan" /\ q.loan = loan
        /\ q.ok = FALSE /\ q.why = w /\ q.paid = 0 /\ q.profit = 0
    BY <1>5 DEF Results
  <2>2. Settle(q)
    BY <1>7
  <2> HIDE DEF q
  <2> QED
    BY <2>1, <2>2
<1>8. CASE /\ ~Refused(loan)
           /\ Paid(loan) >= MinProfit(loan)
           /\ \E p \in Reported(Paid(loan), loan) :
                 Settle([rev EXCEPT !.ok = TRUE, !.paid = Paid(loan), !.profit = p])
  BY <1>6, <1>8
<1>9. CASE /\ ~Refused(loan)
           /\ Paid(loan) < MinProfit(loan)
           /\ Settle([rev EXCEPT !.why = "minimum"])
  BY <1>7, <1>9
<1>10. CASE Refused(loan) /\ Settle([rev EXCEPT !.why = "refused"])
  BY <1>7, <1>10
<1> QED
  BY <1>2, <1>8, <1>9, <1>10, Zenon DEF rev, base

\* The contract holds the trade to its minimum.
LEMMA LoanMinedInd ==
    ASSUME IndInv, LoanMined PROVE IndInv'
<1>1. PICK loan \in Loans, r \in Results :
         /\ Settle(r) /\ r.flow = "loan" /\ r.loan = loan /\ r.profit \in {0, r.paid}
         /\ r.ok => r.paid >= MinProfit(loan)
         /\ ~r.ok => r.paid = 0
  BY LoanMinedStep, Zenon
<1>2. /\ loan \in Nat /\ r.paid \in Int /\ MinPct \in Nat
      /\ loan * MinPct \in Nat /\ loan * MinPct < 100 * MinProfit(loan) + 100
      /\ MinProfit(loan) \in Nat
  <2>1. loan \in Nat /\ MinPct \in Nat /\ r.paid \in Int
    BY RoundTripAssumption DEF Results
  <2>2. loan * MinPct \in Nat
    BY <2>1
  <2> QED
    BY <2>1, <2>2, DivRounds DEF MinProfit
<1>3. r.ok => 100 * r.paid > r.loan * MinPct - 100
  BY <1>1, <1>2
<1> QED
  BY <1>1, <1>3, SettleInd


\* The results of a trade that failed, of a sale, and of no trade at all.
LEMMA OtherResults ==
    ASSUME IndInv, LoanFails \/ Sell \/ SwapsFail \/ NotExecuted
    PROVE  \E r \in Results :
              /\ Settle(r) /\ r.profit \in {0, r.paid}
              /\ \/ LoanFails /\ r.ok = FALSE /\ r.why = "other" /\ r.paid = 0
                 \/ /\ Sell /\ r.flow = "swaps" /\ r.loan = trade.loan
                    /\ r.why = "none"
                    /\ r.paid = Swap(Reserves(market, Legs[2], "sell"), trade.got)
                                  - trade.loan
                 \/ SwapsFail /\ r.flow = "swaps" /\ r.ok = FALSE /\ r.why = "other"
                 \/ NotExecuted /\ r.flow = "none"
<1>1. trade.loan \in Nat /\ trade.got \in Nat /\ trade.fees \in Nat
  BY TradeNumbers
<1>2. CASE LoanFails
  <2>1. PICK loan \in Loans : Settle([LoanResult(loan) EXCEPT !.why = "other"])
    BY <1>2 DEF LoanFails
  <2> DEFINE base == LoanResult(loan)
             r    == [base EXCEPT !.why = "other"]
  <2>2. /\ base \in Results /\ base.ok = FALSE /\ base.paid = 0 /\ base.profit = 0
    <3>1. loan \in Nat
      BY RoundTripAssumption
    <3> QED
      BY <3>1, LoanResultParts
  <2>3. Settle(r)
    BY <2>1
  <2> HIDE DEF base
  <2>4. /\ r \in Results /\ r.ok = FALSE /\ r.why = "other"
        /\ r.paid = 0 /\ r.profit = 0
    BY <2>2 DEF Results
  <2> HIDE DEF r
  <2> QED
    BY <1>2, <2>3, <2>4
<1>3. CASE Sell
  <2> DEFINE paid == Swap(Reserves(market, Legs[2], "sell"), trade.got) - trade.loan
             base == SwapsResult
             r1   == [base EXCEPT !.ok = TRUE]
             r2   == [r1 EXCEPT !.paid = paid]
             r3   == [r2 EXCEPT !.profit = paid]
             r4   == [r3 EXCEPT !.fees = 1]
  <2>1. Settle(r4)
    BY <1>3 DEF Sell
  <2>2. paid \in Int
    <3>1. Legs[2] \in Pools /\ market \in Markets
      BY <1>3, LegsType DEF Sell
    <3>2. Swap(Reserves(market, Legs[2], "sell"), trade.got) \in Nat
      BY <1>1, <3>1, SwapType
    <3> QED
      BY <1>1, <3>2
  <2>3. /\ base \in Results /\ base.flow = "swaps" /\ base.loan = trade.loan
        /\ base.why = "none"
    BY <1>1, SwapsResultParts
  <2>4. trade.loan \in Nat
    BY <1>1
  <2> HIDE DEF paid, base, r4
  <2>5. /\ r1 \in Results /\ r1.flow = "swaps" /\ r1.loan = trade.loan
        /\ r1.why = "none"
    BY <2>3, <2>4 DEF Results
  <2> HIDE DEF r1
  <2>6. /\ r2 \in Results /\ r2.flow = "swaps" /\ r2.loan = trade.loan
        /\ r2.why = "none" /\ r2.paid = paid
    BY <2>2, <2>4, <2>5 DEF Results
  <2> HIDE DEF r2
  <2>7. /\ r3 \in Results /\ r3.flow = "swaps" /\ r3.loan = trade.loan
        /\ r3.why = "none" /\ r3.paid = paid /\ r3.profit = paid
    BY <2>2, <2>4, <2>6 DEF Results
  <2> HIDE DEF r3
  <2>8. /\ r4 \in Results /\ r4.flow = "swaps" /\ r4.loan = trade.loan
        /\ r4.why = "none" /\ r4.paid = paid /\ r4.profit = paid
    BY <2>4, <2>7 DEF Results, r4
  <2> QED
    BY <1>3, <2>1, <2>8 DEF paid
<1>4. CASE SwapsFail
  <2> DEFINE base == SwapsResult
             r1   == [base EXCEPT !.why = "other"]
             r2   == [r1 EXCEPT !.paid = -trade.loan]
  <2>1. Settle(r2)
    BY <1>4 DEF SwapsFail
  <2>2. base \in Results /\ base.flow = "swaps" /\ base.ok = FALSE /\ base.profit = 0
    BY <1>1, SwapsResultParts
  <2>3. -trade.loan \in Int
    BY <1>1
  <2> HIDE DEF base, r2
  <2>4. /\ r1 \in Results /\ r1.flow = "swaps" /\ r1.ok = FALSE /\ r1.profit = 0
        /\ r1.why = "other"
    BY <2>2 DEF Results
  <2> HIDE DEF r1
  <2>5. /\ r2 \in Results /\ r2.flow = "swaps" /\ r2.ok = FALSE /\ r2.profit = 0
        /\ r2.why = "other"
    BY <2>3, <2>4 DEF Results, r2
  <2> QED
    BY <1>4, <2>1, <2>5
<1>5. CASE NotExecuted
  <2> DEFINE r1 == [NoResult EXCEPT !.fees = trade.fees]
             r2 == [r1 EXCEPT !.feesIn = "base"]
  <2>1. Settle(r2)
    BY <1>5 DEF NotExecuted
  <2> HIDE DEF r2
  <2>2. r1 \in Results /\ r1.flow = "none" /\ r1.paid = 0 /\ r1.profit = 0
    BY <1>1, NoResultParts DEF Results
  <2> HIDE DEF r1
  <2>3. r2 \in Results /\ r2.flow = "none" /\ r2.paid = 0 /\ r2.profit = 0
    BY <2>2 DEF Results, r2
  <2> QED
    BY <1>5, <2>1, <2>3
<1> QED
  BY <1>2, <1>3, <1>4, <1>5

LEMMA OtherResultsInd ==
    ASSUME IndInv, LoanFails \/ Sell \/ SwapsFail \/ NotExecuted PROVE IndInv'
<1>1. PICK r \in Results :
         /\ Settle(r) /\ r.profit \in {0, r.paid}
         /\ r.flow = "loan" => r.ok = FALSE /\ r.paid = 0
  BY OtherResults, Zenon
<1> QED
  BY <1>1, SettleInd

-----------------------------------------------------------------------------
(* What an opportunity promises                                            *)

\* A Balancer pool is never a router's.
LEMMA RoutersNeverRefuse ==
    ASSUME NEW pool, pool[1] \in Routers, NEW r, NEW a
    PROVE  ~Refuses(pool, r, a)
<1>1. BalancerV2 \notin Routers
  BY Zenon DEF BalancerV2, Routers, V2Names, UniswapV3
<1> QED
  BY <1>1 DEF Refuses

(***************************************************************************)
(* Through the pools that were quoted, which are two, the purchase of the  *)
(* amount quoted leaves the second as it was: unless a quote was scaled    *)
(* the pools do not refuse, and bring what they promised.                  *)
(***************************************************************************)
LEMMA SameTrade ==
    ASSUME IndInv, pc = "opportunity", still, AsQuoted
    PROVE  /\ trade.scaled => Refused(Amount)
           /\ ~trade.scaled => /\ ~Refused(Amount)
                               /\ Got(Amount) = trade.bought
                               /\ Swap(Rest(Amount), Got(Amount)) = trade.back
           /\ Rest(Amount) = Reserves(market, trade.sell, "sell")
<1>1. /\ market \in Markets /\ trade.buy \in Pools /\ trade.sell \in Pools
      /\ Legs[1] = trade.buy /\ Legs[2] = trade.sell /\ trade \in Trades
  BY LegsType
<1>2. Amount \in Nat \ {0}
  BY RoundTripAssumption
<1>3. /\ trade.bought > 0 /\ trade.bought = PoolQuote(market, trade.buy, "buy", Amount)
      /\ trade.back > 0 /\ trade.back = PoolQuote(market, trade.sell, "sell", trade.bought)
      /\ trade.scaled <=> ScaledBuy \/ ScaledSell
  BY DEF IndInv, QuotesHold, Quoted
<1>4. trade.bought \in Nat \ {0}
  BY <1>1, <1>3 DEF Trades
<1> DEFINE r1 == Reserves(market, trade.buy, "buy")
           r2 == Reserves(market, trade.sell, "sell")
<1>5. Rest(Amount) = r2
  <2>1. trade.sell \in Pools \ {trade.buy}
    BY <1>1 DEF AsQuoted
  <2>2. \A o \in Pools \ {trade.buy} :
           After(market, trade.buy, "buy", Amount)[o] = market[o]
    <3> HIDE DEF r1, r2
    <3> QED
      BY <1>1, <1>2, AfterBuy
  <2>3. After(market, trade.buy, "buy", Amount)[trade.sell] = market[trade.sell]
    BY <2>1, <2>2, Zenon
  <2> QED
    BY <1>1, <2>3 DEF Rest, Reserves
<1>6. IF ScaledBuy THEN Refuses(trade.buy, r1, Amount)
                   ELSE ~Refuses(trade.buy, r1, Amount) /\ trade.bought = Swap(r1, Amount)
  BY <1>1, <1>2, <1>3, QuoteTypes DEF ScaledBuy
<1>7. IF ScaledSell THEN Refuses(trade.sell, r2, trade.bought)
                    ELSE /\ ~Refuses(trade.sell, r2, trade.bought)
                         /\ trade.back = Swap(r2, trade.bought)
  BY <1>1, <1>3, <1>4, QuoteTypes DEF ScaledSell
<1>8. Got(Amount) = Swap(r1, Amount)
  BY <1>1 DEF Got
<1>9. Refused(Amount) <=> \/ Refuses(trade.buy, r1, Amount)
                          \/ Refuses(trade.sell, r2, Swap(r1, Amount))
  BY <1>1, <1>5, <1>8 DEF Refused
<1>10. Swap(Rest(Amount), Got(Amount)) = Swap(r2, Swap(r1, Amount))
  BY <1>5, <1>8
<1> HIDE DEF r1, r2
<1>11. CASE ScaledBuy
  BY <1>3, <1>5, <1>6, <1>9, <1>11 DEF r2
<1>12. CASE ~ScaledBuy /\ ScaledSell
  BY <1>3, <1>5, <1>6, <1>7, <1>9, <1>12 DEF r2
<1>13. CASE ~ScaledBuy /\ ~ScaledSell
  BY <1>3, <1>5, <1>6, <1>7, <1>8, <1>9, <1>10, <1>13 DEF r2
<1> QED
  BY <1>11, <1>12, <1>13

\* What pays for the amount quoted also makes the minimum, fees taken from it.
LEMMA PayingIsEnough ==
    ASSUME IndInv, pc = "opportunity"
    PROVE  trade.back - Amount - trade.fees >= MinProfit(Amount)
<1>1. /\ trade.back \in Nat /\ trade.fees \in Nat /\ Amount \in Nat /\ MinPct \in Nat
      /\ 100 * (trade.back - Amount - trade.fees) >= MinPct * Amount
  <2>1. Pays(trade.fees)
    BY DEF IndInv, QuotesHold
  <2> QED
    BY <2>1, TradeNumbers, RoundTripAssumption DEF Pays
<1>2. Amount * MinPct \in Nat /\ MinPct * Amount = Amount * MinPct
  BY <1>1
<1>3. MinProfit(Amount) \in Nat /\ 100 * MinProfit(Amount) <= Amount * MinPct
  BY <1>2, DivRounds DEF MinProfit
<1> QED
  BY <1>1, <1>2, <1>3


\* A purchase of what was quoted leaves the sale as it was quoted.
LEMMA BuyInd ==
    ASSUME IndInv, Buy PROVE IndInv'
<1> USE DEF IndInv
<1>1. PICK loan \in Loans :
        /\ trade' = [trade EXCEPT
                        !.loan = loan,
                        !.got = Swap(Reserves(market, Legs[1], "buy"), loan)]
        /\ market' = After(market, Legs[1], "buy", loan)
  BY DEF Buy
<1>2. /\ pc = "opportunity" /\ pc' = "sell"
      /\ {trade.buy[1], trade.sell[1]} \subseteq Routers
      /\ UNCHANGED <<symbol, still, result, op, priceVars>>
  BY DEF Buy
<1>3. /\ market \in Markets /\ trade \in Trades /\ trade.buy \in Pools
      /\ trade.sell \in Pools /\ Legs[1] \in Pools /\ loan \in Nat
  BY <1>2, LegsType, RoundTripAssumption
<1>4. Got(loan) \in Nat
  BY <1>3, SwapType DEF Got
<1>5. trade' \in Trades /\ trade'.loan = loan /\ trade'.got = Got(loan)
      /\ trade'.buy = trade.buy /\ trade'.sell = trade.sell
      /\ trade'.back = trade.back /\ trade'.scaled = trade.scaled
  <2> DEFINE t1 == [trade EXCEPT !.loan = loan]
             t2 == [t1 EXCEPT !.got = Got(loan)]
  <2>1. trade' = t2
    BY <1>1 DEF Got
  <2> HIDE DEF t2
  <2>2. t1 \in Trades /\ t1.loan = loan /\ t1.buy = trade.buy /\ t1.sell = trade.sell
        /\ t1.back = trade.back /\ t1.scaled = trade.scaled
    BY <1>3 DEF Trades
  <2> HIDE DEF t1
  <2>3. t2 \in Trades /\ t2.loan = loan /\ t2.got = Got(loan)
        /\ t2.buy = trade.buy /\ t2.sell = trade.sell
        /\ t2.back = trade.back /\ t2.scaled = trade.scaled
    BY <1>3, <1>4, <2>2 DEF Trades, t2
  <2> QED
    BY <2>1, <2>3
<1>6. market' \in Markets /\ market' \in [Pools -> Nat \X Nat]
  <2>1. market' \in Markets
    BY <1>1, <1>3, AfterBuy
  <2> QED
    BY <2>1 DEF Markets, Positive
<1>7. PricesInv'
  BY <1>2 DEF PricesInv, PriceTypeOK, priceVars
<1>8. TypeOK'
  BY <1>2, <1>5, <1>6, <1>7 DEF TypeOK, PCs, PricesInv
<1>9. QuotesHold'
  BY <1>2, <1>6 DEF QuotesHold
<1>10. ASSUME still, AsQuoted, loan = Amount
       PROVE  /\ ~trade.scaled
              /\ Swap(Reserves(market', trade.sell, "sell"), Got(loan)) = trade.back
  <2>1. /\ trade.scaled => Refused(loan)
        /\ ~trade.scaled => Swap(Rest(loan), Got(loan)) = trade.back
    BY <1>2, <1>10, SameTrade
  <2>2. ~Refused(loan)
    <3>1. Legs[1][1] \in Routers /\ Legs[2][1] \in Routers
      BY <1>2, <1>3, <1>10, LegsType
    <3> QED
      BY <3>1, RoutersNeverRefuse DEF Refused
  <2>3. Rest(loan) = Reserves(market', trade.sell, "sell")
    BY <1>1, <1>2, <1>10, LegsType DEF Rest
  <2> QED
    BY <2>1, <2>2, <2>3
<1>11. SaleHolds'
  <2>1. AsQuoted' <=> AsQuoted
    BY <1>5 DEF AsQuoted
  <2> QED
    BY <1>2, <1>3, <1>5, <1>10, <2>1 DEF SaleHolds
<1>12. LoanPaysOrReverts' /\ PricesAreFresh'
  BY <1>2 DEF LoanPaysOrReverts, PricesAreFresh
<1> QED
  BY <1>7, <1>8, <1>9, <1>11, <1>12

-----------------------------------------------------------------------------
(* The record                                                              *)

\* A figure of the event is written.
LEMMA FigureWritten ==
    ASSUME IndInv, NEW unit \in {"none", "base", "ETH"}, NEW by \in {"none", "base", "ETH"},
           NEW field \in {"profit", "fees"},
           op' = [op EXCEPT ![field] = {[in |-> unit, by |-> by]}]
    PROVE  op' \in Ops /\ op'.age <= TTL
<1>1. op \in Ops /\ op.age <= TTL
  BY DEF IndInv, TypeOK, PricesAreFresh
<1>2. {[in |-> unit, by |-> by]} \in SUBSET Figures
  BY DEF Figures
<1> DEFINE S == {[in |-> unit, by |-> by]}
<1>3. op' = [op EXCEPT ![field] = S] /\ S \in SUBSET Figures
  BY <1>2
<1> HIDE DEF S
<1>4. CASE field = "profit"
  BY <1>1, <1>3, <1>4 DEF Ops
<1>5. CASE field = "fees"
  BY <1>1, <1>3, <1>5 DEF Ops
<1> QED
  BY <1>4, <1>5

\* The greater of two ages is one of them.
LEMMA MaxOfTwo ==
    ASSUME NEW x \in Nat, NEW y \in Nat
    PROVE  Max({x, y}) \in {x, y} /\ Max({x, y}) \in Nat
<1>1. \E m \in {x, y} : \A n \in {x, y} : m >= n
  <2>1. CASE x >= y
    BY <2>1
  <2>2. CASE ~(x >= y)
    BY <2>2
  <2> QED
    BY <2>1, <2>2
<1> QED
  BY <1>1 DEF Max

\* A price that is used is no older than the cache keeps one.
LEMMA ConvertInd ==
    ASSUME IndInv, NEW amount, NEW unit \in {"none", "base", "ETH"},
           NEW field \in {"profit", "fees"}, Convert(amount, unit, field)
    PROVE  PricesInv' /\ op' \in Ops /\ op'.age <= TTL
<1>1. op \in Ops /\ op.age \in Nat /\ op.age <= TTL /\ PricesInv
  BY DEF IndInv, TypeOK, Ops, PricesAreFresh
<1>2. \A by \in {"none", "base", "ETH"} : {[in |-> unit, by |-> by]} \in SUBSET Figures
  BY DEF Figures
<1>3. CASE /\ op' = [op EXCEPT ![field] = {[in |-> unit, by |-> unit]}]
           /\ UNCHANGED priceVars
  <2>1. op' \in Ops /\ op'.age <= TTL
    BY <1>3, FigureWritten, Zenon
  <2> QED
    BY <1>1, <1>3, <2>1 DEF PricesInv, PriceTypeOK, priceVars
<1>4. CASE \E p \in Rates \cup {1} :
             /\ Returns(symbol, p)
             /\ op' = [op EXCEPT ![field] = {[in |-> unit, by |-> TokenOf(unit)]},
                                 !.age = Max({@, AgeOf(symbol, p)})]
  <2>1. PICK p \in Rates \cup {1} :
             /\ Returns(symbol, p)
             /\ op' = [op EXCEPT ![field] = {[in |-> unit, by |-> TokenOf(unit)]},
                                 !.age = Max({@, AgeOf(symbol, p)})]
    BY <1>4
  <2>2. PricesInv' /\ AgeOf(symbol, p) \in 0..TTL
    BY <1>1, <2>1, ReturnsInd
  <2> DEFINE a == Max({op.age, AgeOf(symbol, p)})
             S == {[in |-> unit, by |-> TokenOf(unit)]}
  <2>3. a \in Nat /\ a <= TTL
    BY <1>1, <2>2, MaxOfTwo, PricesAssumption
  <2>4. S \in SUBSET Figures
    BY <1>2 DEF TokenOf
  <2>5. op' = [op EXCEPT ![field] = S, !.age = a]
    <3>1. CASE field = "profit"
      BY <1>1, <2>1, <3>1 DEF Ops
    <3>2. CASE field = "fees"
      BY <1>1, <2>1, <3>2 DEF Ops
    <3> QED
      BY <3>1, <3>2
  <2> HIDE DEF a, S
  <2>6. op' \in Ops /\ op'.age = a
    <3>1. CASE field = "profit"
      BY <1>1, <2>3, <2>4, <2>5, <3>1 DEF Ops
    <3>2. CASE field = "fees"
      BY <1>1, <2>3, <2>4, <2>5, <3>2 DEF Ops
    <3> QED
      BY <3>1, <3>2
  <2> QED
    BY <2>2, <2>3, <2>6
<1>5. CASE /\ ReturnsNone(symbol)
           /\ op' = [op EXCEPT ![field] = {[in |-> unit, by |-> "none"]}]
  <2>1. op' \in Ops /\ op'.age <= TTL
    BY <1>5, FigureWritten, Zenon
  <2> QED
    BY <1>1, <1>5, <2>1, ReturnsNoneInd
<1> QED
  BY <1>3, <1>4, <1>5 DEF Convert

\* The steps of the record, and of the time that passes before it is there.
LEMMA RecordInd ==
    ASSUME IndInv,
           \/ BeginRecord \/ ConvertProfit \/ ConvertFees
           \/ Lookup \/ OthersLookUp \/ TimePasses
    PROVE  IndInv'
<1> USE DEF IndInv
<1>1. /\ UNCHANGED <<symbol, market, still, trade, result>>
      /\ pc' \in PCs
      /\ pc' # pc => pc' \in {"usd_profit", "usd_fees", "recorded"}
  BY DEF BeginRecord, ConvertProfit, ConvertFees, Lookup, OthersLookUp, TimePasses,
         tripVars, PCs, TypeOK
<1>2. PricesInv' /\ op' \in Ops /\ op'.age <= TTL
  <2>1. op \in Ops /\ op.age <= TTL /\ PricesInv
    BY DEF TypeOK, PricesAreFresh
  <2>2. CASE BeginRecord
    BY <2>1, <2>2 DEF BeginRecord, PricesInv, PriceTypeOK, priceVars
  <2>3. CASE ConvertProfit
    BY <2>3, ConvertInd DEF ConvertProfit
  <2>4. CASE ConvertFees
    <3>1. result.feesIn \in {"none", "base", "ETH"}
      BY DEF TypeOK, Results
    <3> QED
      BY <2>4, <3>1, ConvertInd DEF ConvertFees
  <2>5. CASE Lookup
    <3>1. symbol \in Routed /\ (Ask(symbol) \/ NodeReads(symbol))
      BY <2>1, <2>5 DEF Lookup, Ask, NodeReads, PricesInv, PriceTypeOK
    <3> QED
      BY <2>1, <2>5, <3>1, LookupInd DEF Lookup, tripVars
  <2>6. CASE OthersLookUp
    <3>1. PICK t \in Routed : \/ Ask(t) \/ NodeReads(t)
                              \/ \E p \in Rates : Returns(t, p)
                              \/ ReturnsNone(t)
      BY <2>6 DEF OthersLookUp
    <3> QED
      BY <2>1, <2>6, <3>1, LookupInd, ReturnsInd, ReturnsNoneInd DEF OthersLookUp, tripVars
  <2>7. CASE TimePasses
    BY <2>1, <2>7, TimeInd DEF TimePasses, tripVars
  <2> QED
    BY <2>2, <2>3, <2>4, <2>5, <2>6, <2>7
<1>3. TypeOK'
  BY <1>1, <1>2 DEF TypeOK, PricesInv
<1>4. QuotesHold'
  BY <1>1 DEF QuotesHold, Quoted, Pays, ScaledBuy, ScaledSell
<1>5. SaleHolds'
  BY <1>1 DEF SaleHolds, AsQuoted
<1>6. LoanPaysOrReverts' /\ PricesAreFresh'
  BY <1>1, <1>2 DEF LoanPaysOrReverts, PricesAreFresh
<1> QED
  BY <1>2, <1>3, <1>4, <1>5, <1>6

\* Every step keeps the invariant.
LEMMA NextInd == IndInv /\ [Next]_vars => IndInv'
<1> SUFFICES ASSUME IndInv, [Next]_vars PROVE IndInv'
  OBVIOUS
<1>1. CASE Next /\ ~Over
  BY <1>1, ForwardInd, ReverseInd, WeighInd, DismissInd, MarketMovesInd, LoanMinedInd,
     BuyInd, OtherResultsInd, RecordInd
     DEF Next
<1>2. CASE UNCHANGED vars
  BY <1>2 DEF vars, tripVars, priceVars, IndInv, TypeOK, PriceTypeOK, PricesInv,
              QuotesHold, Quoted, Pays, ScaledBuy, ScaledSell, SaleHolds, AsQuoted,
              LoanPaysOrReverts, PricesAreFresh
<1> QED
  BY <1>1, <1>2 DEF Over

-----------------------------------------------------------------------------
(* Theorems                                                                *)

\* The inductive invariant of RoundTrip: the quotes hold for as long as the
\* market stands still, and prices are dropped before they are out of date.
THEOREM Invariance == Spec => []IndInv
BY InitInd, NextInd, PTL DEF Spec

\* Every variable keeps its type, whatever an opportunity comes to.
THEOREM TypeCorrect == Spec => []TypeOK
<1>1. IndInv => TypeOK
  BY DEF IndInv
<1> QED
  BY <1>1, Invariance, PTL

\* A flash loan never costs base token: the contract reverts it, or it brings
\* min_profit_pct of what was traded (_execute_flash_loan).
THEOREM LoansPay == Spec => []LoanPaysOrReverts
<1>1. IndInv => LoanPaysOrReverts
  BY DEF IndInv
<1> QED
  BY <1>1, Invariance, PTL

\* get_usd_price never answers with a price that was out of date for longer
\* than CACHE_TTL_SEC, whoever asked first and however long the node took.
THEOREM FreshPrices == Spec => []PricesAreFresh
<1>1. IndInv => PricesAreFresh
  BY DEF IndInv
<1> QED
  BY <1>1, Invariance, PTL

\* What an opportunity promises of the trade itself: without anybody else's
\* trade it is kept, but for the premium of a loan, which no fee stands for, and
\* unless a quote was scaled up; then the loan is reverted (_emit_opportunity,
\* _execute_flash_loan).
THEOREM Promises == Spec => PromiseKept
<1> DEFINE Kept ==
      /\ pc \in {"opportunity", "sell"}
      /\ pc' = "settled"
      /\ result'.flow # "none"
      /\ still
      /\ AsQuoted
      /\ result'.loan = Amount
      => IF trade.scaled
           THEN ~result'.ok
           ELSE /\ result'.why # "refused"
                /\ result'.why = "minimum" => trade.fees < Taken
                /\ result'.ok => result'.paid = trade.back - Amount - Taken
<1>1. IndInv /\ Next => Kept
  <2> SUFFICES ASSUME IndInv, Next, pc \in {"opportunity", "sell"}, pc' = "settled",
                      result'.flow # "none", still, AsQuoted, result'.loan = Amount
               PROVE  IF trade.scaled
                        THEN ~result'.ok
                        ELSE /\ result'.why # "refused"
                             /\ result'.why = "minimum" => trade.fees < Taken
                             /\ result'.ok =>
                                  result'.paid = trade.back - Amount - Taken
    OBVIOUS
  <2>1. LoanMined \/ LoanFails \/ Sell \/ SwapsFail \/ NotExecuted
    BY DEF Next, Forward, Reverse, Weigh, Dismiss, MarketMoves, Buy, BeginRecord,
           ConvertProfit, ConvertFees, Lookup, OthersLookUp, TimePasses, Over, tripVars, vars
  <2>2. CASE LoanMined
    <3>1. PICK r \in Results :
             /\ Settle(r) /\ r.flow = "loan" /\ r.loan \in Loans
             /\ \/ /\ r.ok /\ r.why = "none" /\ r.paid = Paid(r.loan)
                   /\ ~Refused(r.loan)
                \/ /\ ~r.ok /\ r.why = "minimum"
                   /\ ~Refused(r.loan) /\ Paid(r.loan) < MinProfit(r.loan)
                \/ /\ ~r.ok /\ r.why = "refused" /\ Refused(r.loan)
      BY <2>2, LoanMinedStep, Zenon
    <3>2. result' = r /\ r.loan = Amount
      BY <3>1 DEF Settle
    <3>3. pc = "opportunity"
      BY <2>2 DEF LoanMined
    <3>4. CASE trade.scaled
      BY <3>1, <3>2, <3>3, <3>4, SameTrade
    <3>5. CASE ~trade.scaled
      <4>1. ~Refused(Amount) /\ Swap(Rest(Amount), Got(Amount)) = trade.back
        BY <3>3, <3>5, SameTrade
      <4>2. Taken = Premium[Amount] /\ Premium[Amount] \in Nat
        BY <3>1, <3>2, RoundTripAssumption DEF Taken
      <4>3. Paid(Amount) = trade.back - Amount - Premium[Amount]
        BY <4>1 DEF Paid
      <4>4. Paid(Amount) < MinProfit(Amount) => trade.fees < Premium[Amount]
        <5>1. /\ trade.back \in Nat /\ trade.fees \in Nat /\ Amount \in Nat
              /\ MinProfit(Amount) \in Nat
          <6>1. Amount \in Nat /\ Amount * MinPct \in Nat
            BY RoundTripAssumption
          <6> QED
            BY <6>1, DivRounds, TradeNumbers DEF MinProfit
        <5> QED
          BY <3>3, <4>2, <4>3, <5>1, PayingIsEnough
      <4>5. CASE r.ok /\ r.why = "none" /\ r.paid = Paid(r.loan)
        BY <3>2, <3>5, <4>2, <4>3, <4>5
      <4>6. CASE ~r.ok /\ r.why = "minimum" /\ Paid(r.loan) < MinProfit(r.loan)
        BY <3>2, <3>5, <4>2, <4>4, <4>6
      <4> QED
        BY <3>1, <3>2, <4>1, <4>5, <4>6
    <3> QED
      BY <3>4, <3>5
  <2>3. CASE LoanFails \/ Sell \/ SwapsFail \/ NotExecuted
    <3>1. PICK r \in Results :
             /\ Settle(r)
             /\ \/ r.ok = FALSE /\ r.why = "other"
                \/ /\ Sell /\ r.flow = "swaps" /\ r.loan = trade.loan /\ r.why = "none"
                   /\ r.paid = Swap(Reserves(market, Legs[2], "sell"), trade.got)
                                 - trade.loan
                \/ r.flow = "none"
      BY <2>3, OtherResults, Zenon
    <3>2. result' = r
      BY <3>1 DEF Settle
    <3>3. CASE r.ok = FALSE /\ r.why = "other"
      BY <3>2, <3>3
    <3>4. CASE /\ Sell /\ r.flow = "swaps" /\ r.loan = trade.loan /\ r.why = "none"
               /\ r.paid = Swap(Reserves(market, Legs[2], "sell"), trade.got)
                             - trade.loan
      <4>1. pc = "sell" /\ trade.loan = Amount
        BY <3>2, <3>4 DEF Sell
      <4>2. /\ ~trade.scaled
            /\ Swap(Reserves(market, trade.sell, "sell"), trade.got) = trade.back
        BY <4>1 DEF IndInv, SaleHolds
      <4>3. Legs[2] = trade.sell
        BY LegsType
      <4>4. Taken = 0
        BY <3>2, <3>4 DEF Taken
      <4>5. r.paid = trade.back - Amount - Taken
        <5>1. trade.back \in Nat /\ Amount \in Nat
          BY TradeNumbers, RoundTripAssumption
        <5> QED
          BY <3>4, <4>1, <4>2, <4>3, <4>4, <5>1
      <4> QED
        BY <3>2, <3>4, <4>2, <4>5
    <3> QED
      BY <3>1, <3>2, <3>3, <3>4
  <2> QED
    BY <2>1, <2>2, <2>3
<1>2. IndInv /\ [Next]_vars => [Kept]_vars
  BY <1>1
<1> QED
  BY <1>2, Invariance, PTL DEF Spec, PromiseKept

=============================================================================
