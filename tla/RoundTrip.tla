------------------------------ MODULE RoundTrip ------------------------------
(***************************************************************************)
(* One opportunity in numbers, from its two quotes to its "op" record:     *)
(* the quotes of _scan, the legs build_leg_params makes of the two DEX     *)
(* names, the trade, for another amount than the one quoted and through    *)
(* the pools the legs name, and its profit and fees in USD.  The market    *)
(* moves in between, and other workers use the cache of Prices too.        *)
(*                                                                         *)
(* A pool swaps at constant product, its fee left out.                     *)
(***************************************************************************)
EXTENDS Prices, Integers, FiniteSetsExt

CONSTANTS
    Dexes,     \* canonical names out of dex_list
    Tiers,     \* the fee tiers of the pair's Uniswap V3 pools, 3000 among them
    Levels,    \* what a pool may hold: <<base, quote>>, neither of them 0
    Amount,    \* default_base_amount: what the quotes are for
    Loans,     \* values of settings.loan_limit: what is traded
    MinPct,    \* settings.min_profit_pct
    Premium,   \* what Aave takes for each of the Loans
    Fees,      \* estimates of the gas in base token; 0 is among them
    Symbols    \* base tokens

Positive == Nat \ {0}

ASSUME RoundTripAssumption ==
    /\ Amount \in Nat \ {0}
    /\ Loans \subseteq Nat \ {0}
    /\ MinPct \in Nat
    /\ Premium \in [Loans -> Nat]
    /\ Fees \subseteq Nat
    /\ 0 \in Fees
    /\ 3000 \in Tiers
    /\ Levels \subseteq Positive \X Positive

None == -1   \* no pool, no quote, no price

VARIABLES
    pc,        \* see PCs
    symbol,    \* the base token
    market,    \* what each pool holds
    still,     \* nobody else has moved it since the forward quote
    trade,     \* the opportunity, from its quotes on: see NoTrade
    result,    \* the TxResult: see NoResult
    op         \* the figures of the "op" event: see NoOp

tripVars == <<pc, symbol, market, still, trade, result, op>>
vars     == <<tripVars, priceVars>>

-----------------------------------------------------------------------------
(* Pools                                                                   *)

UniswapV3  == "uniswap v3"
BalancerV2 == "balancer v2"

V2Names   == {"uniswap v2", "sushiswap", "shibaswap"}
Routers   == V2Names \cup {UniswapV3}                      \* DEX_ROUTER_CONFIG
LoanDexes == Routers \cup {"curve", BalancerV2, "fluid dex"}

\* The pools a DEX quotes: Uniswap V3 has one for each fee tier.
PoolsOf(d) == IF d = UniswapV3 THEN {d} \X Tiers ELSE {<<d, 0>>}
Pools      == UNION {PoolsOf(d) : d \in Dexes}

\* The pool a leg, or the router of the legacy flow, trades with.
LegPool(d) == IF d = UniswapV3 THEN <<d, 3000>> ELSE <<d, 0>>

\* The reserves in the order of the swap: what goes in, what comes out.
Reserves(m, pool, side) ==
    IF side = "buy" THEN m[pool] ELSE <<m[pool][2], m[pool][1]>>

Swap(r, a) == (r[2] * a) \div (r[1] + a)

\* A Balancer pool refuses more than 30% of what it holds (BAL#304).
Refuses(pool, r, a) == pool[1] = BalancerV2 /\ 10 * a > 3 * r[1]

\* The pool after a swap.
After(m, pool, side, a) ==
    LET out == Swap(Reserves(m, pool, side), a)
    IN  [m EXCEPT ![pool] = IF side = "buy" THEN <<@[1] + a, @[2] - out>>
                                            ELSE <<@[1] - out, @[2] + a>>]

-----------------------------------------------------------------------------
(* Quotes                                                                  *)

\* The part of a that is tried: _query_batch_swap tries all of it, a tenth
\* and a hundredth until the pool does not refuse; None if it always does.
Divisors == {1, 10, 100}
Divisor(pool, r, a) ==
    LET good == {n \in Divisors : a \div n > 0 /\ ~Refuses(pool, r, a \div n)}
    IN  IF good = {} THEN None ELSE Min(good)

\* What is quoted for one pool.
PoolQuote(m, pool, side, a) ==
    LET r == Reserves(m, pool, side)
        n == Divisor(pool, r, a)
    IN  IF n = None THEN 0 ELSE Swap(r, a \div n) * n

\* Was only a part of a tried?
Scaled(m, pool, side, a) == Divisor(pool, Reserves(m, pool, side), a) # 1

(***************************************************************************)
(* The pools a DEX may answer with: the best of those that answered, when  *)
(* those of A did.                                                         *)
(***************************************************************************)
BestOf(m, A, side, a) ==
    {pool \in A : /\ PoolQuote(m, pool, side, a) > 0
                  /\ \A o \in A : PoolQuote(m, o, side, a) <= PoolQuote(m, pool, side, a)}

-----------------------------------------------------------------------------
(* The beginning                                                           *)

NoTrade  == [buy |-> <<>>, sell |-> <<>>, bought |-> 0, back |-> 0, fees |-> 0,
             scaled |-> FALSE, loan |-> 0, got |-> 0]

\* paid is what the trade brought the wallet, whatever profit says.
NoResult == [flow |-> "none", ok |-> FALSE, why |-> "none", loan |-> 0,
             paid |-> 0, profit |-> 0, fees |-> 0, feesIn |-> "none"]

\* A figure of the event: the token it is in, the one whose price it was
\* multiplied by; {} before it is there.
NoOp     == [profit |-> {}, fees |-> {}, age |-> 0]
Trades  == [buy : Pools \cup {<<>>}, sell : Pools \cup {<<>>}, bought : Nat,
            back : Nat, fees : Fees, scaled : BOOLEAN, loan : Nat, got : Nat]
Results == [flow : {"none", "loan", "swaps"}, ok : BOOLEAN,
            why : {"none", "minimum", "refused", "other"}, loan : Nat, paid : Int,
            profit : Int, fees : Nat, feesIn : {"none", "base", "ETH"}]
Figures == [in : {"none", "base", "ETH"}, by : {"none", "base", "ETH"}]
Ops     == [profit : SUBSET Figures, fees : SUBSET Figures, age : Nat]
NoMarket == [pool \in Pools |-> <<0, 0>>]
AnyMarket == [Pools -> Levels]

\* The call, or the synchronous lookup, that comes next.
PCs == {"forward", "reverse", "fees", "dropped", "opportunity", "sell",
        "settled", "usd_profit", "usd_fees", "recorded"}

TypeOK ==
    /\ pc \in PCs
    /\ symbol \in Symbols
    /\ market \in [Pools -> Nat \X Nat]
    /\ still \in BOOLEAN
    /\ trade \in Trades
    /\ result \in Results
    /\ result.profit \in {0, result.paid}   \* the profit reported is true, or 0
    /\ op \in Ops
    /\ PriceTypeOK

Init ==
    /\ pc = "forward"
    /\ symbol \in Symbols
    /\ market = NoMarket
    /\ still = TRUE
    /\ trade = NoTrade
    /\ result = NoResult
    /\ op = NoOp
    /\ PriceInit

-----------------------------------------------------------------------------
(* The opportunity                                                         *)

\* The forward quote of one DEX, of those of its pools that answer.
Forward ==
    /\ pc = "forward"
    /\ market' \in AnyMarket
    /\ \E d \in Dexes : \E A \in SUBSET PoolsOf(d) :
       \E pool \in BestOf(market', A, "buy", Amount) :
          trade' = [NoTrade EXCEPT
                       !.buy = pool,
                       !.bought = PoolQuote(market', pool, "buy", Amount),
                       !.scaled = Scaled(market', pool, "buy", Amount)]
    /\ pc' = "reverse"
    /\ UNCHANGED <<symbol, still, result, op, priceVars>>

\* The reverse quote of one DEX, for what the forward quote has promised.
Reverse ==
    /\ pc = "reverse"
    /\ \E d \in Dexes : \E A \in SUBSET PoolsOf(d) :
       \E pool \in BestOf(market, A, "sell", trade.bought) :
          trade' = [trade EXCEPT
                       !.sell = pool,
                       !.back = PoolQuote(market, pool, "sell", trade.bought),
                       !.scaled = @ \/ Scaled(market, pool, "sell", trade.bought)]
    /\ pc' = "fees"
    /\ UNCHANGED <<symbol, market, still, result, op, priceVars>>

(***************************************************************************)
(* The fees are an estimate, or 0 when no DEX could price them.  What does *)
(* not pay is dropped.                                                     *)
(***************************************************************************)
Pays(fees) == 100 * (trade.back - Amount - fees) >= MinPct * Amount

Weigh ==
    /\ pc = "fees"
    /\ \E f \in Fees :
          /\ Pays(f)
          /\ trade' = [trade EXCEPT !.fees = f]
    /\ pc' = "opportunity"
    /\ UNCHANGED <<symbol, market, still, result, op, priceVars>>

Dismiss ==
    /\ pc = "fees"
    /\ \E f \in Fees : ~Pays(f)
    /\ pc' = "dropped"
    /\ market' = NoMarket
    /\ still' = TRUE
    /\ trade' = NoTrade
    /\ UNCHANGED <<symbol, result, op, priceVars>>

MarketMoves ==
    /\ pc \in {"reverse", "fees", "opportunity", "sell"}
    /\ \E pool \in Pools, level \in Levels :
          market' = [market EXCEPT ![pool] = level]
    /\ still' = FALSE
    /\ UNCHANGED <<pc, symbol, trade, result, op, priceVars>>

-----------------------------------------------------------------------------
(* The trade                                                               *)

\* Mutant of Legs: the DEXes change places.
LegsCrossed == <<LegPool(trade.sell[1]), LegPool(trade.buy[1])>>

Legs == <<LegPool(trade.buy[1]), LegPool(trade.sell[1])>>

\* The result is there: what led to it is not looked at again.  Of which
\* token all of it was is told only now, where it first matters.
Settle(r) ==
    /\ result' = r
    /\ pc' = "settled"
    /\ market' = NoMarket
    /\ still' = TRUE
    /\ trade' = NoTrade
    /\ symbol' \in Symbols
    /\ UNCHANGED <<op, priceVars>>

\* Mutant of MinProfit: of the amount that was quoted.
MinProfitOfQuote(loan) == (Amount * MinPct) \div 100

\* min_profit_wei, which the contract holds the trade to.
MinProfit(loan) == (loan * MinPct) \div 100

LoanResult(loan) ==
    [NoResult EXCEPT !.flow = "loan", !.loan = loan, !.feesIn = "ETH"]

\* Mutant of Reported: what came back is taken for the profit.
ReportedGross(paid, loan) == {0, paid + loan}

\* The profit of the ArbitrageExecuted event; 0 when it cannot be read.
Reported(paid, loan) == {0, paid}

(***************************************************************************)
(* _execute_flash_loan, mined: both legs in one transaction, which is      *)
(* reverted when a pool refuses, or when what is left after the loan and   *)
(* its premium are paid back misses the minimum.                           *)
(***************************************************************************)
LoanMined ==
    /\ pc = "opportunity"
    /\ {trade.buy[1], trade.sell[1]} \subseteq LoanDexes
    /\ \E loan \in Loans :
          LET r1  == Reserves(market, Legs[1], "buy")
              got == Swap(r1, loan)
              r2  == Reserves(After(market, Legs[1], "buy", loan), Legs[2], "sell")
              paid == Swap(r2, got) - loan - Premium[loan]
              refused == Refuses(Legs[1], r1, loan) \/ Refuses(Legs[2], r2, got)
              reverted == [LoanResult(loan) EXCEPT !.fees = 1]
          IN  \/ /\ ~refused
                 /\ paid >= MinProfit(loan)
                 /\ \E p \in Reported(paid, loan) :
                       Settle([reverted EXCEPT !.ok = TRUE, !.paid = paid,
                                               !.profit = p])
              \/ /\ ~refused
                 /\ paid < MinProfit(loan)
                 /\ Settle([reverted EXCEPT !.why = "minimum"])
              \/ refused /\ Settle([reverted EXCEPT !.why = "refused"])

(***************************************************************************)
(* No leg for a DEX, or one that cannot be built because the chain did not *)
(* answer; no key; or a transaction that is not mined: see TxExecutor.     *)
(***************************************************************************)
LoanFails ==
    /\ pc = "opportunity"
    /\ \E loan \in Loans : Settle([LoanResult(loan) EXCEPT !.why = "other"])

SwapsResult ==
    [NoResult EXCEPT !.flow = "swaps", !.loan = trade.loan, !.feesIn = "ETH"]

\* _execute_swap_pair: the purchase is mined, at whatever it brings.
Buy ==
    /\ pc = "opportunity"
    /\ {trade.buy[1], trade.sell[1]} \subseteq Routers
    /\ \E loan \in Loans :
          /\ trade' = [trade EXCEPT
                          !.loan = loan,
                          !.got = Swap(Reserves(market, Legs[1], "buy"), loan)]
          /\ market' = After(market, Legs[1], "buy", loan)
    /\ pc' = "sell"
    /\ UNCHANGED <<symbol, still, result, op, priceVars>>

\* The sale is mined, at whatever it brings.
Sell ==
    /\ pc = "sell"
    /\ LET paid == Swap(Reserves(market, Legs[2], "sell"), trade.got) - trade.loan
       IN  Settle([SwapsResult EXCEPT !.ok = TRUE, !.paid = paid, !.profit = paid,
                                      !.fees = 1])

\* Failed before the purchase, or after it: then the base token is spent.
SwapsFail ==
    /\ pc \in {"opportunity", "sell"}
    /\ Settle([SwapsResult EXCEPT !.why = "other", !.paid = -trade.loan])

\* The wallet has no key; the fees of the event are the estimate.
NotExecuted ==
    /\ pc = "opportunity"
    /\ Settle([NoResult EXCEPT !.fees = trade.fees, !.feesIn = "base"])

-----------------------------------------------------------------------------
(* The record                                                              *)

\* The token whose price a figure is multiplied by: the base of the pair.
TokenOf(unit) == "base"

(***************************************************************************)
(* to_usd: nothing is nothing in USD too; a figure without a price is      *)
(* recorded as it is.                                                      *)
(***************************************************************************)
Convert(amount, unit, field) ==
    \/ /\ amount = 0
       /\ op' = [op EXCEPT ![field] = {[in |-> unit, by |-> unit]}]
       /\ UNCHANGED priceVars
    \/ /\ amount # 0
       /\ \E p \in Rates \cup {1} :
             /\ Returns(symbol, p)
             /\ op' = [op EXCEPT ![field] = {[in |-> unit, by |-> TokenOf(unit)]},
                                 !.age = Max({@, AgeOf(symbol, p)})]
    \/ /\ amount # 0
       /\ ReturnsNone(symbol)
       /\ op' = [op EXCEPT ![field] = {[in |-> unit, by |-> "none"]}]

\* execute_arb has returned; no other worker has its turn until the post.
BeginRecord ==
    /\ pc = "settled"
    /\ call = {}
    /\ pc' = "usd_profit"
    /\ UNCHANGED <<symbol, market, still, trade, result, op, priceVars>>

ConvertProfit ==
    /\ pc = "usd_profit"
    /\ Convert(result.profit, "base", "profit")
    /\ pc' = "usd_fees"
    /\ UNCHANGED <<symbol, market, still, trade, result>>

\* The last figure: the event is posted.
ConvertFees ==
    /\ pc = "usd_fees"
    /\ Convert(result.fees, result.feesIn, "fees")
    /\ pc' = "recorded"
    /\ UNCHANGED <<symbol, market, still, trade, result>>

Lookup ==
    /\ \/ pc = "usd_profit" /\ result.profit # 0
       \/ pc = "usd_fees" /\ result.fees # 0
    /\ Ask(symbol) \/ NodeReads(symbol)
    /\ UNCHANGED tripVars

(***************************************************************************)
(* The prices other workers look up, and the time that passes.  All that   *)
(* comes before the record is counted here: no step before it looks at the *)
(* prices.                                                                 *)
(***************************************************************************)
OthersLookUp ==
    /\ pc = "settled"
    /\ \E t \in Routed :
          \/ Ask(t)
          \/ NodeReads(t)
          \/ call # {} /\ \E p \in Rates : Returns(t, p)
          \/ ReturnsNone(t)
    /\ UNCHANGED tripVars

TimePasses ==
    /\ pc \in {"settled", "usd_profit", "usd_fees"}
    /\ Tick \/ RateMoves
    /\ UNCHANGED tripVars

Over == pc \in {"dropped", "recorded"} /\ UNCHANGED vars

Next ==
    \/ Forward \/ Reverse \/ Weigh \/ Dismiss \/ MarketMoves
    \/ LoanMined \/ LoanFails \/ Buy \/ Sell \/ SwapsFail \/ NotExecuted
    \/ BeginRecord \/ ConvertProfit \/ ConvertFees \/ Lookup
    \/ OthersLookUp \/ TimePasses \/ Over

Spec == Init /\ [][Next]_vars

-----------------------------------------------------------------------------
(* Properties                                                              *)

\* The two quotes came from the pools the trade goes through.
AsQuoted ==
    /\ trade.buy # trade.sell
    /\ trade.buy = LegPool(trade.buy[1])
    /\ trade.sell = LegPool(trade.sell[1])

\* What a loan's premium takes of what the trade just settled brought back.
Taken == IF result'.flow = "loan" THEN Premium[result'.loan] ELSE 0

(***************************************************************************)
(* What an opportunity promises.  When the market has not moved, the trade *)
(* is for the amount quoted and through the pools quoted, and brings back  *)
(* what was quoted, a loan's premium taken from it; no pool refuses it.    *)
(* The premium is not among the fees an opportunity is weighed with: it    *)
(* alone can make such a loan miss its minimum, and only where it is more  *)
(* than those fees.  A quote scaled up from a part of the amount promises  *)
(* what cannot be: the same trade by flash loan never goes through.        *)
(***************************************************************************)
PromiseKept ==
    [][/\ pc \in {"opportunity", "sell"}
       /\ pc' = "settled"
       /\ result'.flow # "none"
       /\ still
       /\ AsQuoted
       /\ result'.loan = Amount
       => IF trade.scaled
            THEN ~result'.ok
            ELSE /\ result'.why # "refused"
                 /\ result'.why = "minimum" => trade.fees < Taken
                 /\ result'.ok => result'.paid = trade.back - Amount - Taken]_vars

(***************************************************************************)
(* A flash loan never costs the wallet base token, however the market has  *)
(* moved: it brings min_profit_pct of what was traded, or nothing happens. *)
(***************************************************************************)
LoanPaysOrReverts ==
    result.flow = "loan" =>
        IF result.ok THEN 100 * result.paid > result.loan * MinPct - 100
                     ELSE result.paid = 0

(***************************************************************************)
(* A price that is used was the token's price at some moment of the last   *)
(* CACHE_TTL_SEC, however long its call took and whichever worker asked.   *)
(***************************************************************************)
PricesAreFresh == op.age <= TTL

(***************************************************************************)
(* The inductive invariant behind the properties above: the market is one  *)
(* that can be traded with, and the figures of the opportunity are those   *)
(* of the pools for as long as nobody else moves them.                     *)
(***************************************************************************)
Quoted(pool, side, a, q) ==
    /\ pool \in Pools
    /\ q > 0
    /\ still => q = PoolQuote(market, pool, side, a)

ScaledBuy  == Scaled(market, trade.buy, "buy", Amount)
ScaledSell == Scaled(market, trade.sell, "sell", trade.bought)

Markets == [Pools -> Positive \X Positive]

QuotesHold ==
    /\ pc \in {"reverse", "fees", "opportunity", "sell"} => market \in Markets
    /\ pc \in {"reverse", "fees", "opportunity"} =>
          Quoted(trade.buy, "buy", Amount, trade.bought)
    /\ pc = "reverse" /\ still => (trade.scaled <=> ScaledBuy)
    /\ pc \in {"fees", "opportunity"} =>
          Quoted(trade.sell, "sell", trade.bought, trade.back)
    /\ pc \in {"fees", "opportunity"} /\ still =>
          (trade.scaled <=> ScaledBuy \/ ScaledSell)
    /\ pc = "opportunity" => Pays(trade.fees)

\* After the purchase of what was quoted the sale still brings what was quoted.
SaleHolds ==
    pc = "sell" =>
        /\ {trade.buy, trade.sell} \subseteq Pools
        /\ still /\ AsQuoted /\ trade.loan = Amount =>
              /\ ~trade.scaled
              /\ Swap(Reserves(market, trade.sell, "sell"), trade.got) = trade.back

IndInv ==
    /\ TypeOK
    /\ PricesInv
    /\ QuotesHold
    /\ SaleHolds
    /\ LoanPaysOrReverts
    /\ PricesAreFresh

(***************************************************************************)
(* The comment in _try_execute: profit and fees are normalised to USD      *)
(* before they are stored, for raw values would be summed as if they were  *)
(* in the same unit.                                                       *)
(***************************************************************************)
FiguresPricedInTheirUnit ==
    symbol # "WETH" =>
        \A f \in op.profit \cup op.fees : f.by \in {f.in, "none"}
=============================================================================
