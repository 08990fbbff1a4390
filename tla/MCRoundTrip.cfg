SPECIFICATION Spec
CONSTANTS
    Dexes = {"uniswap v2", "uniswap v3", "balancer v2", "1inch"}
    Tiers = {500, 3000}
    Levels <- MCLevels
    Amount = 100
    Loans = {100, 800}
    MinPct = 2
    Premium <- MCPremium
    Fees = {0, 3}
    Symbols = {"WBTC", "USDC", "LINK"}
    Routed = {"WBTC"}
    Rates = {2, 3}
    TTL = 2
    CallTime = 2
INVARIANTS
    IndInv
    LoanPaysOrReverts
    PricesAreFresh
PROPERTIES
    PromiseKept
