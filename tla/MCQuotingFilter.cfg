SPECIFICATION Spec
CONSTANTS
    uniswap = uniswap
    uniswap_v2 = uniswap_v2
    fluid = fluid
    V2 = V2
    Fluid = Fluid
    Names = {uniswap, uniswap_v2, fluid}
    Adapters = {V2, Fluid}
    canonical <- MCcanonical
    Gated = {V2}
    Static = {Fluid}
    Pools = {1, 2}
    MaxOut = 2
INVARIANTS
    FilterNeedsNoNetwork
