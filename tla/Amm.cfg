SPECIFICATION Spec
CONSTANTS
    MinLiquidity = 2
    Q = 4
    MaxReserve = 45
    TimeMod = 64
    Period = 2
    Pools <- MCPools
    RouterPools <- MCRouterPools
    TokensOf <- MCTokensOf
    InitPools <- MCInitPools
    Paths <- MCPaths
    Averages <- MCAverages
    PoolA = "a"
    PoolB = "b"
    OraclePool = "a"
    Weth = "x"
    Amounts = {4, 9}
    MaxTime = 2
    MaxCalls = 2
    MaxCallbacks = 2
    FlashCost = 2
INVARIANTS ReservesCovered QuotesAreTight RouterQuotesHold AverageWithinWindow ProfitAsChecked
PROPERTY SharesKeepTheirWorth
CHECK_DEADLOCK FALSE
