SPECIFICATION SiteSpec
CONSTANTS
    Pairs <- MCPairs
    Bases <- MCBases
    Worlds <- MCWorlds
    Token = "C"
    Amounts = {1, 2, 3, 12, 16, 60}
    Typed = {12}
    Balance <- MCBalance
    Slippage = 5
    MaxMoves = 1
    MaxTxs = 2
    Pools <- MCPools
    Selectable = {"ETH", "C", "D"}
    Opened <- MCOpened
    Approved <- MCApproved
    Liquidity = 4
    Trades <- MCTrades
    Percents = {100}
    Shares = {3}
    Tolerance = 10
    MaxTrades = 1
    MaxTasks = 2
    MaxSelects = 1
INVARIANTS SwapGivesWhatWasAccepted BestTradeIsBest WaitsOnlyInFlight RemovedAsShown PermitFits
CHECK_DEADLOCK FALSE
