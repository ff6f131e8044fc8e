\* The auto swap loop, activated again while one of its swaps is pending.
SPECIFICATION HubWalletSpec
CONSTANTS
    Areas = {"swaps"}
    Ins = {}
    Outs = {"out1", "out2"}
    Plans <- ManyAutoSwaps
    Amounts = {10}
    SwapLimits <- TheSwapLimits
    MaxUpdates = 2
    MaxDeposits = 2
    Chans = {1, 2, 3}
    MaxOrders = 2
    OrderAmount = 250000
    FeeEstimate = 400
    ChannelVisits = {"onchain"}
    AppVisits = {"subwallet"}
    PlanAmounts = {9}
    PlanRates <- ThePlanRates
    MaxTx = 4
    ListSize = 2
    WalletVisits = {"pay"}
    Receipts = {2}
    JitTerms <- TheJitTerms
    CentSats = 2
INVARIANT OneAutoSwap
CHECK_DEADLOCK FALSE
