\* A user at the screens for swaps, channels, connections and payments.
SPECIFICATION HubWalletSpec
CONSTANTS
    Areas = {"swaps", "channels", "apps", "wallet"}
    Ins = {"in1"}
    Outs = {"out1"}
    Plans <- ThePlans
    Amounts = {10}
    SwapLimits <- TheSwapLimits
    MaxUpdates = 2
    MaxDeposits = 2
    Chans = {1, 2, 3}
    MaxOrders = 2
    OrderAmount = 250000
    FeeEstimate = 400
    ChannelVisits = {"onchain", "twice", "lightning", "auto", "first", "manage"}
    AppVisits = {"subwallet", "new", "isolated", "shared", "internal", "planner"}
    PlanAmounts = {9, 150, 1000}
    PlanRates <- ThePlanRates
    MaxTx = 4
    ListSize = 2
    WalletVisits = {"pay", "coin", "get", "deposit", "export", "labels"}
    Receipts = {2, 3, 5, 7, 12}
    JitTerms <- TheJitTerms
    CentSats = 2
INVARIANTS
    HubWalletTypeOK
    SwapTellsTruth
    
    TopupIsEnough
    
    
    
    ExportIsComplete
PROPERTIES
    SwapsResolve
    GrantsAreConfirmed
\* Screens and the hub behind them come to rest when the user is done.
CHECK_DEADLOCK FALSE
