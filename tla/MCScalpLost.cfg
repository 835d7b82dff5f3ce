SPECIFICATION Spec
CONSTANTS
    Indices = {"NIFTY50"}
    Contracts = {"CE"}
    MaxConcurrent = 1
    CircuitLosses = 2
    Cooldown = 1
    TimeStop = 1
    MaxNow = 3
    Midnights = {3}
    MaxTrades = 3
    MaxCrashes = 0
INVARIANT OneTradePerIndex
