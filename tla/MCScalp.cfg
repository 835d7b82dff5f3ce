SPECIFICATION FairSpec
CONSTANTS
    Indices = {"NIFTY50", "SENSEX"}
    Contracts = {"CE"}
    MaxConcurrent = 1
    CircuitLosses = 2
    Cooldown = 1
    TimeStop = 2
    MaxNow = 3
    Midnights = {2}
    MaxTrades = 2
    MaxCrashes = 1
INVARIANTS
    OpenWithinCap
    HeldIsUnsold
    SoldOncePerThread
    CircuitHalts
PROPERTIES
    RestartLeavesNoOpenRow
    TimeStopFires
    ImplementsSlots
