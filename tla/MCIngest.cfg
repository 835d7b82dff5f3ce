SPECIFICATION FairSpec
CONSTANTS
    Keys = {"k1", "k2"}
    CacheSize = 1
    BatchSize = 2
    MaxMessages = 4
    MaxSignals = 1
    MaxKills = 1
    MaxLives = 2
    MaxFaults = 1
CHECK_DEADLOCK FALSE
INVARIANTS
    WalFirst
    DedupIsExact
    
PROPERTY ShutdownEnds
