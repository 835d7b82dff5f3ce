SPECIFICATION FairSpec
CONSTANTS
    Step = 2
    Prices = {1, 2}
    Delay = 1
    MaxNow = 4
    MaxTicks = 4
    MaxCrashes = 2
    MaxFaults = 1
CHECK_DEADLOCK FALSE
INVARIANTS
    UnspoiledCandleIsExact
    NoBucketLost
PROPERTIES
    BucketIsClosed
    UnspoiledCandlesAreImmutable
