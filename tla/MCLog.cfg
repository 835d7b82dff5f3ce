SPECIFICATION Spec
CONSTANTS
    FsyncEvery = 2
    MaxAppends = 5
    MaxSegments = 2
    MaxDeaths = 2
    MaxFaults = 1
CHECK_DEADLOCK FALSE
INVARIANTS
    ReturnedSurvivesKill
    LossIsBounded
    SeqAscendsWhileCounted
PROPERTY ImplementsAppendLog
