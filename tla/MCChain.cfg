SPECIFICATION GreeksSpec
CONSTANTS
    Spots = {10, 13}
    Trigger = 3
    Strike = 11
    AtmRange = 1
    MaxTicks = 2
    MaxIndexTicks = 2
    MaxDepths = 1
    MaxOI = 1
    MaxBus = 2
    MaxRedisFaults = 1
    NONE = NONE
INVARIANTS CleanFieldsAreCurrent NoJumpMissed
PROPERTIES OpenInterestSettles
CHECK_DEADLOCK FALSE
