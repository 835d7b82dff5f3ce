SPECIFICATION Spec
CONSTANTS
    Strategies = {"orb"}
    Instruments = {CE, PE}
    Cooldown = 2
    Hour = 0
    Day = 3
    MaxPerHour = 1
    MaxPerDay = 2
    Lateness = 1
    MaxNow = 5
    MaxSignals = 3
    MaxStarts = 1
    MaxFaults = 1
SYMMETRY Symmetry
CHECK_DEADLOCK FALSE
INVARIANTS
    CooldownHolds
    RateHolds
    LoggedFirst
