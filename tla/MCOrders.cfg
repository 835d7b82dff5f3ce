SPECIFICATION Spec
CONSTANTS
    Instruments = {CE, PE}
    Quantities = {1, 2}
    Prices = {60, 110}
    Fee = 1
    MaxSignals = 3
    MaxDeaths = 1
    MaxFaults = 1
SYMMETRY Symmetry
CHECK_DEADLOCK FALSE
INVARIANTS
    CostBasis
    SessionIsSum
    LostFillsAreBounded
    AnnouncedSurvives
