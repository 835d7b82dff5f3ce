SPECIFICATION Spec
CONSTANTS
    Strikes = {10, 12}
    MinAgreement = 2
    RunThreshold = 2
    MinConfidence = 50
    MaxLoss = 3
    MinStop = 2
    Hysteresis = 0
    MinAge = 1
    TimeStop = 1
    Markets <- MCMarkets
    Answers <- MCAnswers
    Interval = 2
    Slippage = 1
    MaxNow = 2
    MaxMoves = 1
    MaxFaults = 1
INVARIANTS
    EntryIsEvenHanded
    AnswerIsFresh
PROPERTIES
    OverdueIsSold
CHECK_DEADLOCK FALSE
