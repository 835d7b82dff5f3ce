SPECIFICATION ReplaySpec
CONSTANTS
    Widths <- MCWidths
    Times = {0, 1, 2, 4}
    Prices = {10, 13}
    Strike = 11
    AtmRange = 1
    Cooldown = 2
    Sources = {"wal", "pg", "merged"}
    MaxTicks = 3
    MaxRuns = 2
INVARIANTS
    BuiltCandlesAreExact
    OnlyALateEndLeavesABucket
    GreeksSeeNoFuture
    RunsAgree
CHECK_DEADLOCK FALSE
