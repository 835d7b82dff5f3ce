SPECIFICATION Spec
CONSTANTS
    Rules = {"gaps", "stale"}
    Publishers = {"ingest", "candles"}
    MinSeverity = 2
    Dedup = 1
    KeyLife = 2
    MarkerLife = 3
    CritGaps = 1
    CritStale = 1
    MetricsStale = 0
    MaxGaps = 1
    MaxFaults = 1
PROPERTIES RefireIsCooled ResolvedOnce IngestDeathIsAnnounced
CHECK_DEADLOCK FALSE
