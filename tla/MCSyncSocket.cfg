CONSTANTS
    MaxBlock = 2
    MaxResyncs = 1
    MaxBreaks = 1
    MaxInFlight = 2
SPECIFICATION FairSpec
INVARIANT BelievedIsKept
PROPERTIES RestoreEnds Synced
CHECK_DEADLOCK FALSE
