CONSTANTS
    NoRecord = NoRecord
    MaxAttempts = 1
    MaxWrites = 1
    MaxFaults = 2
    MaxOpens = 1
    MaxFetched = 1
SPECIFICATION FairSpec
INVARIANT WalletsKnown
PROPERTIES  RecordNeverOlder  RecordCatchesUp
CHECK_DEADLOCK FALSE
