CONSTANTS
    Jobs = {j1, j2}
    NoJob = NoJob
    Chunks = 2
    MaxRuns = 2
SPECIFICATION FairSpec
INVARIANTS KeysOfActiveOnly ClaimedOnce
PROPERTIES FramesInOrder SealedByLiveJob SlotFreed
CHECK_DEADLOCK FALSE
