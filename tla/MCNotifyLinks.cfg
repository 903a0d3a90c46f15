CONSTANTS
    MaxWallet = 2
    Thread = {t1}
    MaxEndpoint = 5
    MaxTag = 2
    MaxUi = 4
    MaxFault = 2
SPECIFICATION FairSpec
INVARIANT NoOrphan
PROPERTIES OptedOut QueueDrains Heals
CHECK_DEADLOCK FALSE
