CONSTANTS
    Wallets = {wa, wb}
    NoWallet = NoWallet
    NoRecord = NoRecord
    Bulk = {"transactions"}
    MaxOps = 2
    MaxKills = 1
    ReadsFail = FALSE
SPECIFICATION FairSpec
PROPERTY EventuallyPersisted
CHECK_DEADLOCK FALSE
