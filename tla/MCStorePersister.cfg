CONSTANTS
    Wallets = {wa, wb}
    NoWallet = NoWallet
    NoRecord = NoRecord
    Bulk = {"transactions"}
    MaxOps = 2
    MaxKills = 1
    ReadsFail = TRUE
SPECIFICATION Spec
INVARIANTS BulkFollowsSession LegacyKept
PROPERTIES SessionChosen NewestSurvives
SYMMETRY WalletSymmetry
CHECK_DEADLOCK FALSE
