CONSTANTS
    Passwords = {p1, p2}
    FirstPassword = p1
    Passes = {t1, t2}
    RowTexts = {"mnemonic"}
    ConfigTexts = {}
    ConfigKeys = {}
    RootFormats = {"standard"}
    FlagFlips = TRUE
    NoPass = NoPass
    NoMem = NoMem
SPECIFICATION Spec
INVARIANT RowOpensWithCurrentPassword
PROPERTY EquivalenceGate
SYMMETRY PassSymmetry
CHECK_DEADLOCK FALSE
