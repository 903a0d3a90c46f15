CONSTANTS
    Passwords = {p1, p2}
    FirstPassword = p1
    Passes = {t1, t2}
    RowTexts = {"mnemonic"}
    ConfigTexts = {}
    ConfigKeys = {}
    RootFormats = {"legacy"}
    FlagFlips = FALSE
    NoPass = NoPass
    NoMem = NoMem
SPECIFICATION Spec
INVARIANT RowOpensWithCurrentPassword
CHECK_DEADLOCK FALSE
