CONSTANTS
    Passwords = {p1, p2}
    FirstPassword = p1
    Passes = {t1}
    RowTexts = {"mnemonic"}
    ConfigTexts = {"totp"}
    ConfigKeys = {}
    RootFormats = {"legacy", "standard", "gpw2"}
    FlagFlips = FALSE
    NoPass = NoPass
    NoMem = NoMem
SPECIFICATION FairSpec
INVARIANTS ConfigFollowsPassword ClaimIsTrue
PROPERTIES NoDowngrade PassesEnd
CHECK_DEADLOCK FALSE
