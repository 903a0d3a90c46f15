CONSTANTS
    Calls = {c1}
    Peers = {phone, tablet}
    Phone = phone
    Restarting = {tablet}
    MaxReissues = 2
SPECIFICATION FairSpec
INVARIANTS NothingLeftBehind SomethingPending SurfacedOnce
PROPERTIES KeepsPromise EveryCallAnswered
CHECK_DEADLOCK FALSE
