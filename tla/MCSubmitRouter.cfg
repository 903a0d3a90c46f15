CONSTANTS
    Submits = {s1, s2}
    Origins = {oa}
    Pages = {pa, pb}
    MaxSettings = 2
    NoConfig = NoConfig
    Unread = Unread
    NoKey = NoKey
    NoResult = NoResult
    NoRequest = NoRequest
    NoForm = NoForm
SPECIFICATION RouterSpec
INVARIANTS GeroOnlyIfAllowed RejectedMeansRejected LastResultTrue
SYMMETRY RouterSymmetry
CHECK_DEADLOCK FALSE
