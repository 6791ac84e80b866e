SPECIFICATION Spec
CONSTANTS
    Ids = {p1}
    Keys = {}
    NoKey = NoKey
    NoId = NoId
    Workers = {w1, w2}
    TTL = 1
    MaxClock = 1
    AutoSend = TRUE
    Overlap = TRUE
    Mortal = {w1}
INVARIANTS
    SendsAreApprovedAndAudited
    SentIsTrue
PROPERTY
    ApprovedSettles
