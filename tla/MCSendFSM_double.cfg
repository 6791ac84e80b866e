SPECIFICATION Spec
CONSTANTS
    Ids = {p1}
    Keys = {}
    NoKey = NoKey
    NoId = NoId
    Workers = {w1, w2}
    TTL = 1
    MaxClock = 0
    AutoSend = FALSE
    Overlap = TRUE
    Mortal = {}
INVARIANT
    AtMostOneSend
