SPECIFICATION StoredSpec
CONSTANTS
    Ids = {p1, p2}
    Keys = {}
    NoKey = NoKey
    NoId = NoId
    TTL = 1
    MaxClock = 1
    Workers = {w1, w2}
    AutoSend = FALSE
    Overlap = TRUE
    Mortal = {w1, w2}
    Calls = {w1, w2}
    RequestIds = {r1, r2}
    Grants = {g1}
    GrantVersions = {1, 2}
    NoVersion = 0
    d1 = d1
    d2 = d2
    Digests = {d1, d2}
    None = None
    MaxHeads = 2
    DecisionIds = {e1, e2}
    AutoGrants <- FirstVersions
    DigestOf <- TwoPayloads
SYMMETRY Symmetry
PROPERTY ImplementsAdmission
INVARIANTS SingleUse NoRollback HighWaterCovers Attributed CleanOutcomesAreRecorded
CHECK_DEADLOCK FALSE
