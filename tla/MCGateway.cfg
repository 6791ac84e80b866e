SPECIFICATION GatewaySpec
CONSTANTS
    Ids = {p1, p2}
    Keys = {k1}
    NoKey = NoKey
    NoId = NoId
    Threads = {t1, t2}
    Workers = {w1, w2}
    TTL = 1
    MaxClock = 1
    AutoSend = FALSE
    Overlap = FALSE
    Mortal = {}
SYMMETRY Symmetric
INVARIANTS
    OneMailPerKey
    SenderFindsPayload
    ClaimedKeyResolves
    OneProposalPerKey
    NoOrphans
    AtMostOneSend
    OutcomesAreTrue
    LedgerAgrees
PROPERTIES
    SettledForGood
    ImplementsOneMail
    ImplementsIdempotentIntake
