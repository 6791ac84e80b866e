SPECIFICATION DisconnectSpec
CONSTANTS
    Ops = {o1, o2, o3}
    NoOp = NoOp
    MaxGen = 3
SYMMETRY Symmetric
INVARIANTS
    DisconnectedStaysDown
    CancelledNeverLives
    RecoverableHasCredentials
    FreshFlowNotDoomed
    AckIsExact
    RevokeOutcomeIsTrue
PROPERTY ImplementsConnectionLife
