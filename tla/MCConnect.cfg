SPECIFICATION ConnectSpec
CONSTANTS
    Flows = {f1, f2}
    NoFlow = NoFlow
    Ports = {q1}
    NoPort = NoPort
    Overlap = FALSE
INVARIANTS CodeIsOwn OnlyPinnedClient TokenOpens
PROPERTY EveryFlowEnds
CHECK_DEADLOCK FALSE
