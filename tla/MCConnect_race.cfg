SPECIFICATION ConnectSpec
CONSTANTS
    Flows = {f1, f2}
    NoFlow = NoFlow
    Ports = {q1}
    NoPort = NoPort
    Overlap = TRUE
INVARIANT TokenOpens
CHECK_DEADLOCK FALSE
