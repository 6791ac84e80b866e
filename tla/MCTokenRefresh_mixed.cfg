SPECIFICATION RefreshSpec
CONSTANTS
    n1 = n1
    n2 = n2
    t1 = t1
    t2 = t2
    t3 = t3
    Threads = {t1, t2, t3}
    Procs = {n1, n2}
    ProcOf <- TwoProcesses
    NoThread = NoThread
    Overlap = TRUE
    MaxGrants = 3
    MaxRotations = 4
INVARIANT OneAuthority
CHECK_DEADLOCK FALSE
