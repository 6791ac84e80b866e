SPECIFICATION RefreshSpec
CONSTANTS
    n1 = n1
    n2 = n2
    t1 = t1
    t2 = t2
    t3 = t3
    Threads = {t1, t2, t3}
    Procs = {n1, n2}
    ProcOf <- TwoProcesses
    NoThread = NoThread
    Overlap = FALSE
    MaxGrants = 3
    MaxRotations = 4
INVARIANTS OneAuthority StillRefreshable OnlyStaleIsRefreshed
CHECK_DEADLOCK FALSE
