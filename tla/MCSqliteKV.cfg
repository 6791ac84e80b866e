SPECIFICATION KVSpec
CONSTANTS
    daemon = daemon
    cli = cli
    daemonLog = daemonLog
    cliLog = cliLog
    t1 = t1
    t2 = t2
    t3 = t3
    a1 = a1
    a2 = a2
    token = token
    idem = idem
    Conns = {daemon, cli, daemonLog, cliLog}
    LogConns = {daemonLog, cliLog}
    Threads = {t1, t2, t3, a1, a2}
    ConnOf <- TwoProcesses
    Keys = {token, idem}
    NoKey = NoKey
    Home <- Rows
    Anyone = Anyone
    NoThread = NoThread
    MaxCalls = 3
SYMMETRY Symmetric
INVARIANT NoGhostWrites
PROPERTIES ImplementsAtomicStore OneRowPerAppend
CHECK_DEADLOCK FALSE
