----------------------------- MODULE MCSqliteKV -----------------------------
(* A small instance of the two stores for TLC: two threads of one process   *)
(* and one of another on the key-value store, with a private row and a      *)
(* shared one, and a thread of each process on the log.                     *)
EXTENDS SqliteKV, TLC

CONSTANTS daemon, cli, daemonLog, cliLog, t1, t2, t3, a1, a2, token, idem

TwoProcesses ==
    [t \in Threads |-> CASE t = t3 -> cli [] t = a1 -> daemonLog
                         [] t = a2 -> cliLog [] OTHER -> daemon]

Rows == [k \in Keys |-> IF k = token THEN daemon ELSE Anyone]

Symmetric == Permutations({t1, t2})
=============================================================================
