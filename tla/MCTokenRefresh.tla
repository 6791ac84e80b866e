--------------------------- MODULE MCTokenRefresh ---------------------------
(* Small instances of the token refresh for TLC. *)
EXTENDS TokenRefresh

CONSTANTS n1, n2, t1, t2, t3

\* Two threads of one process and one of another.
TwoProcesses == [t \in Threads |-> IF t = t3 THEN n2 ELSE n1]
=============================================================================
