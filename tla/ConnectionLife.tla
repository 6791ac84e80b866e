--------------------------- MODULE ConnectionLife ---------------------------
(***************************************************************************)
(* What the daemon's token store promises about operations: each has one   *)
(* life, of which no step is taken back, and only the commit that lives    *)
(* may be served.                                                          *)
(***************************************************************************)
EXTENDS Naturals

CONSTANT Ops

VARIABLES
    fate,       \* fate[o]: "new", "open", "live" or "over"
    conn,       \* conn[o]: the connection that o makes or refreshes, in the order made
    up          \* a connection is served

vars == <<fate, conn, up>>

Init ==
    /\ fate = [o \in Ops |-> "new"]
    /\ conn = [o \in Ops |-> 0]
    /\ up = FALSE

Open(o) ==
    /\ fate[o] = "new"
    /\ fate' = [fate EXCEPT ![o] = "open"]
    /\ UNCHANGED up

\* A Connect makes a connection later than all there have been, ...
Connect(o) ==
    /\ Open(o)
    /\ conn' = [conn EXCEPT ![o] = conn'[o]]
    /\ \A p \in Ops : conn[p] < conn'[o]

\* ... a Refresh is for the one that is served.
Refresh(o) ==
    /\ Open(o) /\ up
    /\ \E p \in Ops : fate[p] = "live" /\ conn' = [conn EXCEPT ![o] = conn[p]]

\* The commit of o takes the place of the one before.
Commit(o) ==
    /\ fate[o] = "open"
    /\ fate' = [p \in Ops |-> IF p = o THEN "live"
                              ELSE IF fate[p] = "live" THEN "over" ELSE fate[p]]
    /\ up' = TRUE
    /\ UNCHANGED conn

End(S) == fate' = [o \in Ops |-> IF o \in S /\ fate[o] # "new" THEN "over" ELSE fate[o]]

\* Cancel ends one operation, ...
Cancel(o) ==
    /\ fate[o] \in {"open", "live"}
    /\ up' = (up /\ fate[o] # "live")
    /\ UNCHANGED conn
    /\ End({o})

\* ... Disconnect all of the connection that is served, and of earlier ones.
Disconnect(p) ==
    /\ up /\ fate[p] = "live"
    /\ up' = FALSE
    /\ UNCHANGED conn
    /\ End({o \in Ops : conn[o] <= conn[p]})

\* A restored library ends the connections up to some point.
Restore ==
    /\ ~up
    /\ UNCHANGED <<up, conn>>
    /\ \E S \in SUBSET Ops :
          /\ \A o \in S, p \in Ops : conn[p] <= conn[o] => p \in S
          /\ End(S)

Crash ==
    /\ up' = FALSE
    /\ UNCHANGED <<fate, conn>>

Recover ==
    /\ up' = TRUE
    /\ \E o \in Ops : fate[o] = "live"
    /\ UNCHANGED <<fate, conn>>

Next ==
    \/ Crash \/ Recover \/ Restore
    \/ \E o \in Ops : Connect(o) \/ Refresh(o) \/ Commit(o) \/ Cancel(o) \/ Disconnect(o)

Spec == Init /\ [][Next]_vars
=============================================================================
