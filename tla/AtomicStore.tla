----------------------------- MODULE AtomicStore -----------------------------
(***************************************************************************)
(* What gateway/persistence.py promises its callers: every call takes      *)
(* effect at one instant and returns, or raises and has no effect at all.  *)
(* A call is known by its number, which is also the value it writes.       *)
(***************************************************************************)
EXTENDS Integers, Sequences

CONSTANTS
    Threads, Keys, NoKey,
    Private     \* the rows that only one process writes

VARIABLES
    rows,       \* rows[k]: the value of k, or Absent
    entries,    \* the log
    running,    \* running[t]: the call t makes, or NoCall
    begun,      \* the number of calls made so far
    returned,   \* the calls that returned
    raised      \* the calls that raised

vars == <<rows, entries, running, begun, returned, raised>>

Absent == 0

NoCall == [op |-> "append", key |-> NoKey, val |-> 0, found |-> Absent]

Busy(t) == running[t].val # 0

Init ==
    /\ rows = [k \in Keys |-> Absent]
    /\ entries = <<>>
    /\ running = [t \in Threads |-> NoCall]
    /\ begun = 0
    /\ returned = {} /\ raised = {}

Begin(t, op, k) ==
    /\ ~Busy(t)
    /\ begun' = begun + 1
    /\ running' = [running EXCEPT ![t] = [op |-> op, key |-> k, val |-> begun + 1, found |-> Absent]]
    /\ UNCHANGED <<rows, entries, returned, raised>>

\* update shows its caller the row.
Look(t) ==
    /\ Busy(t) /\ running[t].op = "update"
    /\ running' = [running EXCEPT ![t].found = rows[running[t].key]]
    /\ UNCHANGED <<rows, entries, begun, returned, raised>>

\* ... who may want no change.
Decline(t) ==
    /\ Busy(t) /\ running[t].op = "update"
    /\ running' = [running EXCEPT ![t] = NoCall]
    /\ UNCHANGED <<rows, entries, begun, returned, raised>>

\* A claim leaves a row that is there alone.
RowAfter(c, row) ==
    CASE c.op = "delete" -> Absent
      [] c.op = "claim" /\ row # Absent -> row
      [] OTHER -> c.val

WriteRow(c) ==
    /\ c.op # "append"
    /\ c.op = "update" /\ c.key \in Private => c.found = rows[c.key]
    /\ rows' = [rows EXCEPT ![c.key] = RowAfter(c, rows[c.key])]
    /\ UNCHANGED entries

WriteEntry(c) ==
    /\ c.op = "append"
    /\ entries' = Append(entries, c.val)
    /\ UNCHANGED rows

Return(t) ==
    /\ Busy(t)
    /\ WriteRow(running[t]) \/ WriteEntry(running[t])
    /\ returned' = returned \cup {running[t].val}
    /\ running' = [running EXCEPT ![t] = NoCall]
    /\ UNCHANGED <<begun, raised>>

\* A call raises, or a process ends with all its calls.
Raise(S) ==
    /\ \A t \in S : Busy(t)
    /\ raised' = raised \cup {running[t].val : t \in S}
    /\ running' = [t \in Threads |-> IF t \in S THEN NoCall ELSE running[t]]
    /\ UNCHANGED <<rows, entries, begun, returned>>

Next ==
    \/ \E t \in Threads :
          \/ \E op \in {"put", "claim", "delete", "update"}, k \in Keys : Begin(t, op, k)
          \/ Begin(t, "append", NoKey)
          \/ Look(t) \/ Decline(t) \/ Return(t)
    \/ \E S \in SUBSET Threads : Raise(S)

Spec == Init /\ [][Next]_vars
=============================================================================
