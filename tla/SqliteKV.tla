------------------------------ MODULE SqliteKV ------------------------------
(***************************************************************************)
(* The two backends of gateway/persistence.py: the key-value store, and    *)
(* the append-only log in a database file of its own.  Each process opens  *)
(* one connection to a file and serialises its threads on it with a lock;  *)
(* a write is execute, then commit, and a write that fails must be rolled  *)
(* back, or the connection's open transaction would carry it into somebody *)
(* else's commit.  SQLite itself (external) lets one connection at a time  *)
(* have an open write transaction on a file.                               *)
(*                                                                         *)
(* Every call writes a value of its own, its number, so that a value in a  *)
(* table names the call it comes from.                                     *)
(***************************************************************************)
EXTENDS Integers, Sequences

CONSTANTS
    Conns,      \* connections, one per process and file
    LogConns,   \* those of them to the log's file
    Threads,    \* threads that call a store
    ConnOf,     \* ConnOf[t]: the connection t calls on
    Keys,
    NoKey,      \* the log has no keys
    Home,       \* Home[k]: the only connection that writes k, or Anyone
    Anyone,
    NoThread,
    MaxCalls    \* bound on the calls, for model checking only

ASSUME KVAssumption ==
    /\ LogConns \subseteq Conns
    /\ ConnOf \in [Threads -> Conns]
    /\ NoKey \notin Keys
    /\ Anyone \notin Conns
    /\ Home \in [Keys -> Conns \cup {Anyone}]
    /\ NoThread \notin Threads
    /\ MaxCalls \in Nat

VARIABLES
    disk,       \* disk[k]: the committed row of the key-value store, or Absent
    txn,        \* txn[n][k]: what n's open transaction makes of k, or Clean
    log,        \* the committed rows of the log, in the order of seq
    tail,       \* tail[n]: the rows that n's open transaction appends
    lock,       \* lock[n]: the thread that holds n's lock
    broken,     \* broken[n]: n was evicted
    kpc,        \* kpc[t]: the next step of t
    call,       \* call[t]: the call t makes
    calls,      \* the number of calls made so far
    acked,      \* the calls that returned
    failed      \* the calls that raised

tables == <<disk, txn, log, tail>>
ends == <<acked, failed>>
vars == <<tables, lock, broken, kpc, call, calls, ends>>

Absent == 0         \* no row
Clean == -1         \* not touched by the transaction

Methods == {"put", "claim", "delete", "update"}

Value == Nat

\* A call is known by its number, which is also the value it writes; found is
\* what update read.
Call == [op : Methods \cup {"append"}, key : Keys \cup {NoKey}, val : Nat, found : Value]

NoCall == [op |-> "append", key |-> NoKey, val |-> 0, found |-> Absent]

KVTypeOK ==
    /\ disk \in [Keys -> Value]
    /\ txn \in [Conns -> [Keys -> Value \cup {Clean}]]
    /\ log \in Seq(Nat)
    /\ tail \in [Conns -> Seq(Nat)]
    /\ lock \in [Conns -> Threads \cup {NoThread}]
    /\ broken \in [Conns -> BOOLEAN]
    /\ kpc \in [Threads -> {"idle", "read", "execute", "commit", "discard"}]
    /\ call \in [Threads -> Call]
    /\ calls \in Nat
    /\ acked \in SUBSET Nat
    /\ failed \in SUBSET Nat

Untouched == [k \in Keys |-> Clean]

KVInit ==
    /\ disk = [k \in Keys |-> Absent]
    /\ txn = [n \in Conns |-> Untouched]
    /\ log = <<>>
    /\ tail = [n \in Conns |-> <<>>]
    /\ lock = [n \in Conns |-> NoThread]
    /\ broken = [n \in Conns |-> FALSE]
    /\ kpc = [t \in Threads |-> "idle"]
    /\ call = [t \in Threads |-> NoCall]
    /\ calls = 0
    /\ acked = {}
    /\ failed = {}

-----------------------------------------------------------------------------
\* The table as connection n sees it, its own open transaction included.
Sees(n, k) == IF txn[n][k] = Clean THEN disk[k] ELSE txn[n][k]

InTransaction(n) == txn[n] # Untouched \/ tail[n] # <<>>

SameFile(m, n) == m \in LogConns <=> n \in LogConns

\* SQLite's write lock: no other connection to the file is in a transaction.
WriteLockFree(n) == \A m \in Conns \ {n} : SameFile(m, n) => ~InTransaction(m)

To(t, here, there) ==
    /\ kpc[t] = here
    /\ kpc' = [kpc EXCEPT ![t] = there]

\* The method of t ends and lets go of the lock.
Leave(t) ==
    /\ lock' = [lock EXCEPT ![ConnOf[t]] = NoThread]
    /\ kpc' = [kpc EXCEPT ![t] = "idle"]
    /\ call' = [call EXCEPT ![t] = NoCall]

\* ... with an exception.
Raise(t) ==
    /\ failed' = failed \cup {call[t].val}
    /\ Leave(t)

\* Mutant: the connection is used without its lock.
EnterUnlocked(t, m, k) ==
    /\ To(t, "idle", IF m = "update" THEN "read" ELSE "execute")
    /\ calls < MaxCalls
    /\ ~broken[ConnOf[t]]
    /\ lock' = [lock EXCEPT ![ConnOf[t]] = t]
    /\ call' = [call EXCEPT ![t] = [op |-> m, key |-> k, val |-> calls + 1, found |-> Absent]]
    /\ calls' = calls + 1
    /\ UNCHANGED <<tables, broken, ends>>

\* A mutator is called, waits for the lock and passes _ensure_live.
Enter(t, m, k) ==
    /\ To(t, "idle", IF m = "update" THEN "read" ELSE "execute")
    /\ calls < MaxCalls
    /\ lock[ConnOf[t]] = NoThread
    /\ ~broken[ConnOf[t]]
    /\ lock' = [lock EXCEPT ![ConnOf[t]] = t]
    /\ call' = [call EXCEPT ![t] = [op |-> m, key |-> k, val |-> calls + 1, found |-> Absent]]
    /\ calls' = calls + 1
    /\ UNCHANGED <<tables, broken, ends>>

\* SqliteKV's mutators, on the rows that the process writes.
EnterKV(t, m, k) ==
    /\ ConnOf[t] \notin LogConns
    /\ Home[k] \in {ConnOf[t], Anyone}
    /\ Enter(t, m, k)

\* SqliteAppendLog has one.
EnterAppend(t) == ConnOf[t] \in LogConns /\ Enter(t, "append", NoKey)

\* update's SELECT, outside of any transaction, and its fn.
Read(t) ==
    /\ To(t, "read", "execute")
    /\ call' = [call EXCEPT ![t].found = Sees(ConnOf[t], call[t].key)]
    /\ UNCHANGED <<tables, lock, broken, calls, ends>>

\* fn returns ABORT, and update returns it without a write.
AbortUpdate(t) ==
    /\ kpc[t] = "execute" /\ call[t].op = "update"
    /\ Leave(t)
    /\ UNCHANGED <<tables, broken, calls, ends>>

\* The row the statement leaves: an upsert, ON CONFLICT DO NOTHING, or none.
Written(t) ==
    LET old == Sees(ConnOf[t], call[t].key)
    IN  CASE call[t].op = "delete" -> Absent
          [] call[t].op = "claim" /\ old # Absent -> old
          [] OTHER -> call[t].val

Execute(t) ==
    /\ To(t, "execute", "commit")
    /\ call[t].op # "append"
    /\ WriteLockFree(ConnOf[t])
    /\ txn' = [txn EXCEPT ![ConnOf[t]][call[t].key] = Written(t)]
    /\ UNCHANGED <<disk, log, tail, lock, broken, call, calls, ends>>

\* append's INSERT: the next seq, after the rows that are there.
ExecuteAppend(t) ==
    /\ To(t, "execute", "commit")
    /\ call[t].op = "append"
    /\ WriteLockFree(ConnOf[t])
    /\ tail' = [tail EXCEPT ![ConnOf[t]] = Append(tail[ConnOf[t]], call[t].val)]
    /\ UNCHANGED <<disk, txn, log, lock, broken, call, calls, ends>>

\* The statement raises: the database is locked, or the disk fails.
ExecuteFails(t) ==
    /\ To(t, "execute", "discard")
    /\ UNCHANGED <<tables, lock, broken, call, calls, ends>>

\* n's transaction ends.
CloseTransaction(n) ==
    /\ txn' = [txn EXCEPT ![n] = Untouched]
    /\ tail' = [tail EXCEPT ![n] = <<>>]

\* commit makes the whole transaction durable, and the method returns.
Commit(t) ==
    /\ kpc[t] = "commit"
    /\ disk' = [k \in Keys |-> Sees(ConnOf[t], k)]
    /\ log' = log \o tail[ConnOf[t]]
    /\ CloseTransaction(ConnOf[t])
    /\ acked' = acked \cup {call[t].val}
    /\ Leave(t)
    /\ UNCHANGED <<broken, calls, failed>>

\* commit raises, and the transaction stays open.
CommitFails(t) ==
    /\ To(t, "commit", "discard")
    /\ UNCHANGED <<tables, lock, broken, call, calls, ends>>

\* Mutant: the failed write stays in the open transaction.
NoRollbackDone(t) ==
    /\ kpc[t] = "discard"
    /\ Raise(t)
    /\ UNCHANGED <<tables, broken, calls, acked>>

\* _discard_failed_write: the rollback works.
Rollback(t) ==
    /\ kpc[t] = "discard"
    /\ CloseTransaction(ConnOf[t])
    /\ Raise(t)
    /\ UNCHANGED <<disk, log, broken, calls, acked>>

\* The rollback fails too: the connection is evicted, and closing it gives the
\* transaction up or fails as well.
Evict(t) ==
    /\ kpc[t] = "discard"
    /\ broken' = [broken EXCEPT ![ConnOf[t]] = TRUE]
    /\ CloseTransaction(ConnOf[t]) \/ UNCHANGED <<txn, tail>>
    /\ Raise(t)
    /\ UNCHANGED <<disk, log, calls, acked>>

\* The process ends, with whatever it was doing, and a new one reopens the
\* database; what was not committed is gone. A process that _connect refuses, for
\* want of durability, makes no call: it is one that has not restarted yet.
Restart(n) ==
    LET ended == {t \in Threads : ConnOf[t] = n /\ kpc[t] # "idle"} IN
    /\ broken[n] \/ ended # {}
    /\ CloseTransaction(n)
    /\ lock' = [lock EXCEPT ![n] = NoThread]
    /\ broken' = [broken EXCEPT ![n] = FALSE]
    /\ kpc' = [t \in Threads |-> IF t \in ended THEN "idle" ELSE kpc[t]]
    /\ call' = [t \in Threads |-> IF t \in ended THEN NoCall ELSE call[t]]
    /\ failed' = failed \cup {call[t].val : t \in ended}
    /\ UNCHANGED <<disk, log, calls, acked>>

KVNext ==
    \/ \E t \in Threads :
          \/ \E m \in Methods, k \in Keys : EnterKV(t, m, k)
          \/ EnterAppend(t)
          \/ Read(t) \/ AbortUpdate(t) \/ Execute(t) \/ ExecuteAppend(t)
          \/ ExecuteFails(t) \/ Commit(t) \/ CommitFails(t) \/ Rollback(t) \/ Evict(t)
    \/ \E n \in Conns : Restart(n)

KVSpec == KVInit /\ [][KVNext]_vars

-----------------------------------------------------------------------------
\* A call that raised leaves no row, then or later: it is not folded into a
\* later commit of the same connection (gateway/persistence.py:84-88).
NoGhostWrites ==
    /\ \A k \in Keys : disk[k] \notin failed
    /\ \A i \in DOMAIN log : log[i] \notin failed

\* A claim that wins wrote a row where there was none, and a claim that loses
\* changed nothing, across processes too: what claim saw when it inserted is
\* what is committed when it commits.
ClaimIsTestAndSet ==
    [][\A t \in Threads : Commit(t) /\ call[t].op = "claim" =>
          LET k == call[t].key
          IN  disk'[k] = IF disk[k] = Absent THEN call[t].val ELSE disk[k]]_vars

\* update decides on the row it replaces: no other writer of the key comes
\* between its read and its commit, if one process alone writes the key.
UpdateIsAtomic ==
    [][\A t \in Threads : Commit(t) /\ call[t].op = "update" /\ Home[call[t].key] # Anyone =>
          call[t].found = disk[call[t].key]]_vars

\* A commit of the log adds the row of the very append that returns with it and
\* nothing else, so rows appear in the order in which appends return: a failed
\* append is not folded into a later one, which would "silently backdate" it
\* (gateway/persistence.py:277-280), and no other process's row is moved.
OneRowPerAppend ==
    [][log' # log => \E t \in Threads :
          /\ call[t].op = "append" /\ call[t].val \notin acked
          /\ acked' = acked \cup {call[t].val}
          /\ log' = Append(log, call[t].val)]_vars

\* Locks, transactions, rollbacks, evictions and restarts of several processes
\* add up to a store whose calls each take effect at one instant or not at all:
\* claim is a test-and-set, an update of a row that one process writes replaces
\* the very row it showed, a call that raised "leaves no change" then or later
\* (gateway/persistence.py:227-234).
Atomically == INSTANCE AtomicStore
    WITH Private <- {k \in Keys : Home[k] # Anyone},
         rows <- disk, entries <- log, running <- call, begun <- calls,
         returned <- acked, raised <- failed

ImplementsAtomicStore == Atomically!Spec
=============================================================================
