--------------------------- MODULE SqliteKVProofs ---------------------------
(***************************************************************************)
(* Proofs about SqliteKV for every set of connections, threads and keys.   *)
(***************************************************************************)
EXTENDS SqliteKV, SequenceTheorems, TLAPS

\* The number of a call is its own: it is fresh when the call is made, and the
\* call has either returned, or raised, or is still being made.
Numbers ==
    /\ \A i \in acked \cup failed : 0 < i /\ i <= calls
    /\ acked \cap failed = {}
    /\ \A t \in Threads : kpc[t] # "idle" =>
          /\ 0 < call[t].val /\ call[t].val <= calls
          /\ call[t].val \notin acked \cup failed
    /\ \A s, t \in Threads : kpc[s] # "idle" /\ kpc[t] # "idle" /\ s # t =>
          call[s].val # call[t].val

\* A thread at work holds its connection's lock, the connection is not evicted,
\* and the row is one that its process may write.
Locks ==
    /\ \A t \in Threads : kpc[t] # "idle" =>
          /\ lock[ConnOf[t]] = t
          /\ ~broken[ConnOf[t]]
          /\ call[t].op = "append" <=> ConnOf[t] \in LogConns
          /\ call[t].op # "append" => call[t].key \in Keys /\ Home[call[t].key] \in {ConnOf[t], Anyone}
    /\ \A t \in Threads : kpc[t] = "read" => call[t].op = "update"
    /\ \A n \in Conns : lock[n] # NoThread => ConnOf[lock[n]] = n /\ kpc[lock[n]] # "idle"

\* The statement of t is in its connection's transaction, and nothing else is.
Pending(t) ==
    LET n == ConnOf[t]
    IN  IF call[t].op = "append"
        THEN txn[n] = Untouched /\ tail[n] = <<call[t].val>>
        ELSE /\ tail[n] = <<>>
             /\ \A k \in Keys \ {call[t].key} : txn[n][k] = Clean
             /\ txn[n][call[t].key] =
                  CASE call[t].op = "delete" -> Absent
                    [] call[t].op = "claim" /\ disk[call[t].key] # Absent -> disk[call[t].key]
                    [] OTHER -> call[t].val

\* A connection between calls has no open transaction unless it is evicted; one
\* that is to commit has its own statement there; no two connections to a file
\* have one at once.
Transactions ==
    /\ \A n \in Conns : lock[n] = NoThread /\ ~broken[n] => ~InTransaction(n)
    /\ \A t \in Threads :
          /\ kpc[t] \in {"read", "execute"} => ~InTransaction(ConnOf[t])
          /\ kpc[t] = "commit" => Pending(t)
    /\ \A m, n \in Conns : m # n /\ SameFile(m, n) => ~InTransaction(m) \/ ~InTransaction(n)

\* What update found is still there, if its process alone writes the row.
Found ==
    \A t \in Threads :
        /\ kpc[t] \in {"execute", "commit"} /\ call[t].op = "update"
        /\ Home[call[t].key] # Anyone
        => call[t].found = disk[call[t].key]

\* Only calls that returned are in the tables.
Committed ==
    /\ \A k \in Keys : disk[k] \in acked \cup {Absent}
    /\ \A i \in DOMAIN log : log[i] \in acked

KVInv == Numbers /\ Locks /\ Transactions /\ Found /\ Committed

-----------------------------------------------------------------------------
\* The end of a transaction and the end of a call leave the types alone.
LEMMA Clears ==
    ASSUME KVTypeOK, NEW n \in Conns, CloseTransaction(n)
    PROVE  /\ txn' \in [Conns -> [Keys -> Value \cup {Clean}]]
           /\ tail' \in [Conns -> Seq(Nat)]
<1>1. Untouched \in [Keys -> Value \cup {Clean}]
  BY DEF Untouched
<1>2. <<>> \in Seq(Nat)
  OBVIOUS
<1>. QED
  BY <1>1, <1>2 DEF KVTypeOK, CloseTransaction

LEMMA Leaves ==
    ASSUME KVTypeOK, NEW t \in Threads, Leave(t)
    PROVE  /\ lock' \in [Conns -> Threads \cup {NoThread}]
           /\ kpc' \in [Threads -> {"idle", "read", "execute", "commit", "discard"}]
           /\ call' \in [Threads -> Call]
<1>1. NoCall \in Call
  BY DEF NoCall, Call, Value, Absent
<1>. QED
  BY <1>1, KVAssumption DEF KVTypeOK, Leave

LEMMA SeenIsValue ==
    ASSUME KVTypeOK, NEW n \in Conns, NEW k \in Keys
    PROVE  Sees(n, k) \in Value
BY DEF KVTypeOK, Sees

LEMMA TypeStep ==
    ASSUME KVTypeOK, Locks, [KVNext]_vars
    PROVE  KVTypeOK'
<1>. USE KVAssumption DEF tables, ends, To
<1>1. ASSUME NEW t \in Threads, NEW m \in Methods, NEW k \in Keys, EnterKV(t, m, k)
      PROVE  KVTypeOK'
  BY <1>1 DEF EnterKV, Enter, KVTypeOK, Call, Methods, Value, Absent
<1>2. ASSUME NEW t \in Threads, EnterAppend(t)
      PROVE  KVTypeOK'
  BY <1>2 DEF EnterAppend, Enter, KVTypeOK, Call, Methods, Value, Absent
<1>3. ASSUME NEW t \in Threads, Read(t)
      PROVE  KVTypeOK'
  <2>1. call[t].key \in Keys
    BY <1>3 DEF Read, Locks
  <2>2. Sees(ConnOf[t], call[t].key) \in Value
    BY <2>1, SeenIsValue
  <2>3. call' \in [Threads -> Call]
    BY <1>3, <2>2 DEF Read, KVTypeOK, Call
  <2>. QED
    BY <1>3, <2>3 DEF Read, KVTypeOK
<1>4. ASSUME NEW t \in Threads, AbortUpdate(t)
      PROVE  KVTypeOK'
  BY <1>4, Leaves DEF AbortUpdate, KVTypeOK
<1>5. ASSUME NEW t \in Threads, Execute(t)
      PROVE  KVTypeOK'
  <2>1. call[t].key \in Keys
    BY <1>5 DEF Execute, Locks
  <2>2. Written(t) \in Value
    BY <2>1, SeenIsValue DEF Written, Value, Absent, KVTypeOK, Call
  <2>3. txn' \in [Conns -> [Keys -> Value \cup {Clean}]]
    BY <1>5, <2>1, <2>2 DEF Execute, KVTypeOK
  <2>. QED
    BY <1>5, <2>3 DEF Execute, KVTypeOK
<1>6. ASSUME NEW t \in Threads, ExecuteAppend(t)
      PROVE  KVTypeOK'
  BY <1>6 DEF ExecuteAppend, KVTypeOK, Call
<1>7. ASSUME NEW t \in Threads, ExecuteFails(t)
      PROVE  KVTypeOK'
  BY <1>7 DEF ExecuteFails, KVTypeOK
<1>8. ASSUME NEW t \in Threads, Commit(t)
      PROVE  KVTypeOK'
  <2>1. disk' \in [Keys -> Value]
    BY <1>8, SeenIsValue DEF Commit
  <2>2. log' \in Seq(Nat)
    BY <1>8 DEF Commit, KVTypeOK
  <2>3. acked' \in SUBSET Nat
    BY <1>8 DEF Commit, KVTypeOK, Call
  <2>. QED
    BY <1>8, <2>1, <2>2, <2>3, Clears, Leaves DEF Commit, KVTypeOK
<1>9. ASSUME NEW t \in Threads, CommitFails(t)
      PROVE  KVTypeOK'
  BY <1>9 DEF CommitFails, KVTypeOK
<1>10. ASSUME NEW t \in Threads, Rollback(t)
      PROVE  KVTypeOK'
  <2>1. failed' \in SUBSET Nat
    BY <1>10 DEF Rollback, Raise, KVTypeOK, Call
  <2>. QED
    BY <1>10, <2>1, Clears, Leaves DEF Rollback, Raise, KVTypeOK
<1>11. ASSUME NEW t \in Threads, Evict(t)
      PROVE  KVTypeOK'
  <2>1. failed' \in SUBSET Nat
    BY <1>11 DEF Evict, Raise, KVTypeOK, Call
  <2>2. broken' \in [Conns -> BOOLEAN]
    BY <1>11 DEF Evict, KVTypeOK
  <2>3. txn' \in [Conns -> [Keys -> Value \cup {Clean}]] /\ tail' \in [Conns -> Seq(Nat)]
    BY <1>11, Clears DEF Evict, KVTypeOK
  <2>. QED
    BY <1>11, <2>1, <2>2, <2>3, Leaves DEF Evict, Raise, KVTypeOK
<1>12. ASSUME NEW n \in Conns, Restart(n)
      PROVE  KVTypeOK'
  <2>2. failed' \in SUBSET Nat
    <3>1. \A i \in failed' : i \in failed \/ \E t \in Threads : i = call[t].val
      BY <1>12 DEF Restart
    <3>2. \A t \in Threads : call[t].val \in Nat
      BY DEF KVTypeOK, Call
    <3>3. \A i \in failed : i \in Nat
      BY DEF KVTypeOK
    <3>4. \A i \in failed' : i \in Nat
      BY <3>1, <3>2, <3>3
    <3>. QED
      BY <3>4
  <2>3. call' \in [Threads -> Call]
    <3>1. NoCall \in Call
      BY DEF NoCall, Call, Value, Absent
    <3>. QED
      BY <1>12, <3>1 DEF Restart, KVTypeOK
  <2>4. kpc' \in [Threads -> {"idle", "read", "execute", "commit", "discard"}]
    BY <1>12 DEF Restart, KVTypeOK
  <2>5. lock' \in [Conns -> Threads \cup {NoThread}] /\ broken' \in [Conns -> BOOLEAN]
    BY <1>12 DEF Restart, KVTypeOK
  <2>. QED
    BY <1>12, <2>2, <2>3, <2>4, <2>5, Clears DEF Restart, KVTypeOK
<1>13. CASE UNCHANGED vars
  BY <1>13 DEF vars, KVTypeOK
<1>. QED
  BY <1>1, <1>2, <1>3, <1>4, <1>5, <1>6, <1>7, <1>8, <1>9,
     <1>10, <1>11, <1>12, <1>13 DEF KVNext
-----------------------------------------------------------------------------
\* The lock of a connection lets one thread at a time work on it.
LEMMA LocksStep ==
    ASSUME KVTypeOK, Locks, [KVNext]_vars
    PROVE  Locks'
<1>. USE KVAssumption DEF KVTypeOK, Locks, tables, ends, To
<1>1. ASSUME NEW t \in Threads, NEW m \in Methods, NEW k \in Keys, EnterKV(t, m, k)
      PROVE  Locks'
  BY <1>1 DEF EnterKV, Enter, Methods
<1>2. ASSUME NEW t \in Threads, EnterAppend(t)
      PROVE  Locks'
  BY <1>2 DEF EnterAppend, Enter
<1>3. ASSUME NEW t \in Threads, Read(t)
      PROVE  Locks'
  BY <1>3 DEF Read
<1>4. ASSUME NEW t \in Threads, AbortUpdate(t)
      PROVE  Locks'
  BY <1>4 DEF AbortUpdate, Leave
<1>5. ASSUME NEW t \in Threads, Execute(t)
      PROVE  Locks'
  BY <1>5 DEF Execute
<1>6. ASSUME NEW t \in Threads, ExecuteAppend(t)
      PROVE  Locks'
  BY <1>6 DEF ExecuteAppend
<1>7. ASSUME NEW t \in Threads, ExecuteFails(t)
      PROVE  Locks'
  BY <1>7 DEF ExecuteFails
<1>8. ASSUME NEW t \in Threads, Commit(t)
      PROVE  Locks'
  BY <1>8 DEF Commit, Leave
<1>9. ASSUME NEW t \in Threads, CommitFails(t)
      PROVE  Locks'
  BY <1>9 DEF CommitFails
<1>10. ASSUME NEW t \in Threads, Rollback(t)
      PROVE  Locks'
  BY <1>10 DEF Rollback, Raise, Leave
<1>11. ASSUME NEW t \in Threads, Evict(t)
      PROVE  Locks'
  BY <1>11 DEF Evict, Raise, Leave
<1>12. ASSUME NEW n \in Conns, Restart(n)
      PROVE  Locks'
  BY <1>12 DEF Restart
<1>13. CASE UNCHANGED vars
  BY <1>13 DEF vars
<1>. HIDE DEF KVTypeOK, Locks
<1>. QED
  BY <1>1, <1>2, <1>3, <1>4, <1>5, <1>6, <1>7, <1>8, <1>9,
     <1>10, <1>11, <1>12, <1>13 DEF KVNext

\* Every call counts up.
LEMMA NumbersStep ==
    ASSUME KVTypeOK, Numbers, [KVNext]_vars
    PROVE  Numbers'
<1>. USE KVAssumption DEF KVTypeOK, Numbers, Call, NoCall, tables, ends, To
<1>1. ASSUME NEW t \in Threads, NEW m \in Methods, NEW k \in Keys, EnterKV(t, m, k)
      PROVE  Numbers'
  BY <1>1 DEF EnterKV, Enter
<1>2. ASSUME NEW t \in Threads, EnterAppend(t)
      PROVE  Numbers'
  BY <1>2 DEF EnterAppend, Enter
<1>3. ASSUME NEW t \in Threads, Read(t)
      PROVE  Numbers'
  BY <1>3 DEF Read
<1>4. ASSUME NEW t \in Threads, AbortUpdate(t)
      PROVE  Numbers'
  BY <1>4 DEF AbortUpdate, Leave
<1>5. ASSUME NEW t \in Threads, Execute(t)
      PROVE  Numbers'
  BY <1>5 DEF Execute
<1>6. ASSUME NEW t \in Threads, ExecuteAppend(t)
      PROVE  Numbers'
  BY <1>6 DEF ExecuteAppend
<1>7. ASSUME NEW t \in Threads, ExecuteFails(t)
      PROVE  Numbers'
  BY <1>7 DEF ExecuteFails
<1>8. ASSUME NEW t \in Threads, Commit(t)
      PROVE  Numbers'
  BY <1>8 DEF Commit, Leave
<1>9. ASSUME NEW t \in Threads, CommitFails(t)
      PROVE  Numbers'
  BY <1>9 DEF CommitFails
<1>10. ASSUME NEW t \in Threads, Rollback(t)
      PROVE  Numbers'
  BY <1>10 DEF Rollback, Raise, Leave
<1>11. ASSUME NEW t \in Threads, Evict(t)
      PROVE  Numbers'
  BY <1>11 DEF Evict, Raise, Leave
<1>12. ASSUME NEW n \in Conns, Restart(n)
      PROVE  Numbers'
  <2>1. \A i \in failed' : i \in failed
           \/ \E s \in Threads : ConnOf[s] = n /\ kpc[s] # "idle" /\ i = call[s].val
    BY <1>12 DEF Restart
  <2>2. \A s \in Threads : kpc'[s] # "idle" => kpc[s] # "idle" /\ ConnOf[s] # n /\ call'[s] = call[s]
    BY <1>12 DEF Restart
  <2>3. acked' = acked /\ calls' = calls
    BY <1>12 DEF Restart
  <2>4. \A i \in acked' \cup failed' : 0 < i /\ i <= calls'
    BY <2>1, <2>3
  <2>5. acked' \cap failed' = {}
    <3>1. ASSUME NEW i \in acked', NEW s \in Threads, kpc[s] # "idle"  PROVE i # call[s].val
      BY <3>1, <2>3
    <3>2. ASSUME NEW i \in acked'  PROVE i \notin failed'
      BY <3>1, <3>2, <2>1, <2>3
    <3>. QED
      BY <3>2
  <2>6. \A s \in Threads : kpc'[s] # "idle" =>
           /\ 0 < call'[s].val /\ call'[s].val <= calls'
           /\ call'[s].val \notin acked' \cup failed'
    <3>. SUFFICES ASSUME NEW s \in Threads, kpc'[s] # "idle"
                  PROVE  /\ 0 < call'[s].val /\ call'[s].val <= calls'
                         /\ call'[s].val \notin acked' \cup failed'
      OBVIOUS
    <3>1. kpc[s] # "idle" /\ ConnOf[s] # n /\ call'[s] = call[s]
      BY <2>2
    <3>2. call[s].val \notin failed'
      <4>1. \A r \in Threads : ConnOf[r] = n /\ kpc[r] # "idle" => r # s /\ call[s].val # call[r].val
        BY <3>1
      <4>. QED
        BY <3>1, <4>1, <2>1
    <3>. QED
      BY <3>1, <3>2, <2>3
  <2>7. \A r, s \in Threads : kpc'[r] # "idle" /\ kpc'[s] # "idle" /\ r # s =>
           call'[r].val # call'[s].val
    BY <2>2
  <2>. QED
    BY <2>4, <2>5, <2>6, <2>7
<1>13. CASE UNCHANGED vars
  BY <1>13 DEF vars
<1>. HIDE DEF KVTypeOK, Numbers
<1>. QED
  BY <1>1, <1>2, <1>3, <1>4, <1>5, <1>6, <1>7, <1>8, <1>9,
     <1>10, <1>11, <1>12, <1>13 DEF KVNext

-----------------------------------------------------------------------------
\* How a step changes who is in a transaction.
LEMMA Closed ==
    ASSUME KVTypeOK, NEW n \in Conns, CloseTransaction(n)
    PROVE  /\ ~InTransaction(n)'
           /\ \A m \in Conns \ {n} : txn'[m] = txn[m] /\ tail'[m] = tail[m]
           /\ \A m \in Conns \ {n} : InTransaction(m)' <=> InTransaction(m)
BY DEF KVTypeOK, CloseTransaction, InTransaction

\* A connection that is to commit has something to commit.
LEMMA PendingIsOpen ==
    ASSUME KVTypeOK, Locks, NEW t \in Threads, kpc[t] = "commit", Pending(t)
    PROVE  InTransaction(ConnOf[t])
<1>1. CASE call[t].op = "append"
  <2>1. tail[ConnOf[t]] = <<call[t].val>>
    BY <1>1 DEF Pending
  <2>2. <<call[t].val>> # <<>>
    OBVIOUS
  <2>. QED
    BY <2>1, <2>2 DEF InTransaction
<1>2. CASE call[t].op # "append"
  <2>1. call[t].key \in Keys /\ call[t].val \in Nat
    BY <1>2 DEF KVTypeOK, Locks, Call
  <2>2. txn[ConnOf[t]][call[t].key] \in Nat
    BY <1>2, <2>1 DEF Pending, KVTypeOK, Value, Absent
  <2>3. txn[ConnOf[t]][call[t].key] # Clean
    BY <2>2 DEF Clean
  <2>. QED
    BY <2>1, <2>3 DEF InTransaction, Untouched
<1>. QED
  BY <1>1, <1>2

\* A commit touches no table that another connection is to commit to.
LEMMA CommitIsAlone ==
    ASSUME KVTypeOK, Locks, Transactions, NEW t \in Threads, Commit(t),
           NEW s \in Threads, kpc[s] = "commit", s # t, call[s].op # "append"
    PROVE  disk' = disk
<1>. USE KVAssumption
<1>. DEFINE n == ConnOf[t]
<1>1. ConnOf[s] # n /\ kpc[t] = "commit"
  BY DEF Commit, Locks
<1>2. Pending(s) /\ Pending(t)
  BY <1>1 DEF Transactions
<1>3. InTransaction(ConnOf[s]) /\ InTransaction(n)
  BY <1>1, <1>2, PendingIsOpen
<1>4. ~SameFile(ConnOf[s], n)
  BY <1>1, <1>3 DEF Transactions
<1>5. call[t].op = "append"
  BY <1>1, <1>4 DEF SameFile, Locks
<1>6. \A k \in Keys : Sees(n, k) = disk[k]
  BY <1>2, <1>5 DEF Pending, Sees, Untouched
<1>7. disk' = [k \in Keys |-> disk[k]]
  BY <1>6 DEF Commit
<1>. QED
  BY <1>7 DEF KVTypeOK

LEMMA TransactionsStep ==
    ASSUME KVTypeOK, Locks, Transactions, [KVNext]_vars
    PROVE  Transactions'
<1>. USE KVAssumption DEF tables, ends, To
<1>. DEFINE Same == txn' = txn /\ tail' = tail
<1>0. ASSUME Same
      PROVE  \A m \in Conns : InTransaction(m)' <=> InTransaction(m)
  BY <1>0 DEF InTransaction
\* The call of a thread that goes on, over an unchanged store.
<1>. DEFINE Kept(t) == Same /\ disk' = disk /\ call'[t] = call[t]
<1>00. ASSUME NEW t \in Threads, Kept(t)
       PROVE  Pending(t)' <=> Pending(t)
  BY <1>00 DEF Pending
<1>1. ASSUME NEW t \in Threads, NEW m \in Methods \cup {"append"}, NEW k \in Keys \cup {NoKey},
             Enter(t, m, k)
      PROVE  Transactions'
  <2>1. Same /\ disk' = disk
    BY <1>1 DEF Enter
  <2>2. lock[ConnOf[t]] = NoThread /\ ~broken[ConnOf[t]] /\ broken' = broken
    BY <1>1 DEF Enter
  <2>3. \A n \in Conns : lock'[n] = NoThread => lock[n] = NoThread
    BY <1>1 DEF Enter, KVTypeOK
  <2>4. \A s \in Threads \ {t} : kpc'[s] = kpc[s] /\ call'[s] = call[s]
    BY <1>1 DEF Enter, KVTypeOK
  <2>5. kpc'[t] \in {"read", "execute"}
    BY <1>1 DEF Enter, KVTypeOK
  <2>6. ~InTransaction(ConnOf[t])
    BY <2>2 DEF Transactions
  <2>7. \A s \in Threads \ {t} : Pending(s)' <=> Pending(s)
    BY <2>1, <2>4, <1>00
  <2>8. \A n \in Conns : InTransaction(n)' <=> InTransaction(n)
    BY <2>1, <1>0
  <2>. QED
    BY <2>2, <2>3, <2>4, <2>5, <2>6, <2>7, <2>8 DEF Transactions, SameFile
<1>2. ASSUME NEW t \in Threads, Read(t)
      PROVE  Transactions'
  <2>1. Same /\ disk' = disk /\ lock' = lock /\ broken' = broken
    BY <1>2 DEF Read
  <2>2. \A s \in Threads \ {t} : kpc'[s] = kpc[s] /\ call'[s] = call[s]
    BY <1>2 DEF Read, KVTypeOK
  <2>3. kpc[t] = "read" /\ kpc'[t] = "execute"
    BY <1>2 DEF Read, KVTypeOK
  <2>4. \A s \in Threads \ {t} : Pending(s)' <=> Pending(s)
    BY <2>1, <2>2, <1>00
  <2>5. \A n \in Conns : InTransaction(n)' <=> InTransaction(n)
    BY <2>1, <1>0
  <2>. QED
    BY <2>1, <2>2, <2>3, <2>4, <2>5 DEF Transactions, SameFile
<1>3. ASSUME NEW t \in Threads, AbortUpdate(t)
      PROVE  Transactions'
  <2>1. Same /\ disk' = disk /\ broken' = broken
    BY <1>3 DEF AbortUpdate
  <2>2. \A s \in Threads \ {t} : kpc'[s] = kpc[s] /\ call'[s] = call[s]
    BY <1>3 DEF AbortUpdate, Leave, KVTypeOK
  <2>3. kpc[t] = "execute" /\ kpc'[t] = "idle"
    BY <1>3 DEF AbortUpdate, Leave, KVTypeOK
  <2>4. \A s \in Threads \ {t} : Pending(s)' <=> Pending(s)
    BY <2>1, <2>2, <1>00
  <2>5. \A n \in Conns : InTransaction(n)' <=> InTransaction(n)
    BY <2>1, <1>0
  <2>6. ~InTransaction(ConnOf[t])
    BY <2>3 DEF Transactions
  <2>7. \A n \in Conns \ {ConnOf[t]} : lock'[n] = lock[n]
    BY <1>3 DEF AbortUpdate, Leave, KVTypeOK
  <2>. QED
    BY <2>1, <2>2, <2>3, <2>4, <2>5, <2>6, <2>7 DEF Transactions, SameFile
<1>4. ASSUME NEW t \in Threads, Execute(t) \/ ExecuteAppend(t)
      PROVE  Transactions'
  <2>. DEFINE n == ConnOf[t]
  <2>1. disk' = disk /\ lock' = lock /\ broken' = broken /\ call' = call
    BY <1>4 DEF Execute, ExecuteAppend
  <2>2. kpc[t] = "execute" /\ kpc'[t] = "commit" /\ \A s \in Threads \ {t} : kpc'[s] = kpc[s]
    BY <1>4 DEF Execute, ExecuteAppend, KVTypeOK
  <2>3. \A m \in Conns \ {n} : txn'[m] = txn[m] /\ tail'[m] = tail[m]
    BY <1>4 DEF Execute, ExecuteAppend, KVTypeOK
  <2>4. \A m \in Conns \ {n} : InTransaction(m)' <=> InTransaction(m)
    BY <2>3 DEF InTransaction
  <2>5. ~InTransaction(n) /\ lock[n] = t
    BY <2>2 DEF Transactions, Locks
  <2>6. \A s \in Threads \ {t} : kpc[s] # "idle" => ConnOf[s] # n
    BY <2>5 DEF Locks
  <2>7. \A s \in Threads \ {t} : kpc[s] # "idle" => (Pending(s)' <=> Pending(s))
    BY <2>1, <2>3, <2>6 DEF Pending
  <2>8. Pending(t)'
    <3>1. txn[n] = Untouched /\ tail[n] = <<>>
      BY <2>5 DEF InTransaction
    <3>2. CASE Execute(t)
      <4>1. call[t].op # "append" /\ call[t].key \in Keys
        BY <3>2, <2>2 DEF Execute, Locks
      <4>2. \A k \in Keys : Sees(n, k) = disk[k]
        BY <3>1 DEF Sees, Untouched
      <4>3. tail'[n] = <<>>
        BY <3>2, <3>1 DEF Execute
      <4>4. txn'[n] = [Untouched EXCEPT ![call[t].key] = Written(t)]
        BY <3>2, <3>1 DEF Execute, KVTypeOK
      <4>5. /\ txn'[n][call[t].key] = Written(t)
            /\ \A k \in Keys \ {call[t].key} : txn'[n][k] = Clean
        BY <4>1, <4>4 DEF Untouched
      <4>. QED
        BY <2>1, <4>1, <4>2, <4>3, <4>5 DEF Pending, Written
    <3>3. CASE ExecuteAppend(t)
      <4>1. call[t].op = "append" /\ txn'[n] = Untouched
        BY <3>3, <3>1 DEF ExecuteAppend
      <4>2. tail'[n] = Append(<<>>, call[t].val)
        BY <3>3, <3>1 DEF ExecuteAppend, KVTypeOK
      <4>3. tail'[n] = <<call[t].val>>
        BY <4>2 DEF KVTypeOK, Call
      <4>. QED
        BY <4>1, <4>3, <2>1 DEF Pending, Untouched
    <3>. QED
      BY <1>4, <3>2, <3>3
  <2>9. \A m \in Conns \ {n} : SameFile(m, n) => ~InTransaction(m)
    BY <1>4 DEF Execute, ExecuteAppend, WriteLockFree
  <2>. QED
    BY <2>1, <2>2, <2>4, <2>5, <2>6, <2>7, <2>8, <2>9 DEF Transactions, SameFile
<1>5. ASSUME NEW t \in Threads, ExecuteFails(t) \/ CommitFails(t)
      PROVE  Transactions'
  <2>1. Same /\ disk' = disk /\ lock' = lock /\ broken' = broken /\ call' = call
    BY <1>5 DEF ExecuteFails, CommitFails
  <2>2. kpc'[t] = "discard" /\ \A s \in Threads \ {t} : kpc'[s] = kpc[s]
    BY <1>5 DEF ExecuteFails, CommitFails, KVTypeOK
  <2>3. \A s \in Threads \ {t} : Pending(s)' <=> Pending(s)
    BY <2>1, <1>00
  <2>4. \A n \in Conns : InTransaction(n)' <=> InTransaction(n)
    BY <2>1, <1>0
  <2>. QED
    BY <2>1, <2>2, <2>3, <2>4 DEF Transactions, SameFile
\* A call ends, and its transaction with it.
<1>6. ASSUME NEW t \in Threads, Commit(t) \/ Rollback(t)
      PROVE  Transactions'
  <2>. DEFINE n == ConnOf[t]
  <2>1. CloseTransaction(n) /\ Leave(t) /\ broken' = broken
    BY <1>6 DEF Commit, Rollback, Raise
  <2>2. /\ ~InTransaction(n)'
        /\ \A m \in Conns \ {n} : txn'[m] = txn[m] /\ tail'[m] = tail[m]
        /\ \A m \in Conns \ {n} : InTransaction(m)' <=> InTransaction(m)
    BY <2>1, Closed
  <2>3. kpc'[t] = "idle" /\ \A s \in Threads \ {t} : kpc'[s] = kpc[s] /\ call'[s] = call[s]
    BY <2>1 DEF Leave, KVTypeOK
  <2>4. \A m \in Conns \ {n} : lock'[m] = lock[m]
    BY <2>1 DEF Leave, KVTypeOK
  <2>5. lock[n] = t
    BY <1>6 DEF Commit, Rollback, Locks
  <2>6. \A s \in Threads \ {t} : kpc[s] # "idle" => ConnOf[s] # n
    BY <2>5 DEF Locks
  <2>7. ASSUME NEW s \in Threads \ {t}, kpc[s] = "commit"
        PROVE  Pending(s)'
    <3>1. Pending(s)
      BY <2>7 DEF Transactions
    <3>2. call[s].op # "append" => disk' = disk
      <4>1. CASE Commit(t)
        BY <4>1, <2>7, CommitIsAlone
      <4>2. CASE Rollback(t)
        BY <4>2 DEF Rollback
      <4>. QED
        BY <1>6, <4>1, <4>2
    <3>. QED
      BY <2>2, <2>3, <2>6, <2>7, <3>1, <3>2 DEF Pending
  <2>. QED
    BY <2>1, <2>2, <2>3, <2>4, <2>5, <2>6, <2>7 DEF Transactions, SameFile
<1>7. ASSUME NEW t \in Threads, Evict(t)
      PROVE  Transactions'
  <2>. DEFINE n == ConnOf[t]
  <2>1. Leave(t) /\ disk' = disk /\ broken'[n] /\ \A m \in Conns \ {n} : broken'[m] = broken[m]
    BY <1>7 DEF Evict, Raise, KVTypeOK
  <2>2. /\ InTransaction(n)' => InTransaction(n)
        /\ \A m \in Conns \ {n} : txn'[m] = txn[m] /\ tail'[m] = tail[m]
        /\ \A m \in Conns \ {n} : InTransaction(m)' <=> InTransaction(m)
    <3>1. CASE CloseTransaction(n)
      BY <3>1, Closed
    <3>2. CASE UNCHANGED <<txn, tail>>
      BY <3>2, <1>0
    <3>. QED
      BY <1>7, <3>1, <3>2 DEF Evict
  <2>3. kpc'[t] = "idle" /\ \A s \in Threads \ {t} : kpc'[s] = kpc[s] /\ call'[s] = call[s]
    BY <2>1 DEF Leave, KVTypeOK
  <2>4. \A m \in Conns \ {n} : lock'[m] = lock[m]
    BY <2>1 DEF Leave, KVTypeOK
  <2>5. \A s \in Threads \ {t} : kpc[s] # "idle" => ConnOf[s] # n
    BY <1>7 DEF Evict, Locks
  <2>6. \A s \in Threads \ {t} : kpc[s] # "idle" => (Pending(s)' <=> Pending(s))
    BY <2>1, <2>2, <2>3, <2>5 DEF Pending
  <2>. QED
    BY <2>1, <2>2, <2>3, <2>4, <2>5, <2>6 DEF Transactions, SameFile
<1>8. ASSUME NEW n \in Conns, Restart(n)
      PROVE  Transactions'
  <2>1. disk' = disk /\ CloseTransaction(n)
    BY <1>8 DEF Restart
  <2>2. /\ ~InTransaction(n)'
        /\ \A m \in Conns \ {n} : txn'[m] = txn[m] /\ tail'[m] = tail[m]
        /\ \A m \in Conns \ {n} : InTransaction(m)' <=> InTransaction(m)
    BY <2>1, Closed
  <2>3. /\ \A s \in Threads : ConnOf[s] = n => kpc'[s] = "idle"
        /\ \A s \in Threads : ConnOf[s] # n => kpc'[s] = kpc[s] /\ call'[s] = call[s]
    BY <1>8 DEF Restart, KVTypeOK
  <2>4. \A m \in Conns \ {n} : lock'[m] = lock[m] /\ broken'[m] = broken[m]
    BY <1>8 DEF Restart, KVTypeOK
  <2>5. \A s \in Threads : ConnOf[s] # n => (Pending(s)' <=> Pending(s))
    BY <2>1, <2>2, <2>3 DEF Pending
  <2>. QED
    BY <2>2, <2>3, <2>4, <2>5 DEF Transactions, SameFile
<1>9. CASE UNCHANGED vars
  <2>1. Same /\ disk' = disk /\ call' = call /\ kpc' = kpc /\ lock' = lock /\ broken' = broken
    BY <1>9 DEF vars
  <2>2. \A s \in Threads : Pending(s)' <=> Pending(s)
    BY <2>1, <1>00
  <2>. QED
    BY <2>1, <2>2, <1>0 DEF Transactions, SameFile
<1>. QED
  BY <1>1, <1>2, <1>3, <1>4, <1>5, <1>6, <1>7, <1>8, <1>9 DEF KVNext, EnterKV, EnterAppend

-----------------------------------------------------------------------------
\* What a commit does to the tables: its own statement, and nothing else.
LEMMA CommitWrites ==
    ASSUME KVTypeOK, Locks, Transactions, NEW t \in Threads, Commit(t)
    PROVE  /\ kpc[t] = "commit"
           /\ call[t].op = "append" => disk' = disk /\ log' = Append(log, call[t].val)
           /\ call[t].op # "append" =>
                /\ log' = log
                /\ \A k \in Keys \ {call[t].key} : disk'[k] = disk[k]
                /\ call[t].key \in Keys
                /\ disk'[call[t].key] =
                     CASE call[t].op = "delete" -> Absent
                       [] call[t].op = "claim" /\ disk[call[t].key] # Absent -> disk[call[t].key]
                       [] OTHER -> call[t].val
<1>. USE KVAssumption
<1>. DEFINE n == ConnOf[t]
<1>1. kpc[t] = "commit" /\ n \in Conns /\ call[t].val \in Nat
  BY DEF Commit, KVTypeOK, Call
<1>2. Pending(t)
  BY <1>1 DEF Transactions
<1>3. disk' = [k \in Keys |-> Sees(n, k)] /\ log' = log \o tail[n]
  BY DEF Commit
<1>4. CASE call[t].op = "append"
  <2>1. \A k \in Keys : Sees(n, k) = disk[k]
    BY <1>2, <1>4 DEF Pending, Sees, Untouched
  <2>2. disk' = disk
    BY <1>3, <2>1 DEF KVTypeOK
  <2>3. log' = log \o <<call[t].val>>
    BY <1>2, <1>3, <1>4 DEF Pending
  <2>4. log' = Append(log, call[t].val)
    BY <1>1, <2>3, AppendIsConcat DEF KVTypeOK
  <2>. QED
    BY <1>1, <1>4, <2>2, <2>4
<1>5. CASE call[t].op # "append"
  <2>1. call[t].key \in Keys
    BY <1>1, <1>5 DEF Locks
  <2>2. log' = log
    <3>1. log \in Seq(Nat) /\ tail[n] = <<>>
      BY <1>2, <1>5 DEF Pending, KVTypeOK
    <3>. QED
      BY <1>3, <3>1, ConcatEmptySeq
  <2>3. \A k \in Keys \ {call[t].key} : disk'[k] = disk[k]
    BY <1>2, <1>3, <1>5 DEF Pending, Sees
  <2>4. txn[n][call[t].key] # Clean
    BY <1>1, <1>2, <1>5, <2>1 DEF Pending, KVTypeOK, Value, Absent, Clean
  <2>5. disk'[call[t].key] = txn[n][call[t].key]
    BY <1>3, <2>1, <2>4 DEF Sees
  <2>. QED
    BY <1>1, <1>2, <1>5, <2>1, <2>2, <2>3, <2>5 DEF Pending
<1>. QED
  BY <1>4, <1>5

\* Only a commit changes the tables.
LEMMA OnlyCommitWrites ==
    ASSUME [KVNext]_vars, \A t \in Threads : ~Commit(t)
    PROVE  disk' = disk /\ log' = log
BY DEF KVNext, EnterKV, EnterAppend, Enter, Read, AbortUpdate, Execute, ExecuteAppend,
       ExecuteFails, CommitFails, Rollback, Evict, Restart, vars, tables

LEMMA CommittedStep ==
    ASSUME KVTypeOK, Locks, Transactions, Committed, [KVNext]_vars
    PROVE  Committed'
<1>1. ASSUME NEW t \in Threads, Commit(t)
      PROVE  Committed'
  <2>1. acked' = acked \cup {call[t].val} /\ call[t].val \in Nat
    BY <1>1 DEF Commit, KVTypeOK, Call
  <2>2. CASE call[t].op = "append"
    <3>1. disk' = disk /\ log' = Append(log, call[t].val)
      BY <1>1, <2>2, CommitWrites
    <3>2. \A i \in DOMAIN log' : log'[i] \in acked'
      <4>1. log \in Seq(Nat)
        BY DEF KVTypeOK
      <4>. QED
        BY <2>1, <3>1, <4>1 DEF Committed
    <3>. QED
      BY <2>1, <3>1, <3>2 DEF Committed
  <2>3. CASE call[t].op # "append"
    BY <1>1, <2>1, <2>3, CommitWrites DEF Committed
  <2>. QED
    BY <2>2, <2>3
<1>2. CASE \A t \in Threads : ~Commit(t)
  <2>1. disk' = disk /\ log' = log
    BY <1>2, OnlyCommitWrites
  <2>2. acked \subseteq acked'
    BY <1>2 DEF KVNext, EnterKV, EnterAppend, Enter, Read, AbortUpdate, Execute, ExecuteAppend,
         ExecuteFails, CommitFails, Rollback, Evict, Restart, vars, ends
  <2>. QED
    BY <2>1, <2>2 DEF Committed
<1>. QED
  BY <1>1, <1>2

\* The row that update read is written by nobody else until it commits.
LEMMA FoundStep ==
    ASSUME KVTypeOK, Locks, Transactions, Found, [KVNext]_vars
    PROVE  Found'
<1>. USE KVAssumption
<1>. SUFFICES ASSUME NEW s \in Threads, kpc'[s] \in {"execute", "commit"},
                     call'[s].op = "update", Home[call'[s].key] # Anyone
              PROVE  call'[s].found = disk'[call'[s].key]
  BY DEF Found
<1>1. ASSUME NEW t \in Threads, Commit(t)
      PROVE  call'[s].found = disk'[call'[s].key]
  <2>1. s # t /\ kpc'[s] = kpc[s] /\ call'[s] = call[s]
    BY <1>1 DEF Commit, Leave, KVTypeOK
  <2>2. call[s].found = disk[call[s].key]
    BY <2>1 DEF Found
  <2>3. call[s].key \in Keys /\ Home[call[s].key] = ConnOf[s]
    BY <2>1 DEF Locks
  <2>4. ConnOf[s] # ConnOf[t]
    BY <1>1, <2>1 DEF Commit, Locks
  <2>5. disk'[call[s].key] = disk[call[s].key]
    <3>1. CASE call[t].op = "append"
      BY <1>1, <3>1, CommitWrites
    <3>2. CASE call[t].op # "append"
      <4>1. Home[call[t].key] \in {ConnOf[t], Anyone}
        BY <1>1, <3>2 DEF Commit, Locks
      <4>2. call[t].key # call[s].key
        BY <2>3, <2>4, <4>1
      <4>. QED
        BY <1>1, <2>3, <3>2, <4>2, CommitWrites
    <3>. QED
      BY <3>1, <3>2
  <2>. QED
    BY <2>1, <2>2, <2>5
<1>2. ASSUME \A t \in Threads : ~Commit(t)
      PROVE  call'[s].found = disk'[call'[s].key]
  <2>1. disk' = disk
    BY <1>2, OnlyCommitWrites
  <2>2. CASE Read(s)
    <3>1. kpc[s] = "read" /\ call' = [call EXCEPT ![s].found = Sees(ConnOf[s], call[s].key)]
      BY <2>2 DEF Read, To
    <3>2. call[s].key \in Keys
      BY <3>1 DEF Locks
    <3>3. ~InTransaction(ConnOf[s])
      BY <3>1 DEF Transactions
    <3>4. Sees(ConnOf[s], call[s].key) = disk[call[s].key]
      BY <3>2, <3>3 DEF Sees, InTransaction, Untouched
    <3>5. call'[s].found = Sees(ConnOf[s], call[s].key) /\ call'[s].key = call[s].key
      BY <3>1 DEF KVTypeOK, Call
    <3>. QED
      BY <2>1, <3>4, <3>5
  <2>3. CASE ~Read(s)
    <3>1. kpc[s] \in {"execute", "commit"} /\ call'[s] = call[s]
      <4>. USE DEF To, KVTypeOK
      <4>1. ASSUME NEW t \in Threads, NEW m \in Methods, NEW k \in Keys, EnterKV(t, m, k)
            PROVE  s # t /\ kpc'[s] = kpc[s] /\ call'[s] = call[s]
        BY <4>1 DEF EnterKV, Enter
      <4>2. ASSUME NEW t \in Threads, EnterAppend(t)
            PROVE  s # t /\ kpc'[s] = kpc[s] /\ call'[s] = call[s]
        BY <4>2 DEF EnterAppend, Enter
      <4>3. ASSUME NEW t \in Threads, Read(t)
            PROVE  s # t /\ kpc'[s] = kpc[s] /\ call'[s] = call[s]
        BY <2>3, <4>3 DEF Read
      <4>4. ASSUME NEW t \in Threads, Execute(t) \/ ExecuteAppend(t) \/ ExecuteFails(t) \/ CommitFails(t)
            PROVE  kpc[s] \in {"execute", "commit"} /\ call'[s] = call[s]
        BY <4>4 DEF Execute, ExecuteAppend, ExecuteFails, CommitFails
      <4>5. ASSUME NEW t \in Threads, AbortUpdate(t) \/ Rollback(t) \/ Evict(t)
            PROVE  s # t /\ kpc'[s] = kpc[s] /\ call'[s] = call[s]
        BY <4>5 DEF AbortUpdate, Rollback, Evict, Raise, Leave
      <4>6. ASSUME NEW n \in Conns, Restart(n)
            PROVE  kpc'[s] = kpc[s] /\ call'[s] = call[s]
        BY <4>6 DEF Restart
      <4>7. CASE UNCHANGED vars
        BY <4>7 DEF vars
      <4>. HIDE DEF To, KVTypeOK
      <4>. QED
        BY <1>2, <4>1, <4>2, <4>3, <4>4, <4>5, <4>6, <4>7 DEF KVNext
    <3>. QED
      BY <2>1, <3>1 DEF Found
  <2>. QED
    BY <2>2, <2>3
<1>. QED
  BY <1>1, <1>2

LEMMA KVInvHolds == KVSpec => [](KVTypeOK /\ KVInv)
<1>1. KVInit => KVTypeOK /\ KVInv
  <2>. SUFFICES ASSUME KVInit PROVE KVTypeOK /\ KVInv
    OBVIOUS
  <2>1. KVTypeOK
    <3>1. <<>> \in Seq(Nat) /\ NoCall \in Call
      BY DEF NoCall, Call, Value, Absent
    <3>2. disk \in [Keys -> Value] /\ txn \in [Conns -> [Keys -> Value \cup {Clean}]]
      BY DEF KVInit, Untouched, Value, Absent
    <3>. QED
      BY <3>1, <3>2 DEF KVInit, KVTypeOK
  <2>2. Numbers /\ Locks /\ Found
    BY DEF KVInit, Numbers, Locks, Found
  <2>3. Transactions
    BY DEF KVInit, Transactions, InTransaction
  <2>4. Committed
    BY DEF KVInit, Committed
  <2>. QED
    BY <2>1, <2>2, <2>3, <2>4 DEF KVInv
<1>2. KVTypeOK /\ KVInv /\ [KVNext]_vars => KVTypeOK' /\ KVInv'
  BY TypeStep, NumbersStep, LocksStep, TransactionsStep, FoundStep, CommittedStep DEF KVInv
<1>. QED
  BY <1>1, <1>2, PTL DEF KVSpec

-----------------------------------------------------------------------------
\* The rows, the transactions and the calls stay well-typed.
THEOREM KVTypeCorrect == KVSpec => []KVTypeOK
BY KVInvHolds, PTL

\* A call that raised never leaves a row in either store, however many threads,
\* connections and failures there are.
THEOREM FailedWritesStayOut == KVSpec => []NoGhostWrites
<1>1. KVInv => NoGhostWrites
  BY DEF KVInv, Numbers, Committed, NoGhostWrites, Absent
<1>. QED
  BY <1>1, KVInvHolds, PTL

\* A claim commits what it saw when it inserted, whoever else claims the row.
THEOREM ClaimsAreTestAndSet == KVSpec => ClaimIsTestAndSet
<1>. DEFINE Claims == \A t \in Threads : Commit(t) /\ call[t].op = "claim" =>
          LET k == call[t].key
          IN  disk'[k] = IF disk[k] = Absent THEN call[t].val ELSE disk[k]
<1>1. KVTypeOK /\ KVInv /\ [KVNext]_vars => [Claims]_vars
  BY CommitWrites DEF KVInv
<1>2. KVSpec => [][Claims]_vars
  BY <1>1, KVInvHolds, PTL DEF KVSpec
<1>. QED
  BY <1>2 DEF ClaimIsTestAndSet

\* No other writer comes between the read and the commit of an update.
THEOREM UpdatesAreAtomic == KVSpec => UpdateIsAtomic
<1>. DEFINE Updates == \A t \in Threads :
          Commit(t) /\ call[t].op = "update" /\ Home[call[t].key] # Anyone =>
              call[t].found = disk[call[t].key]
<1>1. KVTypeOK /\ KVInv /\ [KVNext]_vars => [Updates]_vars
  BY DEF KVInv, Found, Commit
<1>2. KVSpec => [][Updates]_vars
  BY <1>1, KVInvHolds, PTL DEF KVSpec
<1>. QED
  BY <1>2 DEF UpdateIsAtomic

\* The log grows by the row of the append that returns, one at a time.
THEOREM AppendsAreWhole == KVSpec => OneRowPerAppend
<1>. DEFINE Grows == log' # log => \E t \in Threads :
          /\ call[t].op = "append" /\ call[t].val \notin acked
          /\ acked' = acked \cup {call[t].val}
          /\ log' = Append(log, call[t].val)
<1>1. KVTypeOK /\ KVInv /\ [KVNext]_vars => [Grows]_vars
  <2>. SUFFICES ASSUME KVTypeOK, KVInv, [KVNext]_vars, log' # log
                PROVE  Grows
    OBVIOUS
  <2>1. PICK t \in Threads : Commit(t)
    BY OnlyCommitWrites
  <2>2. call[t].op = "append" /\ log' = Append(log, call[t].val) /\ kpc[t] = "commit"
    BY <2>1, CommitWrites DEF KVInv
  <2>. QED
    BY <2>1, <2>2 DEF KVInv, Numbers, Commit
<1>2. KVSpec => [][Grows]_vars
  BY <1>1, KVInvHolds, PTL DEF KVSpec
<1>. QED
  BY <1>2 DEF OneRowPerAppend

-----------------------------------------------------------------------------
\* A thread between calls holds nothing of its last one.
Resting == \A t \in Threads : kpc[t] = "idle" => call[t] = NoCall

LEMMA RestingStep ==
    ASSUME KVTypeOK, Resting, [KVNext]_vars
    PROVE  Resting'
<1>. USE DEF KVTypeOK, Resting, To, Leave
<1>1. ASSUME NEW t \in Threads, NEW m, NEW k, Enter(t, m, k)
      PROVE  Resting'
  BY <1>1 DEF Enter
<1>2. ASSUME NEW t \in Threads, Read(t) \/ AbortUpdate(t) \/ Execute(t) \/ ExecuteAppend(t)
      PROVE  Resting'
  BY <1>2 DEF Read, AbortUpdate, Execute, ExecuteAppend
<1>3. ASSUME NEW t \in Threads, ExecuteFails(t) \/ Commit(t) \/ CommitFails(t)
      PROVE  Resting'
  BY <1>3 DEF ExecuteFails, Commit, CommitFails
<1>4. ASSUME NEW t \in Threads, Rollback(t) \/ Evict(t)
      PROVE  Resting'
  BY <1>4 DEF Rollback, Evict, Raise
<1>5. ASSUME NEW n \in Conns, Restart(n)
      PROVE  Resting'
  BY <1>5 DEF Restart
<1>6. CASE UNCHANGED vars
  BY <1>6 DEF vars
<1>. HIDE DEF KVTypeOK, Resting, To, Leave
<1>. QED
  BY <1>1, <1>2, <1>3, <1>4, <1>5, <1>6 DEF KVNext, EnterKV, EnterAppend

LEMMA RestingHolds == KVSpec => []Resting
<1>1. KVInit => Resting
  BY DEF KVInit, Resting
<1>2. KVTypeOK /\ Resting /\ [KVNext]_vars => Resting'
  BY RestingStep
<1>. QED
  BY <1>1, <1>2, KVInvHolds, PTL DEF KVSpec

\* Seen from the atomic store, a thread is busy from its entry to its exit.
LEMMA BusyAtWork ==
    ASSUME KVTypeOK, KVInv, Resting, NEW t \in Threads
    PROVE  Atomically!Busy(t) <=> kpc[t] # "idle"
BY DEF KVTypeOK, KVInv, Numbers, Resting, NoCall, Atomically!Busy, Call

\* A commit is the instant at which its call takes effect.
LEMMA CommitReturns ==
    ASSUME KVTypeOK, KVInv, Resting, NEW t \in Threads, Commit(t)
    PROVE  Atomically!Return(t)
<1>1. /\ kpc[t] = "commit" /\ acked' = acked \cup {call[t].val}
      /\ call' = [call EXCEPT ![t] = NoCall] /\ UNCHANGED <<calls, failed>>
  BY DEF Commit, Leave
<1>2. Atomically!Busy(t) /\ NoCall = Atomically!NoCall
  BY <1>1, BusyAtWork DEF NoCall, Atomically!NoCall, Absent, Atomically!Absent
<1>3. CASE call[t].op = "append"
  <2>1. disk' = disk /\ log' = Append(log, call[t].val)
    BY <1>3, CommitWrites DEF KVInv
  <2>2. Atomically!WriteEntry(call[t])
    BY <1>3, <2>1 DEF Atomically!WriteEntry
  <2>. QED
    BY <1>1, <1>2, <2>2 DEF Atomically!Return
<1>4. CASE call[t].op # "append"
  <2>. DEFINE c == call[t]
              k == c.key
  <2>1. log' = log /\ k \in Keys /\ \A j \in Keys \ {k} : disk'[j] = disk[j]
    BY <1>4, CommitWrites DEF KVInv
  <2>2. disk'[k] = Atomically!RowAfter(c, disk[k])
    BY <1>4, CommitWrites DEF KVInv, Atomically!RowAfter, Absent, Atomically!Absent
  <2>3. disk' \in [Keys -> Value]
    BY TypeStep DEF KVInv, KVNext, KVTypeOK
  <2>4. disk' = [disk EXCEPT ![k] = Atomically!RowAfter(c, disk[k])]
    BY <2>1, <2>2, <2>3 DEF KVTypeOK
  <2>5. c.op = "update" /\ k \in {j \in Keys : Home[j] # Anyone} => c.found = disk[k]
    BY <1>1, <2>1 DEF KVInv, Found
  <2>6. Atomically!WriteRow(c)
    BY <1>4, <2>1, <2>4, <2>5 DEF Atomically!WriteRow
  <2>. QED
    BY <1>1, <1>2, <2>6 DEF Atomically!Return
<1>. QED
  BY <1>3, <1>4

\* A call that raises, or all calls of a process that ends, leave without effect.
LEMMA RaisesSimulated ==
    ASSUME KVTypeOK, KVInv, Resting
    PROVE  /\ \A t \in Threads : Rollback(t) \/ Evict(t) => Atomically!Raise({t})
           /\ \A n \in Conns : Restart(n) =>
                 \E S \in SUBSET Threads : Atomically!Raise(S)
<1>0. NoCall = Atomically!NoCall
  BY DEF NoCall, Atomically!NoCall, Absent, Atomically!Absent
<1>1. ASSUME NEW t \in Threads, Rollback(t) \/ Evict(t)
      PROVE  Atomically!Raise({t})
  <2>1. /\ kpc[t] = "discard" /\ failed' = failed \cup {call[t].val}
        /\ call' = [call EXCEPT ![t] = NoCall] /\ UNCHANGED <<disk, log, calls, acked>>
    BY <1>1 DEF Rollback, Evict, Raise, Leave
  <2>2. Atomically!Busy(t)
    BY <2>1, BusyAtWork
  <2>3. call' = [s \in Threads |-> IF s \in {t} THEN NoCall ELSE call[s]]
    BY <2>1 DEF KVTypeOK
  <2>. QED
    BY <1>0, <2>1, <2>2, <2>3 DEF Atomically!Raise
<1>2. ASSUME NEW n \in Conns, Restart(n)
      PROVE  \E S \in SUBSET Threads : Atomically!Raise(S)
  <2>. DEFINE ended == {t \in Threads : ConnOf[t] = n /\ kpc[t] # "idle"}
  <2>1. /\ failed' = failed \cup {call[t].val : t \in ended}
        /\ call' = [t \in Threads |-> IF t \in ended THEN NoCall ELSE call[t]]
        /\ UNCHANGED <<disk, log, calls, acked>>
    BY <1>2 DEF Restart
  <2>2. \A t \in ended : Atomically!Busy(t)
    BY BusyAtWork
  <2>3. ended \in SUBSET Threads
    OBVIOUS
  <2>. HIDE DEF ended
  <2>4. Atomically!Raise(ended)
    BY <1>0, <2>1, <2>2 DEF Atomically!Raise
  <2>. QED
    BY <2>3, <2>4
<1>. QED
  BY <1>1, <1>2

LEMMA AtomicStep ==
    ASSUME KVTypeOK, KVInv, Resting, [KVNext]_vars
    PROVE  Atomically!Next \/ UNCHANGED Atomically!vars
<1>. USE KVAssumption DEF tables, ends, To
<1>0. NoCall = Atomically!NoCall /\ Absent = Atomically!Absent
  BY DEF NoCall, Atomically!NoCall, Absent, Atomically!Absent
<1>1. ASSUME NEW t \in Threads, NEW m, NEW k, Enter(t, m, k)
      PROVE  Atomically!Begin(t, m, k)
  <2>1. ~Atomically!Busy(t)
    BY <1>1, BusyAtWork DEF Enter
  <2>. QED
    BY <1>0, <1>1, <2>1 DEF Enter, Atomically!Begin
<1>2. ASSUME NEW t \in Threads, NEW m \in Methods, NEW k \in Keys, EnterKV(t, m, k)
      PROVE  Atomically!Next
  <2>1. Atomically!Begin(t, m, k)
    BY <1>1, <1>2 DEF EnterKV
  <2>. QED
    BY <2>1 DEF Atomically!Next, Methods
<1>3. ASSUME NEW t \in Threads, EnterAppend(t)
      PROVE  Atomically!Next
  <2>1. Atomically!Begin(t, "append", NoKey)
    BY <1>1, <1>3 DEF EnterAppend
  <2>. QED
    BY <2>1 DEF Atomically!Next
<1>4. ASSUME NEW t \in Threads, Read(t)
      PROVE  Atomically!Next
  <2>1. kpc[t] = "read" /\ call[t].op = "update" /\ call[t].key \in Keys
    BY <1>4 DEF Read, KVInv, Locks
  <2>2. Atomically!Busy(t)
    BY <2>1, BusyAtWork
  <2>3. Sees(ConnOf[t], call[t].key) = disk[call[t].key]
    <3>1. ~InTransaction(ConnOf[t])
      BY <2>1 DEF KVInv, Transactions
    <3>. QED
      BY <2>1, <3>1 DEF InTransaction, Sees, Untouched
  <2>4. Atomically!Look(t)
    BY <1>4, <2>1, <2>2, <2>3 DEF Read, Atomically!Look
  <2>. QED
    BY <2>4 DEF Atomically!Next
<1>5. ASSUME NEW t \in Threads, AbortUpdate(t)
      PROVE  Atomically!Next
  <2>1. Atomically!Busy(t)
    BY <1>5, BusyAtWork DEF AbortUpdate
  <2>2. Atomically!Decline(t)
    BY <1>0, <1>5, <2>1 DEF AbortUpdate, Leave, Atomically!Decline
  <2>. QED
    BY <2>2 DEF Atomically!Next
<1>6. ASSUME NEW t \in Threads, Execute(t) \/ ExecuteAppend(t) \/ ExecuteFails(t) \/ CommitFails(t)
      PROVE  UNCHANGED Atomically!vars
  BY <1>6 DEF Execute, ExecuteAppend, ExecuteFails, CommitFails, Atomically!vars
<1>7. ASSUME NEW t \in Threads, Commit(t)
      PROVE  Atomically!Next
  BY <1>7, CommitReturns DEF Atomically!Next
<1>8. ASSUME NEW t \in Threads, Rollback(t) \/ Evict(t)
      PROVE  Atomically!Next
  <2>1. Atomically!Raise({t}) /\ {t} \in SUBSET Threads
    BY <1>8, RaisesSimulated
  <2>. QED
    BY <2>1 DEF Atomically!Next
<1>9. ASSUME NEW n \in Conns, Restart(n)
      PROVE  Atomically!Next
  BY <1>9, RaisesSimulated DEF Atomically!Next
<1>10. CASE UNCHANGED vars
  BY <1>10 DEF vars, Atomically!vars
<1>. QED
  BY <1>2, <1>3, <1>4, <1>5, <1>6, <1>7, <1>8, <1>9, <1>10 DEF KVNext

\* For every number of processes, threads and rows, with statements, commits and
\* rollbacks failing and processes dying anywhere, the two backends implement a
\* store whose calls take effect at one instant, their commit, or never.
THEOREM StoreIsAtomic == KVSpec => ImplementsAtomicStore
<1>1. KVInit => Atomically!Init
  BY DEF KVInit, Atomically!Init, NoCall, Atomically!NoCall, Absent, Atomically!Absent
<1>2. KVTypeOK /\ KVInv /\ Resting /\ [KVNext]_vars => [Atomically!Next]_(Atomically!vars)
  BY AtomicStep
<1>. QED
  BY <1>1, <1>2, KVInvHolds, RestingHolds, PTL
     DEF KVSpec, ImplementsAtomicStore, Atomically!Spec
=============================================================================
