------------------------- MODULE TokenRefreshProofs -------------------------
(***************************************************************************)
(* Proofs about TokenRefresh for every set of threads and processes.       *)
(***************************************************************************)
EXTENDS TokenRefresh, TLAPS

\* Whoever refreshes has found a record, and there is one from then on.
Found ==
    \A t \in Threads :
        /\ rpc[t] # "idle" => sealed \in Sealed
        /\ rpc[t] \in {"reopen", "reseal"} => answer[t].access \in Grants
        /\ rpc[t] = "reseal" => current[t] \in Sealed

\* Without overlapping processes one thread at a time is past the lock.
Alone ==
    /\ \A t \in Threads : rpc[t] # "idle" => owner[ProcOf[t]] = t
    /\ \A s, t \in Threads : rpc[s] # "idle" /\ rpc[t] # "idle" => s = t

\* What it read is what is sealed, but for an expiry in between; and it refreshes
\* only what was stale.
Current ==
    \A t \in Threads :
        /\ rpc[t] # "idle" =>
              /\ record[t].access = sealed.access /\ record[t].grant = sealed.grant
              /\ record[t].refresh = sealed.refresh
              /\ sealed.fresh => record[t].fresh
        /\ rpc[t] \in {"post", "reopen", "reseal"} => ~record[t].fresh
        /\ rpc[t] = "reseal" => current[t] = sealed

\* Until it writes, the answer it holds knows the refresh token that Google
\* accepts.
Answered ==
    \A t \in Threads : rpc[t] \in {"reopen", "reseal"} =>
        /\ answer[t].access = record[t].grant
        /\ latest[record[t].grant] = IF answer[t].rotated = 0 THEN record[t].refresh
                                     ELSE answer[t].rotated

RefreshInv == Current /\ Answered /\ OneAuthority /\ StillRefreshable

-----------------------------------------------------------------------------
\* A call that ends leaves the others as they are.
LEMMA Leaves ==
    ASSUME RefreshTypeOK, NEW t \in Threads, Leave(t)
    PROVE  /\ rpc' \in [Threads -> {"idle", "check", "post", "reopen", "reseal"}]
           /\ owner' \in [Procs -> Threads \cup {NoThread}]
           /\ record' \in [Threads -> Sealed \cup {Nothing}]
           /\ answer' \in [Threads -> Answer]
           /\ current' \in [Threads -> Sealed \cup {Nothing}]
           /\ rpc'[t] = "idle"
           /\ \A s \in Threads \ {t} : /\ rpc'[s] = rpc[s] /\ record'[s] = record[s]
                                      /\ answer'[s] = answer[s] /\ current'[s] = current[s]
<1>1. NoAnswer \in Answer
  BY RefreshAssumption DEF NoAnswer, Answer
<1>. QED
  BY <1>1, RefreshAssumption DEF RefreshTypeOK, Leave

\* A record once sealed is only ever replaced by another.
LEMMA TypeStep ==
    ASSUME RefreshTypeOK, Found, [RefreshNext]_vars
    PROVE  (RefreshTypeOK /\ Found)'
<1>. USE RefreshAssumption DEF Step
<1>1. ASSUME NEW refresh \in {0, 1}, NEW timed \in BOOLEAN, Authorize(refresh, timed)
      PROVE  (RefreshTypeOK /\ Found)'
  <2>1. authorized' \in Grants /\ authorized' \in 0..MaxGrants
    BY <1>1 DEF Authorize, RefreshTypeOK, Grants
  <2>2. sealed' \in Sealed
    BY <1>1, <2>1 DEF Authorize, Sealed
  <2>3. latest' \in [Grants -> 0..MaxRotations]
    BY <1>1, <2>1 DEF Authorize, RefreshTypeOK
  <2>. QED
    BY <1>1, <2>1, <2>2, <2>3 DEF Authorize, RefreshTypeOK, Found
<1>2. CASE Expire
  <2>1. sealed \in Sealed
    BY <1>2 DEF Expire, RefreshTypeOK, Nothing
  <2>2. sealed' \in Sealed
    BY <1>2, <2>1 DEF Expire, Sealed
  <2>. QED
    BY <1>2, <2>2 DEF Expire, RefreshTypeOK, Found
<1>3. ASSUME NEW t \in Threads, ReadRecord(t)
      PROVE  (RefreshTypeOK /\ Found)'
  BY <1>3 DEF ReadRecord, RefreshTypeOK, Found
<1>4. ASSUME NEW t \in Threads, ServeFresh(t)
      PROVE  (RefreshTypeOK /\ Found)'
  <2>1. Leave(t)
    BY <1>4 DEF ServeFresh
  <2>. QED
    BY <1>4, <2>1, Leaves DEF ServeFresh, RefreshTypeOK, Found
<1>5. ASSUME NEW t \in Threads, NeedsReauthorization(t)
      PROVE  (RefreshTypeOK /\ Found)'
  <2>1. Leave(t)
    BY <1>5 DEF NeedsReauthorization
  <2>. QED
    BY <1>5, <2>1, Leaves DEF NeedsReauthorization, RefreshTypeOK, Found
<1>6. ASSUME NEW t \in Threads, StartRefresh(t)
      PROVE  (RefreshTypeOK /\ Found)'
  BY <1>6 DEF StartRefresh, RefreshTypeOK, Found
<1>7. ASSUME NEW t \in Threads, NEW rotate \in BOOLEAN, NEW timed \in BOOLEAN,
             Granted(t, rotate, timed)
      PROVE  (RefreshTypeOK /\ Found)'
  <2>1. record[t] \in Sealed /\ sealed \in Sealed
    BY <1>7 DEF Granted, RefreshTypeOK, Found
  <2>2. record[t].grant \in Grants
    BY <2>1 DEF Sealed
  <2>3. latest' \in [Grants -> 0..MaxRotations]
    BY <1>7, <2>2 DEF Granted, RefreshTypeOK, Grants
  <2>4. answer' \in [Threads -> Answer] /\ answer'[t].access \in Grants
    <3>1. latest'[record[t].grant] \in 0..MaxRotations /\ 0 \in 0..MaxRotations
      BY <2>2, <2>3
    <3>. QED
      BY <1>7, <2>2, <3>1 DEF Granted, RefreshTypeOK, Answer
  <2>5. \A s \in Threads \ {t} : answer'[s] = answer[s] /\ rpc'[s] = rpc[s]
    BY <1>7 DEF Granted, RefreshTypeOK
  <2>6. rpc[t] = "post" /\ rpc'[t] = "reopen"
    BY <1>7 DEF Granted, RefreshTypeOK
  <2>7. rpc' \in [Threads -> {"idle", "check", "post", "reopen", "reseal"}]
    BY <1>7 DEF Granted, RefreshTypeOK
  <2>8. UNCHANGED <<sealed, authorized, owner, record, current, lostAnswer>>
    BY <1>7 DEF Granted
  <2>9. RefreshTypeOK'
    BY <2>1, <2>3, <2>4, <2>5, <2>6, <2>7, <2>8 DEF RefreshTypeOK
  <2>10. Found'
    BY <2>1, <2>4, <2>5, <2>6, <2>8 DEF Found
  <2>. QED
    BY <2>9, <2>10
<1>8. ASSUME NEW t \in Threads, NEW rotate \in BOOLEAN, AnswerLost(t, rotate)
      PROVE  (RefreshTypeOK /\ Found)'
  <2>1. record[t].grant \in Grants
    BY <1>8 DEF AnswerLost, RefreshTypeOK, Sealed
  <2>2. latest' \in [Grants -> 0..MaxRotations]
    <3>1. CASE rotate
      BY <1>8, <2>1, <3>1 DEF AnswerLost, RefreshTypeOK, Grants
    <3>2. CASE ~rotate
      BY <1>8, <3>2 DEF AnswerLost, RefreshTypeOK
    <3>. QED
      BY <3>1, <3>2
  <2>4. lostAnswer' \in SUBSET Grants
    BY <1>8, <2>1 DEF AnswerLost, RefreshTypeOK
  <2>3. Leave(t)
    BY <1>8 DEF AnswerLost
  <2>. QED
    BY <1>8, <2>2, <2>3, <2>4, Leaves DEF AnswerLost, RefreshTypeOK, Found
<1>9. ASSUME NEW t \in Threads, Rejected(t)
      PROVE  (RefreshTypeOK /\ Found)'
  <2>1. Leave(t)
    BY <1>9 DEF Rejected
  <2>. QED
    BY <1>9, <2>1, Leaves DEF Rejected, RefreshTypeOK, Found
<1>10. ASSUME NEW t \in Threads, Reopen(t)
      PROVE  (RefreshTypeOK /\ Found)'
  BY <1>10 DEF Reopen, RefreshTypeOK, Found
<1>11. ASSUME NEW t \in Threads, Reseal(t)
      PROVE  (RefreshTypeOK /\ Found)'
  <2>1. current[t] \in Sealed /\ answer[t].access \in Grants /\ answer[t] \in Answer
    BY <1>11 DEF Reseal, RefreshTypeOK, Found
  <2>2. sealed' \in Sealed
    BY <1>11, <2>1 DEF Reseal, Replacement, Sealed, Answer
  <2>3. Leave(t)
    BY <1>11 DEF Reseal
  <2>. QED
    BY <1>11, <2>2, <2>3, Leaves DEF Reseal, RefreshTypeOK, Found
<1>12. ASSUME NEW t \in Threads, ResealFails(t)
      PROVE  (RefreshTypeOK /\ Found)'
  <2>1. record[t].grant \in Grants
    BY <1>12 DEF ResealFails, RefreshTypeOK, Sealed
  <2>2. lostAnswer' \in SUBSET Grants
    BY <1>12, <2>1 DEF ResealFails, RefreshTypeOK
  <2>3. Leave(t)
    BY <1>12 DEF ResealFails
  <2>. QED
    BY <1>12, <2>2, <2>3, Leaves DEF ResealFails, RefreshTypeOK, Found
<1>13. ASSUME NEW n \in Procs, Killed(n)
      PROVE  (RefreshTypeOK /\ Found)'
  <2>1. \A t \in Threads : rpc[t] # "idle" => record[t].grant \in Grants
    BY DEF RefreshTypeOK, Sealed
  <2>2. lostAnswer' \in SUBSET Grants
    <3>1. \A g \in lostAnswer' : g \in lostAnswer
             \/ \E t \in Threads : rpc[t] # "idle" /\ g = record[t].grant
      BY <1>13 DEF Killed
    <3>2. \A g \in lostAnswer : g \in Grants
      BY DEF RefreshTypeOK
    <3>3. \A g \in lostAnswer' : g \in Grants
      BY <2>1, <3>1, <3>2
    <3>. QED
      BY <3>3
  <2>3. NoAnswer \in Answer
    BY DEF NoAnswer, Answer
  <2>4. /\ rpc' \in [Threads -> {"idle", "check", "post", "reopen", "reseal"}]
        /\ owner' \in [Procs -> Threads \cup {NoThread}]
        /\ record' \in [Threads -> Sealed \cup {Nothing}]
        /\ answer' \in [Threads -> Answer]
        /\ current' \in [Threads -> Sealed \cup {Nothing}]
    BY <1>13, <2>3 DEF Killed, RefreshTypeOK
  <2>5. \A s \in Threads : rpc'[s] # "idle" =>
           /\ rpc'[s] = rpc[s] /\ record'[s] = record[s]
           /\ answer'[s] = answer[s] /\ current'[s] = current[s]
    BY <1>13 DEF Killed
  <2>. QED
    BY <1>13, <2>2, <2>4, <2>5 DEF Killed, RefreshTypeOK, Found
<1>14. CASE UNCHANGED vars
  BY <1>14 DEF vars, RefreshTypeOK, Found
<1>. HIDE DEF Step
<1>. QED
  BY <1>1, <1>2, <1>3, <1>4, <1>5, <1>6, <1>7, <1>8, <1>9,
     <1>10, <1>11, <1>12, <1>13, <1>14 DEF RefreshNext, RefreshStep

-----------------------------------------------------------------------------
\* The lock keeps threads of one process apart, and the processes keep apart.
LEMMA AloneStep ==
    ASSUME ~Overlap, RefreshTypeOK, Alone, [RefreshNext]_vars
    PROVE  Alone'
<1>. USE RefreshAssumption DEF Step, Alone
<1>1. ASSUME NEW refresh \in {0, 1}, NEW timed \in BOOLEAN, Authorize(refresh, timed)
      PROVE  Alone'
  BY <1>1 DEF Authorize
<1>2. CASE Expire
  BY <1>2 DEF Expire
<1>3. ASSUME NEW t \in Threads, ReadRecord(t)
      PROVE  Alone'
  BY <1>3 DEF ReadRecord, Quiet, RefreshTypeOK
<1>4. ASSUME NEW t \in Threads, ServeFresh(t)
      PROVE  Alone'
  BY <1>4 DEF ServeFresh, Leave, RefreshTypeOK
<1>5. ASSUME NEW t \in Threads, NeedsReauthorization(t)
      PROVE  Alone'
  BY <1>5 DEF NeedsReauthorization, Leave, RefreshTypeOK
<1>6. ASSUME NEW t \in Threads, StartRefresh(t)
      PROVE  Alone'
  BY <1>6 DEF StartRefresh, RefreshTypeOK
<1>7. ASSUME NEW t \in Threads, NEW rotate \in BOOLEAN, NEW timed \in BOOLEAN,
             Granted(t, rotate, timed)
      PROVE  Alone'
  BY <1>7 DEF Granted, Accepted, RefreshTypeOK
<1>8. ASSUME NEW t \in Threads, NEW rotate \in BOOLEAN, AnswerLost(t, rotate)
      PROVE  Alone'
  BY <1>8 DEF AnswerLost, Leave, RefreshTypeOK
<1>9. ASSUME NEW t \in Threads, Rejected(t)
      PROVE  Alone'
  BY <1>9 DEF Rejected, Leave, RefreshTypeOK
<1>10. ASSUME NEW t \in Threads, Reopen(t)
      PROVE  Alone'
  BY <1>10 DEF Reopen, RefreshTypeOK
<1>11. ASSUME NEW t \in Threads, Reseal(t)
      PROVE  Alone'
  BY <1>11 DEF Reseal, Leave, RefreshTypeOK
<1>12. ASSUME NEW t \in Threads, ResealFails(t)
      PROVE  Alone'
  BY <1>12 DEF ResealFails, Leave, RefreshTypeOK
<1>13. ASSUME NEW n \in Procs, Killed(n)
      PROVE  Alone'
  BY <1>13 DEF Killed, RefreshTypeOK
<1>14. CASE UNCHANGED vars
  BY <1>14 DEF vars
<1>. HIDE DEF Alone, Step
<1>. QED
  BY <1>1, <1>2, <1>3, <1>4, <1>5, <1>6, <1>7, <1>8, <1>9,
     <1>10, <1>11, <1>12, <1>13, <1>14 DEF RefreshNext, RefreshStep

\* A thread that goes on is alone, before and after the step.
LEMMA OthersIdle ==
    ASSUME RefreshTypeOK, Alone, Alone', NEW t \in Threads, rpc[t] # "idle" \/ rpc'[t] # "idle",
           \A s \in Threads \ {t} : rpc'[s] = rpc[s]
    PROVE  \A s \in Threads \ {t} : rpc[s] = "idle" /\ rpc'[s] = "idle"
BY DEF Alone

\* The record, the answer and Google keep in step.
LEMMA RefreshInvStep ==
    ASSUME ~Overlap, RefreshTypeOK, Found, Alone, Alone', RefreshInv, [RefreshNext]_vars
    PROVE  RefreshInv'
<1>. USE RefreshAssumption
<1>1. ASSUME NEW refresh \in {0, 1}, NEW timed \in BOOLEAN, Authorize(refresh, timed)
      PROVE  RefreshInv'
  <2>1. \A t \in Threads : rpc'[t] = "idle"
    BY <1>1 DEF Authorize
  <2>2. authorized' \in Grants
    BY <1>1 DEF Authorize, RefreshTypeOK, Grants
  <2>3. sealed' = [access |-> authorized', grant |-> authorized', refresh |-> refresh, fresh |-> timed]
    BY <1>1 DEF Authorize
  <2>4. latest'[authorized'] = refresh
    BY <1>1, <2>2 DEF Authorize, RefreshTypeOK
  <2>. QED
    BY <2>1, <2>3, <2>4 DEF RefreshInv, Current, Answered, OneAuthority, StillRefreshable
<1>2. CASE Expire
  <2>1. sealed \in Sealed /\ sealed # Nothing
    BY <1>2 DEF Expire, RefreshTypeOK, Nothing
  <2>2. /\ sealed'.access = sealed.access /\ sealed'.grant = sealed.grant
        /\ sealed'.refresh = sealed.refresh /\ ~sealed'.fresh /\ sealed.fresh
    BY <1>2, <2>1 DEF Expire, Sealed
  <2>3. \A t \in Threads : rpc[t] # "reseal"
    BY <2>2 DEF RefreshInv, Current
  <2>4. UNCHANGED <<latest, rpc, record, answer, current, lostAnswer>>
    BY <1>2 DEF Expire
  <2>5. Current' /\ Answered'
    BY <2>2, <2>3, <2>4 DEF RefreshInv, Current, Answered
  <2>6. OneAuthority' /\ StillRefreshable'
    BY <2>1, <2>2, <2>4 DEF RefreshInv, OneAuthority, StillRefreshable
  <2>. QED
    BY <2>5, <2>6 DEF RefreshInv
<1>3. ASSUME NEW t \in Threads, ReadRecord(t)
      PROVE  RefreshInv'
  <2>1. /\ rpc'[t] # "idle"
        /\ \A s \in Threads \ {t} : rpc'[s] = rpc[s]
    BY <1>3 DEF ReadRecord, Step, RefreshTypeOK
  <2>2. \A s \in Threads \ {t} : rpc[s] = "idle" /\ rpc'[s] = "idle"
    BY <2>1, OthersIdle
  <2>. QED
    BY <1>3, <2>1, <2>2 DEF ReadRecord, Step, RefreshTypeOK, RefreshInv, Current, Answered,
           OneAuthority, StillRefreshable
<1>4. ASSUME NEW t \in Threads, ServeFresh(t)
      PROVE  RefreshInv'
  <2>1. Leave(t) /\ rpc[t] # "idle"
    BY <1>4 DEF ServeFresh
  <2>2. \A s \in Threads : rpc'[s] = "idle"
    BY <2>1, Leaves, OthersIdle
  <2>3. \A s \in Threads \ {t} : rpc[s] = "idle"
    BY <2>1, Leaves, OthersIdle
  <2>. QED
    BY <1>4, <2>2, <2>3 DEF ServeFresh, RefreshInv, Current, Answered, OneAuthority,
           StillRefreshable
<1>5. ASSUME NEW t \in Threads, NeedsReauthorization(t)
      PROVE  RefreshInv'
  <2>1. Leave(t) /\ rpc[t] # "idle"
    BY <1>5 DEF NeedsReauthorization
  <2>2. \A s \in Threads : rpc'[s] = "idle"
    BY <2>1, Leaves, OthersIdle
  <2>3. \A s \in Threads \ {t} : rpc[s] = "idle"
    BY <2>1, Leaves, OthersIdle
  <2>. QED
    BY <1>5, <2>2, <2>3 DEF NeedsReauthorization, RefreshInv, Current, Answered, OneAuthority,
           StillRefreshable
<1>6. ASSUME NEW t \in Threads, StartRefresh(t)
      PROVE  RefreshInv'
  <2>1. /\ rpc'[t] # "idle"
        /\ \A s \in Threads \ {t} : rpc'[s] = rpc[s]
    BY <1>6 DEF StartRefresh, Step, RefreshTypeOK
  <2>2. \A s \in Threads \ {t} : rpc[s] = "idle" /\ rpc'[s] = "idle"
    BY <2>1, OthersIdle
  <2>. QED
    BY <1>6, <2>1, <2>2 DEF StartRefresh, Step, RefreshTypeOK, RefreshInv, Current, Answered,
           OneAuthority, StillRefreshable
<1>7. ASSUME NEW t \in Threads, NEW rotate \in BOOLEAN, NEW timed \in BOOLEAN,
             Granted(t, rotate, timed)
      PROVE  RefreshInv'
  <2>1. /\ rpc'[t] # "idle"
        /\ \A s \in Threads \ {t} : rpc'[s] = rpc[s]
    BY <1>7 DEF Granted, Step, RefreshTypeOK
  <2>2. \A s \in Threads \ {t} : rpc[s] = "idle" /\ rpc'[s] = "idle"
    BY <2>1, OthersIdle
  <2>. QED
    BY <1>7, <2>1, <2>2 DEF Granted, Step, RefreshTypeOK, Accepted, Found, Sealed, Answer,
           Grants, RefreshInv, Current, Answered, OneAuthority, StillRefreshable
<1>8. ASSUME NEW t \in Threads, NEW rotate \in BOOLEAN, AnswerLost(t, rotate)
      PROVE  RefreshInv'
  <2>1. Leave(t) /\ rpc[t] # "idle"
    BY <1>8 DEF AnswerLost
  <2>2. \A s \in Threads : rpc'[s] = "idle"
    BY <2>1, Leaves, OthersIdle
  <2>3. \A s \in Threads \ {t} : rpc[s] = "idle"
    BY <2>1, Leaves, OthersIdle
  <2>. QED
    BY <1>8, <2>2, <2>3 DEF AnswerLost, RefreshInv, Current, Answered, OneAuthority,
           StillRefreshable
<1>9. ASSUME NEW t \in Threads, Rejected(t)
      PROVE  RefreshInv'
  <2>1. Leave(t) /\ rpc[t] # "idle"
    BY <1>9 DEF Rejected
  <2>2. \A s \in Threads : rpc'[s] = "idle"
    BY <2>1, Leaves, OthersIdle
  <2>3. \A s \in Threads \ {t} : rpc[s] = "idle"
    BY <2>1, Leaves, OthersIdle
  <2>. QED
    BY <1>9, <2>2, <2>3 DEF Rejected, RefreshInv, Current, Answered, OneAuthority, StillRefreshable
<1>10. ASSUME NEW t \in Threads, Reopen(t)
      PROVE  RefreshInv'
  <2>1. /\ rpc'[t] # "idle"
        /\ \A s \in Threads \ {t} : rpc'[s] = rpc[s]
    BY <1>10 DEF Reopen, Step, RefreshTypeOK
  <2>2. \A s \in Threads \ {t} : rpc[s] = "idle" /\ rpc'[s] = "idle"
    BY <2>1, OthersIdle
  <2>. QED
    BY <1>10, <2>1, <2>2 DEF Reopen, Step, RefreshTypeOK, RefreshInv, Current, Answered,
           OneAuthority, StillRefreshable
<1>11. ASSUME NEW t \in Threads, Reseal(t)
      PROVE  RefreshInv'
  <2>1. Leave(t) /\ rpc[t] = "reseal" /\ sealed' = Replacement(t) /\ latest' = latest
    BY <1>11 DEF Reseal
  <2>2. \A s \in Threads : rpc'[s] = "idle"
    BY <2>1, Leaves, OthersIdle
  <2>3. /\ current[t] = sealed /\ sealed \in Sealed
        /\ record[t].grant = sealed.grant /\ record[t].refresh = sealed.refresh
    BY <2>1 DEF RefreshInv, Current, Found
  <2>4. /\ answer[t].access = sealed.grant
        /\ latest[sealed.grant] = IF answer[t].rotated = 0 THEN sealed.refresh ELSE answer[t].rotated
    BY <2>1, <2>3 DEF RefreshInv, Answered
  <2>5. /\ sealed'.access = sealed.grant /\ sealed'.grant = sealed.grant
        /\ sealed'.refresh = latest[sealed.grant]
    BY <2>1, <2>3, <2>4 DEF Replacement, Sealed
  <2>. QED
    BY <2>1, <2>2, <2>5 DEF RefreshInv, Current, Answered, OneAuthority, StillRefreshable
<1>12. ASSUME NEW t \in Threads, ResealFails(t)
      PROVE  RefreshInv'
  <2>1. Leave(t) /\ rpc[t] # "idle"
    BY <1>12 DEF ResealFails
  <2>2. \A s \in Threads : rpc'[s] = "idle"
    BY <2>1, Leaves, OthersIdle
  <2>3. \A s \in Threads \ {t} : rpc[s] = "idle"
    BY <2>1, Leaves, OthersIdle
  <2>. QED
    BY <1>12, <2>2, <2>3 DEF ResealFails, RefreshInv, Current, Answered, OneAuthority,
           StillRefreshable
<1>13. ASSUME NEW n \in Procs, Killed(n)
      PROVE  RefreshInv'
  <2>1. UNCHANGED <<sealed, latest>>
    BY <1>13 DEF Killed
  <2>2. \A s \in Threads : rpc'[s] # "idle" =>
           /\ rpc'[s] = rpc[s] /\ record'[s] = record[s]
           /\ answer'[s] = answer[s] /\ current'[s] = current[s]
    BY <1>13 DEF Killed
  <2>3. Current' /\ Answered' /\ OneAuthority'
    BY <2>1, <2>2 DEF RefreshInv, Current, Answered, OneAuthority
  <2>4. \A s \in Threads : rpc[s] \in {"reopen", "reseal"} =>
           \/ rpc'[s] = rpc[s] /\ record'[s] = record[s]
           \/ record[s].grant \in lostAnswer'
    BY <1>13 DEF Killed
  <2>5. lostAnswer \subseteq lostAnswer'
    BY <1>13 DEF Killed
  <2>6. StillRefreshable'
    BY <2>1, <2>4, <2>5 DEF RefreshInv, StillRefreshable
  <2>. QED
    BY <2>3, <2>6 DEF RefreshInv
<1>14. CASE UNCHANGED vars
  BY <1>14 DEF vars, RefreshInv, Current, Answered, OneAuthority, StillRefreshable
<1>. HIDE DEF RefreshInv, RefreshTypeOK
<1>. QED
  BY <1>1, <1>2, <1>3, <1>4, <1>5, <1>6, <1>7, <1>8, <1>9,
     <1>10, <1>11, <1>12, <1>13, <1>14 DEF RefreshNext, RefreshStep

-----------------------------------------------------------------------------
LEMMA TypeHolds == RefreshSpec => [](RefreshTypeOK /\ Found)
<1>1. RefreshInit => RefreshTypeOK /\ Found
  BY RefreshAssumption DEF RefreshInit, RefreshTypeOK, Found, Grants, NoAnswer, Answer
<1>2. RefreshTypeOK /\ Found /\ [RefreshNext]_vars => RefreshTypeOK' /\ Found'
  BY TypeStep
<1>. QED
  BY <1>1, <1>2, PTL DEF RefreshSpec

LEMMA RefreshInvHolds == ASSUME ~Overlap PROVE RefreshSpec => [](Alone /\ RefreshInv)
<1>1. RefreshInit => Alone /\ RefreshInv
  BY DEF RefreshInit, Alone, RefreshInv, Current, Answered, OneAuthority, StillRefreshable, Nothing
<1>2. RefreshTypeOK /\ Found /\ Alone /\ RefreshInv /\ [RefreshNext]_vars => Alone' /\ RefreshInv'
  BY AloneStep, RefreshInvStep
<1>. QED
  BY <1>1, <1>2, TypeHolds, PTL DEF RefreshSpec

\* The record, Google's side and the callers stay well-typed.
THEOREM RefreshTypeCorrect == RefreshSpec => []RefreshTypeOK
BY TypeHolds, PTL

-----------------------------------------------------------------------------
\* A consent is given while nobody refreshes; refreshes may still overlap.
ConsentWaits == authorized' # authorized => \A t \in Threads : rpc[t] = "idle"

\* Whoever is under way is so for the consent that is sealed.
OneConsent ==
    /\ OneAuthority
    /\ \A t \in Threads :
          /\ rpc[t] # "idle" => record[t].grant = sealed.grant
          /\ rpc[t] \in {"reopen", "reseal"} => answer[t].access = record[t].grant
          /\ rpc[t] = "reseal" => current[t].grant = sealed.grant

LEMMA OneConsentStep ==
    ASSUME RefreshTypeOK, Found, OneConsent, [RefreshNext]_vars, [ConsentWaits]_vars
    PROVE  OneConsent'
<1>. USE DEF OneConsent, OneAuthority, RefreshTypeOK
<1>1. ASSUME NEW refresh \in {0, 1}, NEW timed \in BOOLEAN, Authorize(refresh, timed)
      PROVE  OneConsent'
  <2>1. \A t \in Threads : rpc[t] = "idle"
    BY <1>1 DEF Authorize, ConsentWaits, vars
  <2>. QED
    BY <1>1, <2>1 DEF Authorize
<1>2. CASE Expire
  <2>1. sealed \in Sealed /\ sealed' = [sealed EXCEPT !.fresh = FALSE]
    BY <1>2 DEF Expire, Nothing
  <2>2. sealed'.grant = sealed.grant /\ sealed'.access = sealed.access
    BY <2>1 DEF Sealed
  <2>. QED
    BY <1>2, <2>2 DEF Expire
<1>3. ASSUME NEW t \in Threads, ReadRecord(t) \/ StartRefresh(t) \/ Reopen(t)
      PROVE  OneConsent'
  BY <1>3 DEF ReadRecord, StartRefresh, Reopen, Step
<1>4. ASSUME NEW t \in Threads,
             \/ ServeFresh(t) \/ NeedsReauthorization(t) \/ Rejected(t) \/ ResealFails(t)
             \/ \E rotate \in BOOLEAN : AnswerLost(t, rotate)
      PROVE  OneConsent'
  BY <1>4 DEF ServeFresh, NeedsReauthorization, Rejected, ResealFails, AnswerLost, Leave
<1>5. ASSUME NEW t \in Threads, NEW rotate \in BOOLEAN, NEW timed \in BOOLEAN,
             Granted(t, rotate, timed)
      PROVE  OneConsent'
  BY <1>5 DEF Granted, Step
<1>6. ASSUME NEW t \in Threads, Reseal(t)
      PROVE  OneConsent'
  <2>1. /\ current[t] \in Sealed /\ current[t].grant = sealed.grant
        /\ answer[t].access = sealed.grant
    BY <1>6 DEF Reseal, Found
  <2>2. sealed'.access = sealed.grant /\ sealed'.grant = sealed.grant
    BY <1>6, <2>1 DEF Reseal, Replacement, Sealed
  <2>. QED
    BY <1>6, <2>2 DEF Reseal, Leave
<1>7. ASSUME NEW n \in Procs, Killed(n)
      PROVE  OneConsent'
  BY <1>7 DEF Killed
<1>8. CASE UNCHANGED vars
  BY <1>8 DEF vars
<1>. HIDE DEF OneConsent, RefreshTypeOK
<1>. QED
  BY <1>1, <1>2, <1>3, <1>4, <1>5, <1>6, <1>7, <1>8 DEF RefreshNext, RefreshStep

\* However many processes refresh at the same time, read each other's rows back
\* and write over them, killed or not, the sealed access and refresh tokens are of
\* one grant: as long as nobody consents in the middle of a refresh, which is what
\* the run refresh_mixed shows to break it.
THEOREM AuthorityIsKept == RefreshSpec /\ [][ConsentWaits]_vars => []OneAuthority
<1>1. RefreshInit => OneConsent
  BY DEF RefreshInit, OneConsent, OneAuthority, Nothing
<1>2. RefreshTypeOK /\ Found /\ OneConsent /\ [RefreshNext]_vars /\ [ConsentWaits]_vars
         => OneConsent'
  BY OneConsentStep
<1>3. OneConsent => OneAuthority
  BY DEF OneConsent
<1>. QED
  BY <1>1, <1>2, <1>3, TypeHolds, PTL DEF RefreshSpec

\* If the processes keep apart, a rotated refresh token is never overwritten by
\* its predecessor, for every number of threads, consents and rotations ...
THEOREM RefreshStaysPossible == ASSUME ~Overlap PROVE RefreshSpec => []StillRefreshable
<1>1. RefreshInv => StillRefreshable
  BY DEF RefreshInv
<1>. QED
  BY <1>1, RefreshInvHolds, PTL

\* ... and nobody refreshes a token that another thread has just renewed.
THEOREM RefreshesOnlyStale == ASSUME ~Overlap PROVE RefreshSpec => []OnlyStaleIsRefreshed
<1>1. RefreshInv => OnlyStaleIsRefreshed
  BY DEF RefreshInv, Current, OnlyStaleIsRefreshed
<1>. QED
  BY <1>1, RefreshInvHolds, PTL
=============================================================================
