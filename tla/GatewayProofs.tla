--------------------------- MODULE GatewayProofs ---------------------------
(***************************************************************************)
(* Proofs about ProposalIntake, for every set of ids, keys and handlers,   *)
(* and about the composed gateway: the invariants of intake and of the     *)
(* send path hold together, because the one side touches only proposals    *)
(* nobody was told of and the other only proposals somebody was.           *)
(***************************************************************************)
EXTENDS Gateway, SendFSMProofs

-----------------------------------------------------------------------------
(* Proposal intake on its own. *)

IntakeTypeInv == StoreTypeOK /\ IntakeTypeOK

Answered(p) == \E a \in answers : a[2] = p

\* The payload is frozen before the row is written and dropped after it, so a
\* row that exists has its payload.
RecordHasPayload == \A p \in Ids : status[p] # "absent" => p \in payloads

Claimed(p) == \E k \in Keys : idem[k] = p

\* What a handler knows, step by step, of the id it minted.
OwnerKnows(t, p) ==
    /\ p \in minted /\ p \notin abandoned
    /\ tpc[t] \in {"freeze", "write", "drop"} <=> status[p] = "absent"
    /\ tpc[t] = "freeze" <=> p \notin payloads
    /\ tpc[t] \in {"claim", "reply", "rollback"} => keyOf[p] = tkey[t]
    /\ IF tpc[t] = "reply" /\ tkey[t] # NoKey
       THEN idem[tkey[t]] = p
       ELSE ~Answered(p) /\ ~Claimed(p)

\* A handler has a key where its step reads the index, and after a lost claim
\* that entry exists.
KeyKnown(t) ==
    /\ tpc[t] \in {"lookup", "fetch", "rollback", "drop", "relookup"} => tkey[t] \in Keys
    /\ tpc[t] \in {"rollback", "drop", "relookup"} => idem[tkey[t]] # NoId
    /\ tpc[t] = "fetch" => tid[t] = idem[tkey[t]] /\ tid[t] # NoId

IntakeInv ==
    /\ \A t \in Threads : KeyKnown(t)
    /\ \A t \in Threads : tpc[t] \in Owning => tid[t] \in Ids /\ OwnerKnows(t, tid[t])
    /\ \A t, u \in Threads :
        tpc[t] \in Owning /\ tpc[u] \in Owning /\ tid[t] = tid[u] => t = u
    /\ abandoned \subseteq minted
    /\ \A p \in Ids \ minted :
        status[p] = "absent" /\ p \notin payloads /\ ~Answered(p) /\ ~Claimed(p)
    /\ \A a \in answers :
        /\ status[a[2]] # "absent" /\ keyOf[a[2]] = a[1] /\ a[2] \in payloads
        /\ a[1] # NoKey => idem[a[1]] = a[2]
    /\ ClaimedKeyResolves
    /\ RecordHasPayload
    /\ NoOrphans

-----------------------------------------------------------------------------
LEMMA IntakeTypeStep ==
    ASSUME IntakeTypeInv, IntakeInv, IntakeNext
    PROVE  IntakeTypeInv'
<1>. USE StoreAssumption
     DEF IntakeTypeInv, StoreTypeOK, IntakeTypeOK, Owning, ProposalStatus, Terminal,
         storeVars
<1>. USE DEF IntakeInv, KeyKnown
<1>1. PICK t \in Threads :
        \/ \E k \in Keys \cup {NoKey} : Receive(t, k)
        \/ \E p \in Ids : Mint(t, p)
        \/ ThreadStep(t)
        \/ Die(t)
  BY DEF IntakeNext
<1>2. ASSUME NEW k \in Keys \cup {NoKey}, Receive(t, k)
      PROVE  IntakeTypeInv'
  BY <1>2 DEF Receive, Move
<1>3. ASSUME NEW p \in Ids, Mint(t, p)
      PROVE  IntakeTypeInv'
  BY <1>3 DEF Mint, Move
<1>4. CASE LookupIndex(t)
  BY <1>4 DEF LookupIndex, Move
<1>5. CASE FetchExisting(t)
  BY <1>5 DEF FetchExisting, Answer, Finish
<1>6. CASE Refuse(t)
  BY <1>6 DEF Refuse, Finish
<1>7. CASE FreezePayload(t)
  BY <1>7 DEF FreezePayload, Move
<1>8. CASE WriteRecord(t)
  BY <1>8 DEF WriteRecord, Move
<1>9. CASE SkipClaim(t)
  BY <1>9 DEF SkipClaim, Move
<1>10. CASE WinClaim(t)
  BY <1>10 DEF WinClaim, Move
<1>11. CASE LoseClaim(t)
  BY <1>11 DEF LoseClaim, Move
<1>12. CASE Reply(t)
  BY <1>12 DEF Reply, Answer, Finish
<1>13. CASE DeleteLoser(t)
  BY <1>13 DEF DeleteLoser, Move
<1>14. CASE DropPayload(t)
  BY <1>14 DEF DropPayload, Move
<1>15. CASE LookupWinner(t)
  BY <1>15 DEF LookupWinner, Move
<1>16. CASE Die(t)
  BY <1>16 DEF Die, Finish
<1>. HIDE DEF IntakeTypeInv
<1>. QED
  BY <1>1, <1>2, <1>3, <1>4, <1>5, <1>6, <1>7, <1>8, <1>9, <1>10,
     <1>11, <1>12, <1>13, <1>14, <1>15, <1>16 DEF ThreadStep

\* Every step of a request handler, a crash included, keeps the handlers' views
\* of the store consistent.
LEMMA IntakeInvStep ==
    ASSUME IntakeTypeInv, IntakeInv, IntakeNext
    PROVE  IntakeInv'
<1>. USE StoreAssumption
     DEF IntakeTypeInv, StoreTypeOK, IntakeTypeOK, Owning, ProposalStatus, Terminal,
         storeVars
<1>. USE DEF IntakeInv, KeyKnown, OwnerKnows, Answered, Claimed, ClaimedKeyResolves,
             RecordHasPayload, NoOrphans
<1>1. PICK t \in Threads :
        \/ \E k \in Keys \cup {NoKey} : Receive(t, k)
        \/ \E p \in Ids : Mint(t, p)
        \/ ThreadStep(t)
        \/ Die(t)
  BY DEF IntakeNext
<1>2. ASSUME NEW k \in Keys \cup {NoKey}, Receive(t, k)
      PROVE  IntakeInv'
  BY <1>2 DEF Receive, Move
<1>3. ASSUME NEW p \in Ids, Mint(t, p)
      PROVE  IntakeInv'
  <2>1. \A u \in Threads : KeyKnown(u)'
    BY <1>3 DEF Mint, Move
  <2>2. ASSUME NEW u \in Threads, tpc'[u] \in Owning
        PROVE  tid'[u] \in Ids /\ OwnerKnows(u, tid[u])'
    <3>1. CASE u = t
      BY <1>3, <3>1 DEF Mint, Move
    <3>2. CASE u # t
      BY <1>3, <2>2, <3>2 DEF Mint, Move
    <3>. QED
      BY <3>1, <3>2
  <2>3. ASSUME NEW u \in Threads, NEW v \in Threads,
               tpc'[u] \in Owning, tpc'[v] \in Owning, tid'[u] = tid'[v]
        PROVE  u = v
    BY <1>3, <2>3 DEF Mint, Move
  <2>4. ASSUME NEW q \in Ids \ minted'
        PROVE  status'[q] = "absent" /\ q \notin payloads' /\ ~Answered(q)' /\ ~Claimed(q)'
    BY <1>3, <2>4 DEF Mint, Move
  <2>5. ASSUME NEW a \in answers'
        PROVE  /\ status'[a[2]] # "absent" /\ keyOf'[a[2]] = a[1] /\ a[2] \in payloads'
               /\ a[1] # NoKey => idem'[a[1]] = a[2]
    BY <1>3, <2>5 DEF Mint, Move
  <2>6. ClaimedKeyResolves' /\ RecordHasPayload' /\ abandoned' \subseteq minted'
    BY <1>3 DEF Mint, Move
  <2>7. NoOrphans'
    BY <1>3 DEF Mint, Move
  <2>. HIDE DEF KeyKnown, OwnerKnows, Answered, Claimed, ClaimedKeyResolves, NoOrphans
  <2>. QED
    BY <2>1, <2>2, <2>3, <2>4, <2>5, <2>6, <2>7
<1>4. CASE LookupIndex(t)
  BY <1>4 DEF LookupIndex, Move
<1>5. CASE FetchExisting(t)
  BY <1>5 DEF FetchExisting, Answer, Finish
<1>6. CASE Refuse(t)
  BY <1>6 DEF Refuse, Finish
<1>7. CASE FreezePayload(t)
  BY <1>7 DEF FreezePayload, Move
<1>8. CASE WriteRecord(t)
  BY <1>8 DEF WriteRecord, Move
<1>9. CASE SkipClaim(t)
  BY <1>9 DEF SkipClaim, Move
<1>10. CASE WinClaim(t)
  BY <1>10 DEF WinClaim, Move
<1>11. CASE LoseClaim(t)
  BY <1>11 DEF LoseClaim, Move
<1>12. CASE Reply(t)
  <2>1. \A u \in Threads : KeyKnown(u)'
    BY <1>12 DEF Reply, Answer, Finish
  <2>2. ASSUME NEW u \in Threads, tpc'[u] \in Owning
        PROVE  tid'[u] \in Ids /\ OwnerKnows(u, tid[u])'
    BY <1>12, <2>2 DEF Reply, Answer, Finish
  <2>3. ASSUME NEW u \in Threads, NEW v \in Threads,
               tpc'[u] \in Owning, tpc'[v] \in Owning, tid'[u] = tid'[v]
        PROVE  u = v
    BY <1>12, <2>3 DEF Reply, Answer, Finish
  <2>4. ASSUME NEW p \in Ids \ minted'
        PROVE  status'[p] = "absent" /\ p \notin payloads' /\ ~Answered(p)' /\ ~Claimed(p)'
    BY <1>12, <2>4 DEF Reply, Answer, Finish
  <2>5. ASSUME NEW a \in answers'
        PROVE  /\ status'[a[2]] # "absent" /\ keyOf'[a[2]] = a[1] /\ a[2] \in payloads'
               /\ a[1] # NoKey => idem'[a[1]] = a[2]
    BY <1>12, <2>5 DEF Reply, Answer, Finish
  <2>6. ClaimedKeyResolves' /\ RecordHasPayload' /\ abandoned' \subseteq minted'
    BY <1>12 DEF Reply, Answer, Finish
  <2>7. NoOrphans'
    <3>. SUFFICES ASSUME NEW p \in minted \ abandoned,
                         \A u \in Threads : tid'[u] # p \/ tpc'[u] \notin Owning
                  PROVE  (status[p] = "absent" /\ p \notin payloads) \/ Answered(p)'
      BY <1>12 DEF Reply, Answer, Finish
    <3>1. CASE p = tid[t]
      <4>1. <<tkey[t], p>> \in answers'
        BY <1>12, <3>1 DEF Reply, Answer
      <4>. QED
        BY <4>1
    <3>2. CASE p # tid[t]
      <4>1. \A u \in Threads : tid[u] # p \/ tpc[u] \notin Owning
        BY <1>12, <3>2 DEF Reply, Answer, Finish
      <4>2. (status[p] = "absent" /\ p \notin payloads) \/ Answered(p)
        BY <4>1
      <4>. QED
        BY <1>12, <4>2 DEF Reply, Answer
    <3>. QED
      BY <3>1, <3>2
  <2>. HIDE DEF KeyKnown, OwnerKnows, Answered, Claimed, ClaimedKeyResolves, NoOrphans
  <2>. QED
    BY <2>1, <2>2, <2>3, <2>4, <2>5, <2>6, <2>7
<1>13. CASE DeleteLoser(t)
  BY <1>13 DEF DeleteLoser, Move
<1>14. CASE DropPayload(t)
  BY <1>14 DEF DropPayload, Move
<1>15. CASE LookupWinner(t)
  BY <1>15 DEF LookupWinner, Move
<1>16. CASE Die(t)
  BY <1>16 DEF Die, Finish
<1>. HIDE DEF IntakeTypeInv, IntakeInv
<1>. QED
  BY <1>1, <1>2, <1>3, <1>4, <1>5, <1>6, <1>7, <1>8, <1>9, <1>10,
     <1>11, <1>12, <1>13, <1>14, <1>15, <1>16 DEF ThreadStep

-----------------------------------------------------------------------------
LEMMA IntakeInitInv ==
    ASSUME StoreInit, IntakeInit
    PROVE  IntakeTypeInv /\ IntakeInv
<1>. USE StoreAssumption DEF StoreInit, IntakeInit
<1>1. IntakeTypeInv
  BY DEF IntakeTypeInv, StoreTypeOK, IntakeTypeOK, ProposalStatus
<1>2. IntakeInv
  BY DEF IntakeInv, KeyKnown, Answered, Claimed, ClaimedKeyResolves, RecordHasPayload,
     NoOrphans, Owning
<1>. QED
  BY <1>1, <1>2

\* The invariant reads the store only for which records and payloads are there.
LEMMA IntakeInvStable ==
    ASSUME IntakeTypeInv, IntakeInv, StoreTypeOK', UNCHANGED <<intakeVars, keyOf, idem, payloads>>,
           \A p \in Ids : status'[p] = "absent" <=> status[p] = "absent"
    PROVE  IntakeTypeInv' /\ IntakeInv'
<1>1. IntakeTypeInv'
  BY DEF IntakeTypeInv, IntakeTypeOK, intakeVars
<1>2. IntakeInv'
  BY DEF intakeVars, IntakeTypeInv, StoreTypeOK, IntakeTypeOK, IntakeInv, KeyKnown,
     OwnerKnows, Answered, Claimed, ClaimedKeyResolves, RecordHasPayload, NoOrphans
<1>. QED
  BY <1>1, <1>2

\* The inductive invariant of intake.
LEMMA IntakeInvariant == IntakeSpec => [](IntakeTypeInv /\ IntakeInv)
<1>. DEFINE Step == IntakeNext \/ (Tick /\ UNCHANGED intakeVars)
            all == <<storeVars, intakeVars>>
<1>1. IntakeStart => IntakeTypeInv /\ IntakeInv
  BY IntakeInitInv DEF IntakeStart
<1>2. IntakeTypeInv /\ IntakeInv /\ [Step]_all => IntakeTypeInv' /\ IntakeInv'
  <2>. SUFFICES ASSUME IntakeTypeInv, IntakeInv, [Step]_all
                PROVE  IntakeTypeInv' /\ IntakeInv'
    OBVIOUS
  <2>1. CASE IntakeNext
    BY <2>1, IntakeTypeStep, IntakeInvStep
  <2>2. CASE Tick /\ UNCHANGED intakeVars
    <3>1. StoreTypeOK' /\ UNCHANGED <<status, keyOf, idem, payloads>>
      BY <2>2 DEF Tick, IntakeTypeInv, StoreTypeOK
    <3>. QED
      BY <2>2, <3>1, IntakeInvStable DEF intakeVars
  <2>3. CASE UNCHANGED all
    <3>1. StoreTypeOK' /\ UNCHANGED <<status, keyOf, idem, payloads>>
      BY <2>3 DEF IntakeTypeInv, StoreTypeOK, storeVars
    <3>. QED
      BY <2>3, <3>1, IntakeInvStable DEF intakeVars
  <2>. QED
    BY <2>1, <2>2, <2>3
<1>. QED
  BY <1>1, <1>2, PTL DEF IntakeSpec

\* For every number of concurrent and dying handlers, a claimed key resolves to
\* a stored proposal with its payload: no crash of create wedges a key.
THEOREM KeysResolve == IntakeSpec => []ClaimedKeyResolves
<1>1. IntakeInv => ClaimedKeyResolves
  BY DEF IntakeInv
<1>. QED
  BY <1>1, IntakeInvariant, PTL

\* All callers of one key are told one proposal, which is there to be confirmed.
THEOREM OneProposal == IntakeSpec => []OneProposalPerKey
<1>1. IntakeInv => OneProposalPerKey
  BY DEF IntakeInv, OneProposalPerKey
<1>. QED
  BY <1>1, IntakeInvariant, PTL

\* Only a handler that died leaves a record or content nobody was told of.
THEOREM OrphansOnlyByDeath == IntakeSpec => []NoOrphans
<1>1. IntakeInv => NoOrphans
  BY DEF IntakeInv
<1>. QED
  BY <1>1, IntakeInvariant, PTL

-----------------------------------------------------------------------------
\* Every step of intake is a step of the promise, or changes nothing it sees:
\* winning the claim binds the key, returning identifiers answers it.
LEMMA IntakeSimulates ==
    ASSUME IntakeTypeInv, IntakeInv, IntakeNext
    PROVE  Promise!Next \/ UNCHANGED Promise!vars
<1>1. PICK t \in Threads :
        \/ \E k \in Keys \cup {NoKey} : Receive(t, k)
        \/ \E p \in Ids : Mint(t, p)
        \/ ThreadStep(t)
        \/ Die(t)
  BY DEF IntakeNext
<1>2. CASE WinClaim(t)
  <2>1. tkey[t] \in Keys /\ tid[t] \in Ids
    BY <1>2 DEF WinClaim, Move, IntakeTypeInv, IntakeTypeOK, IntakeInv, Owning
  <2>2. Promise!Fresh(tid[t])
    BY <1>2 DEF WinClaim, Move, IntakeInv, Owning, OwnerKnows, Answered, Claimed, Promise!Fresh
  <2>3. Promise!Bind(tkey[t], tid[t])
    BY <1>2, <2>2 DEF WinClaim, Promise!Bind
  <2>. QED
    BY <2>1, <2>3 DEF Promise!Next
<1>3. CASE FetchExisting(t)
  <2>1. tkey[t] \in Keys /\ tid[t] = idem[tkey[t]] /\ tid[t] # NoId
    BY <1>3 DEF FetchExisting, IntakeInv, KeyKnown
  <2>2. Promise!AnswerKey(tkey[t])
    BY <1>3, <2>1 DEF FetchExisting, Answer, storeVars, Promise!AnswerKey
  <2>. QED
    BY <2>1, <2>2 DEF Promise!Next
<1>4. CASE Reply(t) /\ tkey[t] # NoKey
  <2>1. tkey[t] \in Keys /\ idem[tkey[t]] = tid[t] /\ tid[t] # NoId
    BY <1>4, StoreAssumption
       DEF Reply, IntakeTypeInv, IntakeTypeOK, IntakeInv, Owning, OwnerKnows
  <2>2. Promise!AnswerKey(tkey[t])
    BY <1>4, <2>1 DEF Reply, Answer, storeVars, Promise!AnswerKey
  <2>. QED
    BY <2>1, <2>2 DEF Promise!Next
<1>5. CASE Reply(t) /\ tkey[t] = NoKey
  <2>1. tid[t] \in Ids /\ Promise!Fresh(tid[t])
    BY <1>5 DEF Reply, IntakeInv, Owning, OwnerKnows, Answered, Claimed, Promise!Fresh
  <2>2. Promise!AnswerKeyless(tid[t])
    BY <1>5, <2>1 DEF Reply, Answer, storeVars, Promise!AnswerKeyless
  <2>. QED
    BY <2>1, <2>2 DEF Promise!Next
<1>6. CASE \/ \E k \in Keys \cup {NoKey} : Receive(t, k)
           \/ \E p \in Ids : Mint(t, p)
           \/ LookupIndex(t) \/ Refuse(t) \/ FreezePayload(t) \/ WriteRecord(t)
           \/ SkipClaim(t) \/ LoseClaim(t) \/ DeleteLoser(t) \/ DropPayload(t)
           \/ LookupWinner(t) \/ Die(t)
  <2>1. UNCHANGED <<idem, answers>>
    BY <1>6 DEF Receive, Mint, LookupIndex, Refuse, FreezePayload, WriteRecord, SkipClaim,
       LoseClaim, DeleteLoser, DropPayload, LookupWinner, Die, storeVars
  <2>. QED
    BY <2>1 DEF Promise!vars
<1>. QED
  BY <1>1, <1>2, <1>3, <1>4, <1>5, <1>6 DEF ThreadStep

\* propose over create implements one atomic, permanent decision per key, for
\* every number of handlers and however they interleave and die.
THEOREM IntakeRefines == IntakeSpec => ImplementsIdempotentIntake
<1>. DEFINE Step == IntakeNext \/ (Tick /\ UNCHANGED intakeVars)
            all == <<storeVars, intakeVars>>
<1>1. IntakeStart => Promise!Init
  BY DEF IntakeStart, StoreInit, IntakeInit, Promise!Init
<1>2. IntakeTypeInv /\ IntakeInv /\ [Step]_all => [Promise!Next]_(Promise!vars)
  <2>. SUFFICES ASSUME IntakeTypeInv, IntakeInv, [Step]_all
                PROVE  [Promise!Next]_(Promise!vars)
    OBVIOUS
  <2>1. CASE IntakeNext
    BY <2>1, IntakeSimulates
  <2>2. CASE Tick /\ UNCHANGED intakeVars
    BY <2>2 DEF Tick, intakeVars, Promise!vars
  <2>3. CASE UNCHANGED all
    BY <2>3 DEF storeVars, intakeVars, Promise!vars
  <2>. QED
    BY <2>1, <2>2, <2>3
<1>. QED
  BY <1>1, <1>2, IntakeInvariant, PTL DEF IntakeSpec, ImplementsIdempotentIntake, Promise!Spec

-----------------------------------------------------------------------------
(* The gateway. *)

\* What the send path has done is confined to proposals a caller knows.
OnlyKnown ==
    /\ \A w \in Workers : target[w] # NoId => target[w] \in Known
    /\ \A p \in Ids \ Known :
        /\ status[p] \in {"absent", "pending"}
        /\ wire[p] = 0 /\ delivered[p] = 0 /\ \A e \in Events : ledger[p][e] = 0

BaseInv == SendTypeInv /\ IntakeTypeInv /\ IntakeInv /\ OnlyKnown

\* What a send step leaves alone in the store.
RecordsKept ==
    /\ UNCHANGED <<keyOf, idem, payloads>>
    /\ \A p \in Ids : status'[p] = "absent" <=> status[p] = "absent"

\* What a send step does to p it does on behalf of a caller that holds p.
Touches(C) ==
    /\ \A w \in Workers : target'[w] \in C \cup {NoId, target[w]}
    /\ \A p \in Ids :
        \/ /\ status'[p] = status[p] /\ wire'[p] = wire[p]
           /\ delivered'[p] = delivered[p] /\ ledger'[p] = ledger[p]
        \/ \E w \in Workers : target[w] = p

-----------------------------------------------------------------------------
LEMMA SendKeepsRecords ==
    ASSUME SendTypeInv, NEW C \in SUBSET Ids, SendNext(C)
    PROVE  RecordsKept
<1>. USE SendAssumption, StoreAssumption
     DEF SendTypeInv, Locals, StoreTypeOK, SendTypeOK, Steps, Dispatching,
         Events, Actor, ProposalStatus, Terminal, storeVars
<1>. USE DEF RecordsKept
<1>1. PICK w \in Workers :
        \/ \E p \in C, entry \in {"confirm_check", "expire_check"} : Call(w, p, entry)
        \/ Advance(w)
        \/ Crash(w)
  BY DEF SendNext
<1>2. ASSUME NEW p \in C, NEW entry \in {"confirm_check", "expire_check"}, Call(w, p, entry)
      PROVE  RecordsKept
  BY <1>2 DEF Call, Goto
<1>3. ASSUME NEW a \in Actor, NEW r \in {"yes", "no", "unknown"}, ConfirmCheck(w, a, r)
      PROVE  RecordsKept
  BY <1>3 DEF ConfirmCheck, Approvable, Goto
<1>4. ASSUME NEW a \in Actor, NEW r \in {"yes", "no", "unknown"}, ConfirmRefused(w, a, r)
      PROVE  RecordsKept
  BY <1>4 DEF ConfirmRefused, Stop
<1>5. CASE ConfirmSet(w)
  BY <1>5 DEF ConfirmSet, SetStatus, Goto
<1>6. CASE ConfirmLog(w)
  BY <1>6 DEF ConfirmLog, Record, Goto
<1>7. CASE DispatchCheck(w)
  BY <1>7 DEF DispatchCheck, Goto
<1>8. CASE DispatchRefused(w)
  BY <1>8 DEF DispatchRefused, Stop
<1>9. CASE AttemptLog(w)
  BY <1>9 DEF AttemptLog, Record, Goto
<1>10. ASSUME NEW taken \in BOOLEAN, Post(w, taken)
      PROVE  RecordsKept
  BY <1>10 DEF Post, Goto
<1>11. ASSUME NEW s \in Terminal, SenderStops(w, s)
      PROVE  RecordsKept
  BY <1>11 DEF SenderStops, Goto
<1>12. ASSUME NEW s \in Terminal, Respond(w, s)
      PROVE  RecordsKept
  BY <1>12 DEF Respond, Classified, Goto
<1>13. CASE Settle(w)
  BY <1>13 DEF Settle, SetStatus, Goto
<1>14. CASE SettleLog(w)
  BY <1>14 DEF SettleLog, Record, Stop
<1>15. CASE ExpireCheck(w)
  BY <1>15 DEF ExpireCheck, Overdue, Goto
<1>16. CASE ExpireRefused(w)
  BY <1>16 DEF ExpireRefused, Stop
<1>17. CASE ExpireSet(w)
  BY <1>17 DEF ExpireSet, SetStatus, Goto
<1>18. CASE ExpireLog(w)
  BY <1>18 DEF ExpireLog, Record, Stop
<1>19. CASE Crash(w)
  BY <1>19 DEF Crash, Stop
<1>. HIDE DEF SendTypeInv, RecordsKept, Touches, OnlyKnown
<1>. QED
  BY <1>1, <1>2, <1>3, <1>4, <1>5, <1>6, <1>7, <1>8, <1>9, <1>10, <1>11, <1>12,
     <1>13, <1>14, <1>15, <1>16, <1>17, <1>18, <1>19 DEF Advance

LEMMA SendTouches ==
    ASSUME SendTypeInv, NEW C \in SUBSET Ids, SendNext(C)
    PROVE  Touches(C)
<1>. USE SendAssumption, StoreAssumption
     DEF SendTypeInv, Locals, StoreTypeOK, SendTypeOK, Steps, Dispatching,
         Events, Actor, ProposalStatus, Terminal, storeVars
<1>. USE DEF Touches
<1>1. PICK w \in Workers :
        \/ \E p \in C, entry \in {"confirm_check", "expire_check"} : Call(w, p, entry)
        \/ Advance(w)
        \/ Crash(w)
  BY DEF SendNext
<1>2. ASSUME NEW p \in C, NEW entry \in {"confirm_check", "expire_check"}, Call(w, p, entry)
      PROVE  Touches(C)
  BY <1>2 DEF Call, Goto
<1>3. ASSUME NEW a \in Actor, NEW r \in {"yes", "no", "unknown"}, ConfirmCheck(w, a, r)
      PROVE  Touches(C)
  BY <1>3 DEF ConfirmCheck, Approvable, Goto
<1>4. ASSUME NEW a \in Actor, NEW r \in {"yes", "no", "unknown"}, ConfirmRefused(w, a, r)
      PROVE  Touches(C)
  BY <1>4 DEF ConfirmRefused, Stop
<1>5. CASE ConfirmSet(w)
  BY <1>5 DEF ConfirmSet, SetStatus, Goto
<1>6. CASE ConfirmLog(w)
  BY <1>6 DEF ConfirmLog, Record, Goto
<1>7. CASE DispatchCheck(w)
  BY <1>7 DEF DispatchCheck, Goto
<1>8. CASE DispatchRefused(w)
  BY <1>8 DEF DispatchRefused, Stop
<1>9. CASE AttemptLog(w)
  BY <1>9 DEF AttemptLog, Record, Goto
<1>10. ASSUME NEW taken \in BOOLEAN, Post(w, taken)
      PROVE  Touches(C)
  BY <1>10 DEF Post, Goto
<1>11. ASSUME NEW s \in Terminal, SenderStops(w, s)
      PROVE  Touches(C)
  BY <1>11 DEF SenderStops, Goto
<1>12. ASSUME NEW s \in Terminal, Respond(w, s)
      PROVE  Touches(C)
  BY <1>12 DEF Respond, Classified, Goto
<1>13. CASE Settle(w)
  BY <1>13 DEF Settle, SetStatus, Goto
<1>14. CASE SettleLog(w)
  BY <1>14 DEF SettleLog, Record, Stop
<1>15. CASE ExpireCheck(w)
  BY <1>15 DEF ExpireCheck, Overdue, Goto
<1>16. CASE ExpireRefused(w)
  BY <1>16 DEF ExpireRefused, Stop
<1>17. CASE ExpireSet(w)
  BY <1>17 DEF ExpireSet, SetStatus, Goto
<1>18. CASE ExpireLog(w)
  BY <1>18 DEF ExpireLog, Record, Stop
<1>19. CASE Crash(w)
  BY <1>19 DEF Crash, Stop
<1>. HIDE DEF SendTypeInv, RecordsKept, Touches, OnlyKnown
<1>. QED
  BY <1>1, <1>2, <1>3, <1>4, <1>5, <1>6, <1>7, <1>8, <1>9, <1>10, <1>11, <1>12,
     <1>13, <1>14, <1>15, <1>16, <1>17, <1>18, <1>19 DEF Advance

LEMMA KnownIsAnswered ==
    ASSUME IntakeTypeInv
    PROVE  Known \in SUBSET Ids /\ \A p \in Ids : p \in Known <=> Answered(p)
<1>1. \A a \in answers : a[2] \in Ids
  BY DEF IntakeTypeInv, IntakeTypeOK
<1>. QED
  BY <1>1 DEF Known, Answered

\* Intake forgets no answer.
LEMMA KnownGrows ==
    ASSUME IntakeNext
    PROVE  Known \subseteq Known'
<1>1. answers \subseteq answers'
  BY DEF IntakeNext, ThreadStep, Receive, Mint, LookupIndex, FetchExisting, Refuse,
     FreezePayload, WriteRecord, SkipClaim, WinClaim, LoseClaim, Reply, DeleteLoser,
     DropPayload, LookupWinner, Die, Answer
<1>. QED
  BY <1>1, Zenon DEF Known

\* Intake writes statuses only of proposals nobody was told of.
LEMMA IntakeStatus ==
    ASSUME IntakeTypeInv, IntakeInv, IntakeNext
    PROVE  \A p \in Ids :
              \/ status'[p] = status[p]
              \/ ~Answered(p) /\ status'[p] \in {"absent", "pending"}
<1>2. PICK t \in Threads :
        \/ \E k \in Keys \cup {NoKey} : Receive(t, k)
        \/ \E p \in Ids : Mint(t, p)
        \/ ThreadStep(t)
        \/ Die(t)
  BY DEF IntakeNext
<1>3. \/ UNCHANGED status \/ WriteRecord(t) \/ DeleteLoser(t)
  BY <1>2 DEF ThreadStep, Receive, Mint, LookupIndex, FetchExisting, Refuse,
     FreezePayload, SkipClaim, WinClaim, LoseClaim, Reply, DropPayload, LookupWinner,
     Die, storeVars
<1>4. CASE WriteRecord(t)
  <2>1. tpc[t] = "write" /\ status' = [status EXCEPT ![tid[t]] = "pending"]
    BY <1>4 DEF WriteRecord, Move
  <2>2. ~Answered(tid[t])
    BY <2>1 DEF IntakeInv, Owning, OwnerKnows
  <2>. QED
    BY <2>1, <2>2 DEF IntakeTypeInv, StoreTypeOK
<1>5. CASE DeleteLoser(t)
  <2>1. tpc[t] = "rollback" /\ status' = [status EXCEPT ![tid[t]] = "absent"]
    BY <1>5 DEF DeleteLoser, Move
  <2>2. ~Answered(tid[t])
    BY <2>1 DEF IntakeInv, Owning, OwnerKnows
  <2>. QED
    BY <2>1, <2>2 DEF IntakeTypeInv, StoreTypeOK
<1>6. CASE UNCHANGED status
  BY <1>6
<1>. QED
  BY <1>3, <1>4, <1>5, <1>6

-----------------------------------------------------------------------------
LEMMA GatewayInitInv ==
    ASSUME GatewayInit
    PROVE  BaseInv /\ SendInv
<1>. USE StoreAssumption DEF GatewayInit
<1>1. IntakeTypeInv /\ IntakeInv
  BY IntakeInitInv
<1>2. SendTypeInv
  BY <1>1 DEF IntakeTypeInv, SendTypeInv, SendInit, Locals, SendTypeOK, Steps, Dispatching,
     Events, Actor, Terminal
<1>3. SendInv
  BY DEF StoreInit, SendInit, SendInv, Exclusive, Past, Faithful, Terminal, Events, Actor
<1>4. OnlyKnown
  BY DEF StoreInit, SendInit, OnlyKnown
<1>. QED
  BY <1>1, <1>2, <1>3, <1>4 DEF BaseInv

LEMMA IntakePreserves ==
    ASSUME BaseInv, Intake
    PROVE  BaseInv' /\ (SendInv => SendInv')
<1>. USE StoreAssumption DEF BaseInv, Intake
<1>1. IntakeTypeInv' /\ IntakeInv'
  BY IntakeTypeStep, IntakeInvStep
<1>2. SendTypeInv'
  BY <1>1 DEF IntakeTypeInv, sendVars, SendTypeInv, SendTypeOK, Locals
<1>3. OnlyKnown'
  <2>1. \A p \in Ids \ Known : status'[p] \in {"absent", "pending"}
    BY IntakeStatus DEF OnlyKnown
  <2>. QED
    BY <2>1, KnownGrows DEF sendVars, OnlyKnown
<1>4. ASSUME SendInv
      PROVE  SendInv'
  <2>1. \A p \in Ids : p \in Known => status'[p] = status[p]
    BY IntakeStatus, KnownIsAnswered
  <2>2. ASSUME NEW w \in Workers, target'[w] # NoId
        PROVE  Holding(w, target[w])'
    <3>1. target[w] \in Known /\ target[w] \in Ids /\ target' = target
      BY <2>2, KnownIsAnswered DEF sendVars, OnlyKnown
    <3>2. status'[target[w]] = status[target[w]] /\ Holding(w, target[w])
      BY <3>1, <2>1, <1>4, <2>2 DEF SendInv
    <3>. QED
      BY <3>1, <3>2 DEF Holding, sendVars
  <2>3. ASSUME NEW p \in Ids
        PROVE  Faithful(p)'
    <3>1. CASE status'[p] = status[p]
      BY <3>1, <1>4 DEF sendVars, SendInv, Faithful
    <3>2. CASE ~Answered(p) /\ status'[p] \in {"absent", "pending"}
      <4>1. wire[p] = 0 /\ delivered[p] = 0 /\ \A e \in Events : ledger[p][e] = 0
        BY <3>2, KnownIsAnswered DEF OnlyKnown
      <4>. QED
        BY <3>2, <4>1 DEF sendVars, Faithful, Events, Terminal
    <3>. QED
      BY <3>1, <3>2, IntakeStatus
  <2>4. Exclusive'
    BY <1>4 DEF sendVars, SendInv, Exclusive, Past
  <2>. QED
    BY <2>2, <2>3, <2>4 DEF SendInv
<1>. QED
  BY <1>1, <1>2, <1>3, <1>4

LEMMA SendingPreserves ==
    ASSUME BaseInv, Sending
    PROVE  BaseInv' /\ (~Overlap /\ SendInv => SendInv')
<1>. USE DEF BaseInv, Sending
<1>0. Known \in SUBSET Ids
  BY KnownIsAnswered
<1>1. SendTypeInv' /\ RecordsKept /\ Touches(Known)
  BY <1>0, SendTypeStep, SendKeepsRecords, SendTouches
<1>2. IntakeTypeInv' /\ IntakeInv'
  BY <1>1, IntakeInvStable DEF RecordsKept, SendTypeInv
<1>3. OnlyKnown'
  <2>1. Known' = Known
    BY DEF Known, intakeVars
  <2>2. ASSUME NEW w \in Workers, target'[w] # NoId
        PROVE  target'[w] \in Known
    BY <1>1, <2>2 DEF Touches, OnlyKnown
  <2>3. ASSUME NEW p \in Ids \ Known
        PROVE  /\ status'[p] = status[p] /\ wire'[p] = wire[p]
               /\ delivered'[p] = delivered[p] /\ ledger'[p] = ledger[p]
    <3>1. \A w \in Workers : target[w] # p
      BY StoreAssumption DEF OnlyKnown
    <3>. QED
      BY <1>1, <3>1 DEF Touches
  <2>. QED
    BY <2>1, <2>2, <2>3 DEF OnlyKnown
<1>4. ~Overlap /\ SendInv => SendInv'
  BY <1>0, SendInvStep
<1>. QED
  BY <1>1, <1>2, <1>3, <1>4

LEMMA TickPreserves ==
    ASSUME BaseInv, Tick, UNCHANGED <<intakeVars, sendVars>>
    PROVE  BaseInv' /\ (SendInv => SendInv')
<1>. USE DEF BaseInv
<1>1. SendTypeInv' /\ (SendInv => SendInv')
  BY TickStep
<1>2. IntakeTypeInv' /\ IntakeInv'
  BY <1>1, IntakeInvStable DEF SendTypeInv, Tick
<1>3. OnlyKnown'
  BY DEF OnlyKnown, Known, Tick, intakeVars, sendVars
<1>. QED
  BY <1>1, <1>2, <1>3

LEMMA StutterPreserves ==
    ASSUME BaseInv, UNCHANGED gatewayVars
    PROVE  BaseInv' /\ (SendInv => SendInv')
<1>. USE DEF BaseInv, gatewayVars
<1>1. SendTypeInv' /\ (SendInv => SendInv')
  BY DEF storeVars, sendVars, SendTypeInv, StoreTypeOK, SendTypeOK, Locals, SendInv,
     Exclusive, Past, Holding, Faithful
<1>2. IntakeTypeInv' /\ IntakeInv'
  BY <1>1, IntakeInvStable DEF SendTypeInv, storeVars
<1>3. OnlyKnown'
  BY DEF OnlyKnown, Known, storeVars, intakeVars, sendVars
<1>. QED
  BY <1>1, <1>2, <1>3

-----------------------------------------------------------------------------
LEMMA GatewayBase == GatewaySpec => []BaseInv
<1>1. GatewayInit => BaseInv
  BY GatewayInitInv
<1>2. BaseInv /\ [GatewayNext]_gatewayVars => BaseInv'
  BY IntakePreserves, SendingPreserves, TickPreserves, StutterPreserves DEF GatewayNext
<1>. QED
  BY <1>1, <1>2, PTL DEF GatewaySpec

\* For every interleaving of any number of handlers and callers, the sender
\* finds the record and the frozen payload of the proposal it was called for.
THEOREM PayloadsAreThere == GatewaySpec => []SenderFindsPayload
<1>1. BaseInv => SenderFindsPayload
  BY KnownIsAnswered DEF BaseInv, OnlyKnown, IntakeInv, Answered, SenderFindsPayload
<1>. QED
  BY <1>1, GatewayBase, PTL

\* Records, indexes and every actor's locals keep their types in the composition.
THEOREM GatewayTypeCorrect == GatewaySpec => []GatewayTypeOK
<1>1. BaseInv => GatewayTypeOK
  BY DEF BaseInv, SendTypeInv, IntakeTypeInv, GatewayTypeOK
<1>. QED
  BY <1>1, GatewayBase, PTL

\* What intake guarantees on its own it still guarantees while proposals are
\* confirmed, sent and expired around it.
THEOREM IntakeHoldsInGateway ==
    GatewaySpec => [](ClaimedKeyResolves /\ OneProposalPerKey /\ NoOrphans)
<1>1. BaseInv => ClaimedKeyResolves /\ OneProposalPerKey /\ NoOrphans
  BY DEF BaseInv, IntakeInv, OneProposalPerKey
<1>. QED
  BY <1>1, GatewayBase, PTL

LEMMA GatewaySend ==
    ASSUME ~Overlap
    PROVE  GatewaySpec => []SendInv
<1>1. GatewayInit => SendInv
  BY GatewayInitInv
<1>2. BaseInv /\ SendInv /\ [GatewayNext]_gatewayVars => SendInv'
  BY IntakePreserves, SendingPreserves, TickPreserves, StutterPreserves DEF GatewayNext
<1>. QED
  BY <1>1, <1>2, GatewayBase, PTL DEF GatewaySpec

\* As long as no two callers of a proposal are between a check and its write, the
\* send path keeps its promises while intake writes to the same store.
THEOREM SendsHoldInGateway ==
    ASSUME ~Overlap
    PROVE  GatewaySpec => [](AtMostOneSend /\ OutcomesAreTrue /\ LedgerAgrees)
<1>1. SendInv => AtMostOneSend /\ OutcomesAreTrue /\ LedgerAgrees
  BY DEF SendInv, Faithful, AtMostOneSend, OutcomesAreTrue, LedgerAgrees
<1>. QED
  BY <1>1, GatewaySend, PTL

\* Whatever else goes on around them, overlapping callers included, the requests
\* the composed gateway makes were approved and audited (gate 7), and SENT is
\* only stored of a message Gmail took: intake never writes those columns.
THEOREM ApprovalsHoldInGateway ==
    GatewaySpec => [](SendsAreApprovedAndAudited /\ SentIsTrue)
<1>. DEFINE Kept == ApprovalInv /\ AuditInv /\ SentInv
<1>1. GatewayInit => Kept
  <2>. SUFFICES ASSUME GatewayInit
                PROVE  ApprovalInv /\ AuditInv /\ SentInv
    OBVIOUS
  <2>1. ApprovalInv /\ SentInv
    BY DEF GatewayInit, StoreInit, SendInit, ApprovalInv, Dispatching, SentInv, SentIsTrue
  <2>2. AuditInv
    BY AuditStart DEF GatewayInit
  <2>. QED
    BY <2>1, <2>2
<1>2. BaseInv /\ Kept /\ [GatewayNext]_gatewayVars => Kept'
  <2>. SUFFICES ASSUME BaseInv, ApprovalInv, AuditInv, SentInv, [GatewayNext]_gatewayVars
                PROVE  ApprovalInv' /\ AuditInv' /\ SentInv'
    OBVIOUS
  <2>1. CASE Sending
    BY <2>1, ApprovalStep, AuditStep, SentStep, KnownIsAnswered DEF BaseInv, Sending
  <2>2. ASSUME UNCHANGED sendVars, \A p \in Ids : status'[p] = "sent" => status[p] = "sent"
        PROVE  ApprovalInv' /\ AuditInv' /\ SentInv'
    <3>1. ApprovalInv'
      BY <2>2 DEF sendVars, ApprovalInv, Approved
    <3>2. SentInv'
      BY <2>2 DEF sendVars, SentInv, SentIsTrue
    <3>. QED
      BY <2>2, <3>1, <3>2, TickAudit DEF BaseInv
  <2>3. CASE Intake
    <3>1. \A p \in Ids : status'[p] = "sent" => status[p] = "sent"
      BY <2>3, IntakeStatus DEF BaseInv, Intake
    <3>. QED
      BY <2>2, <2>3, <3>1 DEF Intake
  <2>4. CASE Tick /\ UNCHANGED <<intakeVars, sendVars>>
    BY <2>2, <2>4 DEF Tick
  <2>5. CASE UNCHANGED gatewayVars
    BY <2>2, <2>5 DEF gatewayVars, storeVars
  <2>. QED
    BY <2>1, <2>3, <2>4, <2>5 DEF GatewayNext
<1>3. BaseInv /\ Kept => SendsAreApprovedAndAudited /\ SentIsTrue
  BY ApprovedAndAudited DEF BaseInv, SentInv
<1>. HIDE DEF Kept
<1>. QED
  BY <1>1, <1>2, <1>3, GatewayBase, PTL DEF GatewaySpec

\* Neither intake nor the send path ever changes a settled proposal.
THEOREM SettledInGateway ==
    ASSUME ~Overlap
    PROVE  GatewaySpec => SettledForGood
<1>1. BaseInv /\ SendInv /\ [GatewayNext]_gatewayVars => [Final]_vars
  <2>. SUFFICES ASSUME BaseInv, SendInv, [GatewayNext]_gatewayVars
                PROVE  Final \/ UNCHANGED vars
    OBVIOUS
  <2>1. CASE Intake
    <3>1. \A p \in Ids : status'[p] = status[p] \/ ~Answered(p)
      BY <2>1, IntakeStatus DEF BaseInv, Intake
    <3>2. \A p \in Ids : ~Answered(p) => status[p] \notin Terminal
      BY KnownIsAnswered DEF BaseInv, OnlyKnown, Terminal
    <3>. QED
      BY <3>1, <3>2 DEF Final
  <2>2. CASE Sending
    BY <2>2, SettledStep, KnownIsAnswered DEF BaseInv, Sending
  <2>3. CASE Tick /\ UNCHANGED <<intakeVars, sendVars>>
    BY <2>3 DEF Tick, Final
  <2>4. CASE UNCHANGED gatewayVars
    BY <2>4 DEF gatewayVars, vars
  <2>. QED
    BY <2>1, <2>2, <2>3, <2>4 DEF GatewayNext
<1>2. GatewaySpec => [][Final]_vars
  BY <1>1, GatewayBase, GatewaySend, PTL DEF GatewaySpec
<1>. QED
  BY <1>2 DEF SettledForGood, Final

\* Sending a proposal is a stutter of intake's promise: the composed gateway
\* still makes one atomic decision per key.
THEOREM GatewayRefines == GatewaySpec => ImplementsIdempotentIntake
<1>1. GatewayInit => Promise!Init
  BY DEF GatewayInit, StoreInit, IntakeInit, Promise!Init
<1>2. BaseInv /\ [GatewayNext]_gatewayVars => [Promise!Next]_(Promise!vars)
  <2>. SUFFICES ASSUME BaseInv, [GatewayNext]_gatewayVars
                PROVE  [Promise!Next]_(Promise!vars)
    OBVIOUS
  <2>1. CASE Intake
    BY <2>1, IntakeSimulates DEF BaseInv, Intake
  <2>2. CASE Sending
    <3>1. RecordsKept
      BY <2>2, SendKeepsRecords, KnownIsAnswered DEF BaseInv, Sending
    <3>. QED
      BY <2>2, <3>1 DEF RecordsKept, Sending, intakeVars, Promise!vars
  <2>3. CASE Tick /\ UNCHANGED <<intakeVars, sendVars>>
    BY <2>3 DEF Tick, intakeVars, Promise!vars
  <2>4. CASE UNCHANGED gatewayVars
    BY <2>4 DEF gatewayVars, storeVars, intakeVars, Promise!vars
  <2>. QED
    BY <2>1, <2>2, <2>3, <2>4 DEF GatewayNext
<1>. QED
  BY <1>1, <1>2, GatewayBase, PTL DEF GatewaySpec, ImplementsIdempotentIntake, Promise!Spec

\* What intake writes is a step of the abstract machine as well: a proposal is
\* stored, or, its claim lost and nobody told of it, taken back.
LEMMA IntakeMails ==
    ASSUME BaseInv, Intake
    PROVE  Mailing!Next \/ UNCHANGED Mailing!vars
<1>. USE DEF Mailing!vars
<1>1. PICK t \in Threads :
        \/ \E k \in Keys \cup {NoKey} : Receive(t, k)
        \/ \E p \in Ids : Mint(t, p)
        \/ ThreadStep(t)
        \/ Die(t)
  BY DEF Intake, IntakeNext
<1>2. \/ UNCHANGED status \/ WriteRecord(t) \/ DeleteLoser(t)
  BY <1>1 DEF ThreadStep, Receive, Mint, LookupIndex, FetchExisting, Refuse,
     FreezePayload, SkipClaim, WinClaim, LoseClaim, Reply, DropPayload, LookupWinner,
     Die, storeVars
<1>3. UNCHANGED <<wire, delivered>>
  BY DEF Intake, sendVars
<1>4. CASE WriteRecord(t)
  <2>1. tid[t] \in Ids
    BY <1>4 DEF WriteRecord, Move, Owning, BaseInv, IntakeInv
  <2>2. Mailing!Store(tid[t])
    BY <1>3, <1>4 DEF WriteRecord, Mailing!Store, Mailing!Becomes
  <2>. QED
    BY <2>1, <2>2 DEF Mailing!Next
<1>5. CASE DeleteLoser(t)
  <2>1. tpc[t] = "rollback" /\ status' = [status EXCEPT ![tid[t]] = "absent"]
    BY <1>5 DEF DeleteLoser, Move
  <2>2. tid[t] \in Ids /\ ~Answered(tid[t]) /\ status[tid[t]] # "absent"
    BY <2>1 DEF Owning, BaseInv, IntakeInv, OwnerKnows
  <2>3. status[tid[t]] = "pending"
    BY <2>2, KnownIsAnswered DEF BaseInv, OnlyKnown
  <2>4. Mailing!Withdraw(tid[t])
    BY <1>3, <2>1, <2>3 DEF Mailing!Withdraw, Mailing!Becomes
  <2>. QED
    BY <2>2, <2>4 DEF Mailing!Next
<1>. QED
  BY <1>2, <1>3, <1>4, <1>5

\* From a request to a mail: intake and the send path over one store, with
\* every interleaving of handlers and callers, store, withdraw, approve, mail
\* and settle each proposal as one abstract caller would, as long as no two
\* callers of a proposal are between a check and its write.
THEOREM GatewaySendsRefine ==
    ASSUME ~Overlap
    PROVE  GatewaySpec => ImplementsOneMail
<1>1. GatewayInit => Mailing!Init
  <2>1. GatewayInit => status \in [Ids -> {"absent", "pending"}] /\ SendInit
    BY DEF GatewayInit, StoreInit
  <2>. QED
    BY <2>1, MailingInit
<1>2. BaseInv /\ SendInv /\ [GatewayNext]_gatewayVars => [Mailing!Next]_(Mailing!vars)
  <2>. SUFFICES ASSUME BaseInv, SendInv, [GatewayNext]_gatewayVars
                PROVE  [Mailing!Next]_(Mailing!vars)
    OBVIOUS
  <2>1. CASE Intake
    BY <2>1, IntakeMails
  <2>2. CASE Sending
    BY <2>2, MailingStep, KnownIsAnswered DEF BaseInv, Sending
  <2>3. CASE Tick /\ UNCHANGED <<intakeVars, sendVars>>
    BY <2>3 DEF Tick, sendVars, Mailing!vars
  <2>4. CASE UNCHANGED gatewayVars
    BY <2>4 DEF gatewayVars, storeVars, sendVars, Mailing!vars
  <2>. QED
    BY <2>1, <2>2, <2>3, <2>4 DEF GatewayNext
<1>. QED
  BY <1>1, <1>2, GatewayBase, GatewaySend, PTL
     DEF GatewaySpec, ImplementsOneMail, Mailing!Spec

\* As long as no two callers of a proposal are between a check and its write, an
\* idempotency key is worth at most one request to Gmail: intake binds the key to
\* one proposal, only that one can be confirmed, and it is sent at most once.
THEOREM OneKeyOneMail ==
    ASSUME ~Overlap
    PROVE  GatewaySpec => []OneMailPerKey
<1>1. BaseInv /\ SendInv => OneMailPerKey
  <2>. SUFFICES ASSUME BaseInv, SendInv, NEW p \in Ids, NEW q \in Ids,
                       wire[p] > 0, wire[q] > 0, keyOf[p] = keyOf[q], keyOf[p] # NoKey
                PROVE  p = q /\ wire[p] = 1
    BY DEF OneMailPerKey
  <2>1. wire[p] \in Nat /\ wire[q] \in Nat
    BY DEF BaseInv, SendTypeInv, SendTypeOK
  <2>2. Answered(p) /\ Answered(q)
    BY <2>1, KnownIsAnswered DEF BaseInv, OnlyKnown
  <2>3. idem[keyOf[p]] = p /\ idem[keyOf[q]] = q
    BY <2>2 DEF BaseInv, IntakeInv, Answered
  <2>4. wire[p] <= 1
    BY DEF SendInv, Faithful
  <2>. QED
    BY <2>1, <2>3, <2>4
<1>. QED
  BY <1>1, GatewayBase, GatewaySend, PTL
=============================================================================
