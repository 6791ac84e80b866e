--------------------------- MODULE SendFSMProofs ---------------------------
(***************************************************************************)
(* Proofs about SendFSM for every set of proposals and callers.            *)
(***************************************************************************)
EXTENDS SendFSM, FiniteSetTheorems, TLAPS

\* Which locals a caller has at which step.
Locals ==
    \A w \in Workers :
        /\ pc[w] = "idle" <=> target[w] = NoId
        /\ pc[w] = "await" => result[w] \in {"taken", "lost"}
        /\ pc[w] \in {"settle", "settle_log"} => result[w] \in Terminal

SendTypeInv == StoreTypeOK /\ SendTypeOK /\ Locals

\* A caller is past the check of the proposal it was called for.
Past(w) == pc[w] \notin {"idle", "confirm_check", "expire_check"}

\* No two callers are past their check of one proposal.
Exclusive ==
    \A v, w \in Workers : Past(v) /\ Past(w) /\ target[v] = target[w] => v = w

\* What a caller knows of the proposal it holds, step by step.
Holding(w, p) ==
    /\ pc[w] \in {"confirm_set", "expire_set"} => status[p] = "pending"
    /\ pc[w] \in {"confirm_log", "dispatch_check", "attempt_log", "sender"} =>
        status[p] = "confirmed" /\ wire[p] = 0
    /\ pc[w] \in {"await", "settle"} => status[p] = "confirmed"
    /\ pc[w] = "await" => (result[w] = "taken" <=> delivered[p] > 0)
    /\ pc[w] = "settle" =>
        /\ result[w] = "sent" => delivered[p] > 0
        /\ result[w] = "failed" => delivered[p] = 0
    /\ pc[w] = "settle_log" => status[p] = result[w]
    /\ pc[w] = "expire_log" => status[p] = "failed" /\ wire[p] = 0

\* What the store says of a proposal is true of the world.
Faithful(p) ==
    /\ wire[p] <= 1 /\ delivered[p] <= 1
    /\ wire[p] = 0 => delivered[p] = 0
    /\ status[p] \in {"absent", "pending"} => wire[p] = 0
    /\ status[p] = "sent" => delivered[p] > 0
    /\ status[p] = "failed" => delivered[p] = 0
    /\ \A s \in Terminal : ledger[p][s] > 0 => status[p] = s
    /\ ledger[p]["proposal_expired"] > 0 => status[p] = "failed" /\ wire[p] = 0

SendInv ==
    /\ Exclusive
    /\ \A w \in Workers : target[w] # NoId => Holding(w, target[w])
    /\ \A p \in Ids : Faithful(p)

\* The callers that have logged an attempt on p and not yet made the request.
InSender(p) == {w \in Workers : pc[w] = "sender" /\ target[w] = p}

Approved(p) ==
    ledger[p]["human"] > 0 \/ (AutoSend /\ ledger[p]["auto_unreachable"] > 0)

\* Who is past the approval was approved by somebody entitled to it.
ApprovalInv ==
    /\ \A w \in Workers :
        /\ pc[w] \in {"confirm_set", "confirm_log"} => actor[w] = "human" \/ AutoSend
        /\ pc[w] \in Dispatching => Approved(target[w])
    /\ \A p \in Ids : wire[p] > 0 => Approved(p)

\* Every request made, or about to be made, has its SEND_ATTEMPTED row.
AuditInv ==
    \A p \in Ids : wire[p] + Cardinality(InSender(p)) <= ledger[p]["send_attempted"]

-----------------------------------------------------------------------------
\* Every step of a caller keeps the types of the shared and the local state:
\* no transition of fsm.py stores a status or a row outside the closed sets.
LEMMA SendTypeStep ==
    ASSUME SendTypeInv, NEW C \in SUBSET Ids, SendNext(C)
    PROVE  SendTypeInv'
<1>. USE SendAssumption, StoreAssumption
     DEF SendTypeInv, Locals, StoreTypeOK, SendTypeOK, Steps, Dispatching,
         Events, Actor, ProposalStatus, Terminal, storeVars
<1>1. PICK w \in Workers :
        \/ \E p \in C, entry \in {"confirm_check", "expire_check"} : Call(w, p, entry)
        \/ Advance(w)
        \/ Crash(w)
  BY DEF SendNext
<1>2. ASSUME NEW p \in C, NEW entry \in {"confirm_check", "expire_check"}, Call(w, p, entry)
      PROVE  SendTypeInv'
  BY <1>2 DEF Call, Goto
<1>3. ASSUME NEW a \in Actor, NEW r \in {"yes", "no", "unknown"}, ConfirmCheck(w, a, r)
      PROVE  SendTypeInv'
  BY <1>3 DEF ConfirmCheck, NoneInBetween, Approvable, Goto
<1>4. ASSUME NEW a \in Actor, NEW r \in {"yes", "no", "unknown"}, ConfirmRefused(w, a, r)
      PROVE  SendTypeInv'
  BY <1>4 DEF ConfirmRefused, Stop
<1>5. CASE ConfirmSet(w)
  BY <1>5 DEF ConfirmSet, SetStatus, Goto
<1>6. CASE ConfirmLog(w)
  BY <1>6 DEF ConfirmLog, Record, Goto
<1>7. CASE DispatchCheck(w)
  BY <1>7 DEF DispatchCheck, Goto
<1>8. CASE DispatchRefused(w)
  BY <1>8 DEF DispatchRefused, Stop
<1>9. CASE AttemptLog(w)
  BY <1>9 DEF AttemptLog, Record, Goto
<1>10. ASSUME NEW taken \in BOOLEAN, Post(w, taken)
      PROVE  SendTypeInv'
  BY <1>10 DEF Post, Goto
<1>11. ASSUME NEW s \in Terminal, SenderStops(w, s)
      PROVE  SendTypeInv'
  BY <1>11 DEF SenderStops, Goto
<1>12. ASSUME NEW s \in Terminal, Respond(w, s)
      PROVE  SendTypeInv'
  BY <1>12 DEF Respond, Classified, Goto
<1>13. CASE Settle(w)
  BY <1>13 DEF Settle, SetStatus, Goto
<1>14. CASE SettleLog(w)
  BY <1>14 DEF SettleLog, Record, Stop
<1>15. CASE ExpireCheck(w)
  BY <1>15 DEF ExpireCheck, NoneInBetween, Overdue, Goto
<1>16. CASE ExpireRefused(w)
  BY <1>16 DEF ExpireRefused, Stop
<1>17. CASE ExpireSet(w)
  BY <1>17 DEF ExpireSet, SetStatus, Goto
<1>18. CASE ExpireLog(w)
  BY <1>18 DEF ExpireLog, Record, Stop
<1>19. CASE Crash(w)
  BY <1>19 DEF Crash, Stop
<1>. HIDE DEF SendTypeInv, SendInv, ApprovalInv, AuditInv
<1>. QED
  BY <1>1, <1>2, <1>3, <1>4, <1>5, <1>6, <1>7, <1>8, <1>9, <1>10, <1>11, <1>12,
     <1>13, <1>14, <1>15, <1>16, <1>17, <1>18, <1>19 DEF Advance

\* Without overlapping calls, every step of a caller keeps what the callers
\* know and what the store says in agreement with what Gmail was asked.
LEMMA SendInvStep ==
    ASSUME SendTypeInv, SendInv, ~Overlap, NEW C \in SUBSET Ids, SendNext(C)
    PROVE  SendInv'
<1>. USE SendAssumption, StoreAssumption
     DEF SendTypeInv, Locals, StoreTypeOK, SendTypeOK, Steps, Dispatching,
         Events, Actor, ProposalStatus, Terminal, storeVars
<1>. USE DEF SendInv, Exclusive, Past, Holding, Faithful
<1>1. PICK w \in Workers :
        \/ \E p \in C, entry \in {"confirm_check", "expire_check"} : Call(w, p, entry)
        \/ Advance(w)
        \/ Crash(w)
  BY DEF SendNext
<1>other. ASSUME NEW v \in Workers, v # w, Past(v), Past(w)
       PROVE  target[v] # target[w]
  BY <1>other
<1>2. ASSUME NEW p \in C, NEW entry \in {"confirm_check", "expire_check"}, Call(w, p, entry)
      PROVE  SendInv'
  BY <1>2 DEF Call, Goto
<1>3. ASSUME NEW a \in Actor, NEW r \in {"yes", "no", "unknown"}, ConfirmCheck(w, a, r)
      PROVE  SendInv'
  BY <1>3 DEF ConfirmCheck, NoneInBetween, Approvable, Goto
<1>4. ASSUME NEW a \in Actor, NEW r \in {"yes", "no", "unknown"}, ConfirmRefused(w, a, r)
      PROVE  SendInv'
  BY <1>4 DEF ConfirmRefused, Stop
<1>5. CASE ConfirmSet(w)
  <2>. USE DEF ConfirmSet, SetStatus, Goto
  <2>1. Exclusive'
    BY <1>5
  <2>2. ASSUME NEW v \in Workers, target'[v] # NoId
        PROVE  Holding(v, target[v])'
    BY <1>5, <2>2, <1>other
  <2>3. \A p \in Ids : Faithful(p)'
    BY <1>5
  <2>. QED
    BY <2>1, <2>2, <2>3
<1>6. CASE ConfirmLog(w)
  BY <1>6 DEF ConfirmLog, Record, Goto
<1>7. CASE DispatchCheck(w)
  BY <1>7 DEF DispatchCheck, Goto
<1>8. CASE DispatchRefused(w)
  BY <1>8 DEF DispatchRefused, Stop
<1>9. CASE AttemptLog(w)
  BY <1>9 DEF AttemptLog, Record, Goto
<1>10. ASSUME NEW taken \in BOOLEAN, Post(w, taken)
      PROVE  SendInv'
  <2>. USE DEF Post, Goto
  <2>1. Exclusive'
    BY <1>10
  <2>2. ASSUME NEW v \in Workers, target'[v] # NoId
        PROVE  Holding(v, target[v])'
    BY <1>10, <2>2, <1>other
  <2>3. \A p \in Ids : Faithful(p)'
    BY <1>10
  <2>. QED
    BY <2>1, <2>2, <2>3
<1>11. ASSUME NEW s \in Terminal, SenderStops(w, s)
      PROVE  SendInv'
  BY <1>11 DEF SenderStops, Goto
<1>12. ASSUME NEW s \in Terminal, Respond(w, s)
      PROVE  SendInv'
  BY <1>12 DEF Respond, Classified, Goto
<1>13. CASE Settle(w)
  <2>. USE DEF Settle, SetStatus, Goto
  <2>1. Exclusive'
    BY <1>13
  <2>2. ASSUME NEW v \in Workers, target'[v] # NoId
        PROVE  Holding(v, target[v])'
    BY <1>13, <2>2, <1>other
  <2>3. \A p \in Ids : Faithful(p)'
    BY <1>13
  <2>. QED
    BY <2>1, <2>2, <2>3
<1>14. CASE SettleLog(w)
  BY <1>14 DEF SettleLog, Record, Stop
<1>15. CASE ExpireCheck(w)
  BY <1>15 DEF ExpireCheck, NoneInBetween, Overdue, Goto
<1>16. CASE ExpireRefused(w)
  BY <1>16 DEF ExpireRefused, Stop
<1>17. CASE ExpireSet(w)
  <2>. USE DEF ExpireSet, SetStatus, Goto
  <2>1. Exclusive'
    BY <1>17
  <2>2. ASSUME NEW v \in Workers, target'[v] # NoId
        PROVE  Holding(v, target[v])'
    BY <1>17, <2>2, <1>other
  <2>3. \A p \in Ids : Faithful(p)'
    BY <1>17
  <2>. QED
    BY <2>1, <2>2, <2>3
<1>18. CASE ExpireLog(w)
  BY <1>18 DEF ExpireLog, Record, Stop
<1>19. CASE Crash(w)
  BY <1>19 DEF Crash, Stop
<1>. HIDE DEF SendTypeInv, SendInv, ApprovalInv, AuditInv
<1>. QED
  BY <1>1, <1>2, <1>3, <1>4, <1>5, <1>6, <1>7, <1>8, <1>9, <1>10, <1>11, <1>12,
     <1>13, <1>14, <1>15, <1>16, <1>17, <1>18, <1>19 DEF Advance

\* Every step of a caller keeps the approvals in order, overlapping or not.
LEMMA ApprovalStep ==
    ASSUME SendTypeInv, ApprovalInv, NEW C \in SUBSET Ids, SendNext(C)
    PROVE  ApprovalInv'
<1>. USE SendAssumption, StoreAssumption
     DEF SendTypeInv, Locals, StoreTypeOK, SendTypeOK, Steps, Dispatching,
         Events, Actor, ProposalStatus, Terminal, storeVars
<1>. USE DEF ApprovalInv, Approved
<1>1. PICK w \in Workers :
        \/ \E p \in C, entry \in {"confirm_check", "expire_check"} : Call(w, p, entry)
        \/ Advance(w)
        \/ Crash(w)
  BY DEF SendNext
<1>2. ASSUME NEW p \in C, NEW entry \in {"confirm_check", "expire_check"}, Call(w, p, entry)
      PROVE  ApprovalInv'
  BY <1>2 DEF Call, Goto
<1>3. ASSUME NEW a \in Actor, NEW r \in {"yes", "no", "unknown"}, ConfirmCheck(w, a, r)
      PROVE  ApprovalInv'
  BY <1>3 DEF ConfirmCheck, NoneInBetween, Approvable, Goto
<1>4. ASSUME NEW a \in Actor, NEW r \in {"yes", "no", "unknown"}, ConfirmRefused(w, a, r)
      PROVE  ApprovalInv'
  BY <1>4 DEF ConfirmRefused, Stop
<1>5. CASE ConfirmSet(w)
  BY <1>5 DEF ConfirmSet, SetStatus, Goto
<1>6. CASE ConfirmLog(w)
  BY <1>6 DEF ConfirmLog, Record, Goto
<1>7. CASE DispatchCheck(w)
  BY <1>7 DEF DispatchCheck, Goto
<1>8. CASE DispatchRefused(w)
  BY <1>8 DEF DispatchRefused, Stop
<1>9. CASE AttemptLog(w)
  BY <1>9 DEF AttemptLog, Record, Goto
<1>10. ASSUME NEW taken \in BOOLEAN, Post(w, taken)
      PROVE  ApprovalInv'
  BY <1>10 DEF Post, Goto
<1>11. ASSUME NEW s \in Terminal, SenderStops(w, s)
      PROVE  ApprovalInv'
  BY <1>11 DEF SenderStops, Goto
<1>12. ASSUME NEW s \in Terminal, Respond(w, s)
      PROVE  ApprovalInv'
  BY <1>12 DEF Respond, Classified, Goto
<1>13. CASE Settle(w)
  BY <1>13 DEF Settle, SetStatus, Goto
<1>14. CASE SettleLog(w)
  BY <1>14 DEF SettleLog, Record, Stop
<1>15. CASE ExpireCheck(w)
  BY <1>15 DEF ExpireCheck, NoneInBetween, Overdue, Goto
<1>16. CASE ExpireRefused(w)
  BY <1>16 DEF ExpireRefused, Stop
<1>17. CASE ExpireSet(w)
  BY <1>17 DEF ExpireSet, SetStatus, Goto
<1>18. CASE ExpireLog(w)
  BY <1>18 DEF ExpireLog, Record, Stop
<1>19. CASE Crash(w)
  BY <1>19 DEF Crash, Stop
<1>. HIDE DEF SendTypeInv, SendInv, ApprovalInv, AuditInv
<1>. QED
  BY <1>1, <1>2, <1>3, <1>4, <1>5, <1>6, <1>7, <1>8, <1>9, <1>10, <1>11, <1>12,
     <1>13, <1>14, <1>15, <1>16, <1>17, <1>18, <1>19 DEF Advance

\* The callers inside the sender can be counted.
LEMMA Counted ==
    ASSUME SendTypeInv, NEW p \in Ids
    PROVE  /\ IsFiniteSet(InSender(p)) /\ Cardinality(InSender(p)) \in Nat
           /\ wire[p] \in Nat /\ ledger[p]["send_attempted"] \in Nat
<1>1. InSender(p) \in SUBSET Workers
  BY DEF InSender
<1>2. IsFiniteSet(InSender(p))
  BY <1>1, SendAssumption, FS_Subset
<1>. QED
  BY <1>2, FS_CardinalityType DEF SendTypeInv, SendTypeOK, Events

\* A step that neither makes a request nor lets a caller into the sender keeps
\* the audit invariant.
LEMMA AuditKept ==
    ASSUME SendTypeInv, AuditInv,
           \A p \in Ids :
               /\ InSender(p)' \subseteq InSender(p) /\ wire'[p] = wire[p]
               /\ ledger'[p]["send_attempted"] = ledger[p]["send_attempted"]
    PROVE  AuditInv'
<1>. SUFFICES ASSUME NEW p \in Ids
              PROVE  (wire[p] + Cardinality(InSender(p)) <= ledger[p]["send_attempted"])'
  BY DEF AuditInv
<1>1. InSender(p)' \in SUBSET InSender(p)
  OBVIOUS
<1>2. Cardinality(InSender(p)') <= Cardinality(InSender(p)) /\ IsFiniteSet(InSender(p)')
  BY <1>1, Counted, FS_Subset
<1>3. Cardinality(InSender(p)') \in Nat
  BY <1>2, FS_CardinalityType
<1>. QED
  BY <1>2, <1>3, Counted DEF AuditInv

\* Every step of a caller keeps a SEND_ATTEMPTED row for each request.
LEMMA AuditStep ==
    ASSUME SendTypeInv, AuditInv, NEW C \in SUBSET Ids, SendNext(C)
    PROVE  AuditInv'
<1>. USE SendAssumption, StoreAssumption
     DEF SendTypeInv, Locals, StoreTypeOK, SendTypeOK, Steps, Dispatching,
         Events, Actor, ProposalStatus, Terminal, storeVars
<1>1. PICK w \in Workers :
        \/ \E p \in C, entry \in {"confirm_check", "expire_check"} : Call(w, p, entry)
        \/ Advance(w)
        \/ Crash(w)
  BY DEF SendNext
<1>2. ASSUME NEW q \in C, NEW entry \in {"confirm_check", "expire_check"}, Call(w, q, entry)
      PROVE  AuditInv'
  <2>1. ASSUME NEW p \in Ids
        PROVE  /\ InSender(p)' \subseteq InSender(p) /\ wire'[p] = wire[p]
               /\ ledger'[p]["send_attempted"] = ledger[p]["send_attempted"]
    BY <1>2 DEF Call, Goto, InSender
  <2>. QED
    BY <2>1, AuditKept
<1>3. ASSUME NEW a \in Actor, NEW r \in {"yes", "no", "unknown"}, ConfirmCheck(w, a, r)
      PROVE  AuditInv'
  <2>1. ASSUME NEW p \in Ids
        PROVE  /\ InSender(p)' \subseteq InSender(p) /\ wire'[p] = wire[p]
               /\ ledger'[p]["send_attempted"] = ledger[p]["send_attempted"]
    BY <1>3 DEF ConfirmCheck, NoneInBetween, Approvable, Goto, InSender
  <2>. QED
    BY <2>1, AuditKept
<1>4. ASSUME NEW a \in Actor, NEW r \in {"yes", "no", "unknown"}, ConfirmRefused(w, a, r)
      PROVE  AuditInv'
  <2>1. ASSUME NEW p \in Ids
        PROVE  /\ InSender(p)' \subseteq InSender(p) /\ wire'[p] = wire[p]
               /\ ledger'[p]["send_attempted"] = ledger[p]["send_attempted"]
    BY <1>4 DEF ConfirmRefused, Stop, InSender
  <2>. QED
    BY <2>1, AuditKept
<1>5. CASE ConfirmSet(w)
  <2>1. ASSUME NEW p \in Ids
        PROVE  /\ InSender(p)' \subseteq InSender(p) /\ wire'[p] = wire[p]
               /\ ledger'[p]["send_attempted"] = ledger[p]["send_attempted"]
    BY <1>5 DEF ConfirmSet, SetStatus, Goto, InSender
  <2>. QED
    BY <2>1, AuditKept
<1>6. CASE ConfirmLog(w)
  <2>1. ASSUME NEW p \in Ids
        PROVE  /\ InSender(p)' \subseteq InSender(p) /\ wire'[p] = wire[p]
               /\ ledger'[p]["send_attempted"] = ledger[p]["send_attempted"]
    BY <1>6 DEF ConfirmLog, Record, Goto, InSender
  <2>. QED
    BY <2>1, AuditKept
<1>7. CASE DispatchCheck(w)
  <2>1. ASSUME NEW p \in Ids
        PROVE  /\ InSender(p)' \subseteq InSender(p) /\ wire'[p] = wire[p]
               /\ ledger'[p]["send_attempted"] = ledger[p]["send_attempted"]
    BY <1>7 DEF DispatchCheck, Goto, InSender
  <2>. QED
    BY <2>1, AuditKept
<1>8. CASE DispatchRefused(w)
  <2>1. ASSUME NEW p \in Ids
        PROVE  /\ InSender(p)' \subseteq InSender(p) /\ wire'[p] = wire[p]
               /\ ledger'[p]["send_attempted"] = ledger[p]["send_attempted"]
    BY <1>8 DEF DispatchRefused, Stop, InSender
  <2>. QED
    BY <2>1, AuditKept
<1>9. CASE AttemptLog(w)
  <2>1. ASSUME NEW p \in Ids, target[w] # p
        PROVE  InSender(p)' = InSender(p) /\ wire'[p] = wire[p]
               /\ ledger'[p]["send_attempted"] = ledger[p]["send_attempted"]
    BY <1>9, <2>1 DEF AttemptLog, Record, Goto, InSender
  <2>2. ASSUME NEW p \in Ids, target[w] = p
        PROVE  /\ InSender(p)' = InSender(p) \cup {w} /\ w \notin InSender(p)
               /\ wire'[p] = wire[p]
               /\ ledger'[p]["send_attempted"] = ledger[p]["send_attempted"] + 1
    BY <1>9, <2>2 DEF AttemptLog, Record, Goto, InSender
  <2>3. ASSUME NEW p \in Ids, target[w] = p
        PROVE  Cardinality(InSender(p)') = Cardinality(InSender(p)) + 1
    <3>1. Cardinality(InSender(p) \cup {w}) = Cardinality(InSender(p)) + 1
      BY <2>2, <2>3, Counted, FS_AddElement
    <3>. QED
      BY <2>2, <2>3, <3>1
  <2>4. ASSUME NEW p \in Ids
        PROVE  (wire[p] + Cardinality(InSender(p)) <= ledger[p]["send_attempted"])'
    BY <2>1, <2>2, <2>3, Counted DEF AuditInv
  <2>. QED
    BY <2>4 DEF AuditInv
<1>10. ASSUME NEW taken \in BOOLEAN, Post(w, taken)
      PROVE  AuditInv'
  <2>1. ASSUME NEW p \in Ids, target[w] # p
        PROVE  InSender(p)' = InSender(p) /\ wire'[p] = wire[p]
    BY <1>10, <2>1 DEF Post, Goto, InSender
  <2>2. ASSUME NEW p \in Ids, target[w] = p
        PROVE  /\ InSender(p)' = InSender(p) \ {w} /\ w \in InSender(p)
               /\ wire'[p] = wire[p] + 1
    BY <1>10, <2>2 DEF Post, Goto, InSender
  <2>3. ledger' = ledger
    BY <1>10 DEF Post
  <2>4. ASSUME NEW p \in Ids, target[w] = p
        PROVE  Cardinality(InSender(p)') = Cardinality(InSender(p)) - 1
    <3>1. IsFiniteSet(InSender(p))
      BY Counted
    <3>2. Cardinality(InSender(p) \ {w}) = Cardinality(InSender(p)) - 1
      <4>1. w \in InSender(p)
        BY <2>2, <2>4
      <4>. HIDE DEF InSender
      <4>. QED
        BY <3>1, <4>1, FS_RemoveElement
    <3>. QED
      BY <2>2, <2>4, <3>2
  <2>5. ASSUME NEW p \in Ids
        PROVE  (wire[p] + Cardinality(InSender(p)) <= ledger[p]["send_attempted"])'
    BY <2>1, <2>2, <2>3, <2>4, Counted DEF AuditInv
  <2>. QED
    BY <2>5 DEF AuditInv
<1>11. ASSUME NEW s \in Terminal, SenderStops(w, s)
      PROVE  AuditInv'
  <2>1. ASSUME NEW p \in Ids
        PROVE  /\ InSender(p)' \subseteq InSender(p) /\ wire'[p] = wire[p]
               /\ ledger'[p]["send_attempted"] = ledger[p]["send_attempted"]
    BY <1>11 DEF SenderStops, Goto, InSender
  <2>. QED
    BY <2>1, AuditKept
<1>12. ASSUME NEW s \in Terminal, Respond(w, s)
      PROVE  AuditInv'
  <2>1. ASSUME NEW p \in Ids
        PROVE  /\ InSender(p)' \subseteq InSender(p) /\ wire'[p] = wire[p]
               /\ ledger'[p]["send_attempted"] = ledger[p]["send_attempted"]
    BY <1>12 DEF Respond, Classified, Goto, InSender
  <2>. QED
    BY <2>1, AuditKept
<1>13. CASE Settle(w)
  <2>1. ASSUME NEW p \in Ids
        PROVE  /\ InSender(p)' \subseteq InSender(p) /\ wire'[p] = wire[p]
               /\ ledger'[p]["send_attempted"] = ledger[p]["send_attempted"]
    BY <1>13 DEF Settle, SetStatus, Goto, InSender
  <2>. QED
    BY <2>1, AuditKept
<1>14. CASE SettleLog(w)
  <2>1. ASSUME NEW p \in Ids
        PROVE  /\ InSender(p)' \subseteq InSender(p) /\ wire'[p] = wire[p]
               /\ ledger'[p]["send_attempted"] = ledger[p]["send_attempted"]
    BY <1>14 DEF SettleLog, Record, Stop, InSender
  <2>. QED
    BY <2>1, AuditKept
<1>15. CASE ExpireCheck(w)
  <2>1. ASSUME NEW p \in Ids
        PROVE  /\ InSender(p)' \subseteq InSender(p) /\ wire'[p] = wire[p]
               /\ ledger'[p]["send_attempted"] = ledger[p]["send_attempted"]
    BY <1>15 DEF ExpireCheck, NoneInBetween, Overdue, Goto, InSender
  <2>. QED
    BY <2>1, AuditKept
<1>16. CASE ExpireRefused(w)
  <2>1. ASSUME NEW p \in Ids
        PROVE  /\ InSender(p)' \subseteq InSender(p) /\ wire'[p] = wire[p]
               /\ ledger'[p]["send_attempted"] = ledger[p]["send_attempted"]
    BY <1>16 DEF ExpireRefused, Stop, InSender
  <2>. QED
    BY <2>1, AuditKept
<1>17. CASE ExpireSet(w)
  <2>1. ASSUME NEW p \in Ids
        PROVE  /\ InSender(p)' \subseteq InSender(p) /\ wire'[p] = wire[p]
               /\ ledger'[p]["send_attempted"] = ledger[p]["send_attempted"]
    BY <1>17 DEF ExpireSet, SetStatus, Goto, InSender
  <2>. QED
    BY <2>1, AuditKept
<1>18. CASE ExpireLog(w)
  <2>1. ASSUME NEW p \in Ids
        PROVE  /\ InSender(p)' \subseteq InSender(p) /\ wire'[p] = wire[p]
               /\ ledger'[p]["send_attempted"] = ledger[p]["send_attempted"]
    BY <1>18 DEF ExpireLog, Record, Stop, InSender
  <2>. QED
    BY <2>1, AuditKept
<1>19. CASE Crash(w)
  <2>1. ASSUME NEW p \in Ids
        PROVE  /\ InSender(p)' \subseteq InSender(p) /\ wire'[p] = wire[p]
               /\ ledger'[p]["send_attempted"] = ledger[p]["send_attempted"]
    BY <1>19 DEF Crash, Stop, InSender
  <2>. QED
    BY <2>1, AuditKept
<1>. HIDE DEF SendTypeInv, SendInv, ApprovalInv, AuditInv
<1>. QED
  BY <1>1, <1>2, <1>3, <1>4, <1>5, <1>6, <1>7, <1>8, <1>9, <1>10, <1>11, <1>12,
     <1>13, <1>14, <1>15, <1>16, <1>17, <1>18, <1>19 DEF Advance

-----------------------------------------------------------------------------
LEMMA TickStep ==
    ASSUME SendTypeInv, Tick, UNCHANGED sendVars
    PROVE  SendTypeInv' /\ (SendInv => SendInv') /\ (ApprovalInv => ApprovalInv')
<1>1. clock' \in Nat
  BY DEF Tick, SendTypeInv, StoreTypeOK
<1>. QED
  BY <1>1 DEF Tick, sendVars, SendTypeInv, StoreTypeOK, SendTypeOK, Locals, SendInv,
     Exclusive, Past, Holding, Faithful, ApprovalInv, Approved

LEMMA TickAudit ==
    ASSUME SendTypeInv, AuditInv, UNCHANGED sendVars
    PROVE  AuditInv'
BY DEF sendVars, AuditInv, InSender

LEMMA AuditStart ==
    ASSUME SendInit
    PROVE  AuditInv
<1>1. \A p \in Ids : InSender(p) = {}
  BY DEF SendInit, InSender
<1>2. \A p \in Ids : wire[p] = 0 /\ ledger[p]["send_attempted"] = 0
  BY DEF SendInit, Events
<1>. SUFFICES ASSUME NEW p \in Ids
              PROVE  wire[p] + Cardinality(InSender(p)) <= ledger[p]["send_attempted"]
  BY DEF AuditInv
<1>3. Cardinality(InSender(p)) = 0
  <2>1. Cardinality({}) = 0
    BY FS_EmptySet
  <2>. QED
    BY <1>1, <2>1
<1>. QED
  BY <1>2, <1>3

\* Who is entitled and audited step by step was entitled and audited in all.
LEMMA ApprovedAndAudited ==
    ASSUME SendTypeInv, ApprovalInv, AuditInv
    PROVE  SendsAreApprovedAndAudited
<1>. SUFFICES ASSUME NEW p \in Ids, wire[p] > 0
              PROVE  wire[p] <= ledger[p]["send_attempted"] /\ Approved(p)
  BY DEF SendsAreApprovedAndAudited, Approved
<1>. QED
  BY Counted DEF AuditInv, ApprovalInv

LEMMA InitInv ==
    ASSUME Init
    PROVE  SendTypeInv /\ SendInv /\ ApprovalInv /\ AuditInv
<1>. USE StoreAssumption DEF Init, SendInit
<1>1. SendTypeInv
  BY DEF SendTypeInv, Locals, StoreTypeOK, SendTypeOK, Steps, Dispatching, Events,
     Actor, ProposalStatus, Terminal
<1>2. SendInv
  BY DEF SendInv, Exclusive, Past, Faithful, Terminal, Events, Actor
<1>3. ApprovalInv
  BY DEF ApprovalInv, Dispatching
<1>4. AuditInv
  BY AuditStart
<1>. QED
  BY <1>1, <1>2, <1>3, <1>4

\* The type invariant, with the locals each step needs, is inductive.
LEMMA TypeInvariant == Spec => []SendTypeInv
<1>1. Init => SendTypeInv
  BY InitInv
<1>2. SendTypeInv /\ [Next]_vars => SendTypeInv'
  <2>. SUFFICES ASSUME SendTypeInv, [Next]_vars PROVE SendTypeInv'
    OBVIOUS
  <2>1. CASE SendNext(Ids)
    BY <2>1, SendTypeStep
  <2>2. CASE Tick /\ UNCHANGED sendVars
    BY <2>2, TickStep
  <2>3. CASE UNCHANGED vars
    BY <2>3 DEF vars, storeVars, sendVars, SendTypeInv, StoreTypeOK, SendTypeOK, Locals
  <2>. QED
    BY <2>1, <2>2, <2>3 DEF Next
<1>. QED
  BY <1>1, <1>2, PTL DEF Spec

\* Statuses, audit rows and the callers' locals stay in their closed sets along
\* every behaviour of the send path, overlapping or not.
THEOREM TypeCorrect == Spec => []TypeOK
<1>1. SendTypeInv => TypeOK
  BY DEF SendTypeInv, TypeOK
<1>. QED
  BY <1>1, TypeInvariant, PTL

\* For every set of callers, overlapping and crashing in any way, no request
\* reaches Gmail without an entitled approval and its own audit row (gate 7).
THEOREM SendsAudited == Spec => []SendsAreApprovedAndAudited
<1>1. Init => ApprovalInv /\ AuditInv
  BY InitInv
<1>2. SendTypeInv /\ ApprovalInv /\ AuditInv /\ [Next]_vars => ApprovalInv' /\ AuditInv'
  <2>. SUFFICES ASSUME SendTypeInv, ApprovalInv, AuditInv, [Next]_vars
                PROVE  ApprovalInv' /\ AuditInv'
    OBVIOUS
  <2>1. CASE SendNext(Ids)
    BY <2>1, ApprovalStep, AuditStep
  <2>2. CASE Tick /\ UNCHANGED sendVars
    BY <2>2, TickStep, TickAudit
  <2>3. CASE UNCHANGED vars
    <3>1. UNCHANGED sendVars
      BY <2>3 DEF vars
    <3>. QED
      BY <3>1, TickAudit DEF sendVars, ApprovalInv, Approved
  <2>. QED
    BY <2>1, <2>2, <2>3 DEF Next
<1>3. SendTypeInv /\ ApprovalInv /\ AuditInv => SendsAreApprovedAndAudited
  BY ApprovedAndAudited
<1>. QED
  BY <1>1, <1>2, <1>3, TypeInvariant, PTL DEF Spec

LEMMA SendInvariant ==
    ASSUME ~Overlap
    PROVE  Spec => []SendInv
<1>1. Init => SendInv
  BY InitInv
<1>2. SendTypeInv /\ SendInv /\ [Next]_vars => SendInv'
  <2>. SUFFICES ASSUME SendTypeInv, SendInv, [Next]_vars PROVE SendInv'
    OBVIOUS
  <2>1. CASE SendNext(Ids)
    BY <2>1, SendInvStep
  <2>2. CASE Tick /\ UNCHANGED sendVars
    BY <2>2, TickStep
  <2>3. CASE UNCHANGED vars
    BY <2>3 DEF vars, storeVars, sendVars, SendInv, Exclusive, Past, Holding, Faithful
  <2>. QED
    BY <2>1, <2>2, <2>3 DEF Next
<1>. QED
  BY <1>1, <1>2, TypeInvariant, PTL DEF Spec

\* As long as no two callers of a proposal are between a check and its write, it
\* makes at most one request to Gmail, crashes and repeated calls included: the
\* check of confirm alone carries "never a second send"
\* (gateway/send_path.py:160-163).
THEOREM NeverASecondSend ==
    ASSUME ~Overlap
    PROVE  Spec => []AtMostOneSend
<1>1. SendInv => AtMostOneSend
  BY DEF SendInv, Faithful, AtMostOneSend
<1>. QED
  BY <1>1, SendInvariant, PTL

\* Under the same assumption a stored outcome is what really happened.
THEOREM TrueOutcomes ==
    ASSUME ~Overlap
    PROVE  Spec => []OutcomesAreTrue
<1>1. SendInv => OutcomesAreTrue
  BY DEF SendInv, Faithful, OutcomesAreTrue
<1>. QED
  BY <1>1, SendInvariant, PTL

\* Under the same assumption the ledger never claims more than the store.
THEOREM LedgerInStep ==
    ASSUME ~Overlap
    PROVE  Spec => []LedgerAgrees
<1>1. SendInv => LedgerAgrees
  BY DEF SendInv, Faithful, LedgerAgrees
<1>. QED
  BY <1>1, SendInvariant, PTL

-----------------------------------------------------------------------------
Final == \A p \in Ids : status[p] \in Terminal => status'[p] = status[p]

\* No step of a caller changes the status of a settled proposal.
LEMMA SettledStep ==
    ASSUME SendTypeInv, SendInv, NEW C \in SUBSET Ids, SendNext(C)
    PROVE  Final
<1>. USE SendAssumption, StoreAssumption
     DEF SendTypeInv, Locals, StoreTypeOK, SendTypeOK, Steps, Dispatching,
         Events, Actor, ProposalStatus, Terminal, storeVars
<1>. USE DEF Final, SendInv, Exclusive, Past, Holding
<1>1. PICK w \in Workers :
        \/ \E p \in C, entry \in {"confirm_check", "expire_check"} : Call(w, p, entry)
        \/ Advance(w)
        \/ Crash(w)
  BY DEF SendNext
<1>2. ASSUME NEW p \in C, NEW entry \in {"confirm_check", "expire_check"}, Call(w, p, entry)
      PROVE  Final
  BY <1>2 DEF Call, Goto
<1>3. ASSUME NEW a \in Actor, NEW r \in {"yes", "no", "unknown"}, ConfirmCheck(w, a, r)
      PROVE  Final
  BY <1>3 DEF ConfirmCheck, NoneInBetween, Approvable, Goto
<1>4. ASSUME NEW a \in Actor, NEW r \in {"yes", "no", "unknown"}, ConfirmRefused(w, a, r)
      PROVE  Final
  BY <1>4 DEF ConfirmRefused, Stop
<1>5. CASE ConfirmSet(w)
  BY <1>5 DEF ConfirmSet, SetStatus, Goto
<1>6. CASE ConfirmLog(w)
  BY <1>6 DEF ConfirmLog, Record, Goto
<1>7. CASE DispatchCheck(w)
  BY <1>7 DEF DispatchCheck, Goto
<1>8. CASE DispatchRefused(w)
  BY <1>8 DEF DispatchRefused, Stop
<1>9. CASE AttemptLog(w)
  BY <1>9 DEF AttemptLog, Record, Goto
<1>10. ASSUME NEW taken \in BOOLEAN, Post(w, taken)
      PROVE  Final
  BY <1>10 DEF Post, Goto
<1>11. ASSUME NEW s \in Terminal, SenderStops(w, s)
      PROVE  Final
  BY <1>11 DEF SenderStops, Goto
<1>12. ASSUME NEW s \in Terminal, Respond(w, s)
      PROVE  Final
  BY <1>12 DEF Respond, Classified, Goto
<1>13. CASE Settle(w)
  BY <1>13 DEF Settle, SetStatus, Goto
<1>14. CASE SettleLog(w)
  BY <1>14 DEF SettleLog, Record, Stop
<1>15. CASE ExpireCheck(w)
  BY <1>15 DEF ExpireCheck, NoneInBetween, Overdue, Goto
<1>16. CASE ExpireRefused(w)
  BY <1>16 DEF ExpireRefused, Stop
<1>17. CASE ExpireSet(w)
  BY <1>17 DEF ExpireSet, SetStatus, Goto
<1>18. CASE ExpireLog(w)
  BY <1>18 DEF ExpireLog, Record, Stop
<1>19. CASE Crash(w)
  BY <1>19 DEF Crash, Stop
<1>. HIDE DEF SendTypeInv, SendInv, Final
<1>. QED
  BY <1>1, <1>2, <1>3, <1>4, <1>5, <1>6, <1>7, <1>8, <1>9, <1>10, <1>11, <1>12,
     <1>13, <1>14, <1>15, <1>16, <1>17, <1>18, <1>19 DEF Advance

\* Under the same assumption a settled proposal keeps its outcome for good:
\* nothing in fsm.py leads out of a terminal status (gate 8 is the case of
\* OUTCOME_UNKNOWN).
THEOREM TerminalIsFinal ==
    ASSUME ~Overlap
    PROVE  Spec => SettledForGood
<1>1. SendTypeInv /\ SendInv /\ [Next]_vars => [Final]_vars
  <2>. SUFFICES ASSUME SendTypeInv, SendInv, Next PROVE Final
    OBVIOUS
  <2>1. CASE SendNext(Ids)
    BY <2>1, SettledStep
  <2>2. CASE Tick
    BY <2>2 DEF Tick, Final
  <2>. QED
    BY <2>1, <2>2 DEF Next
<1>2. Spec => [][Final]_vars
  BY <1>1, TypeInvariant, SendInvariant, PTL DEF Spec
<1>. QED
  BY <1>2 DEF SettledForGood, Final

-----------------------------------------------------------------------------
\* Whoever is about to report SENT has seen Gmail take the message.
SentInv ==
    /\ \A w \in Workers :
        \/ pc[w] = "await" /\ result[w] = "taken"
        \/ pc[w] = "settle" /\ result[w] = "sent"
        => delivered[target[w]] > 0
    /\ SentIsTrue

\* Every step of a caller keeps SENT truthful, overlapping or not.
LEMMA SentStep ==
    ASSUME SendTypeInv, SentInv, NEW C \in SUBSET Ids, SendNext(C)
    PROVE  SentInv'
<1>. USE SendAssumption, StoreAssumption
     DEF SendTypeInv, Locals, StoreTypeOK, SendTypeOK, Steps, Dispatching,
         Events, Actor, ProposalStatus, Terminal, storeVars
<1>. USE DEF SentInv, SentIsTrue
<1>1. PICK w \in Workers :
        \/ \E p \in C, entry \in {"confirm_check", "expire_check"} : Call(w, p, entry)
        \/ Advance(w)
        \/ Crash(w)
  BY DEF SendNext
<1>2. ASSUME NEW p \in C, NEW entry \in {"confirm_check", "expire_check"}, Call(w, p, entry)
      PROVE  SentInv'
  BY <1>2 DEF Call, Goto
<1>3. ASSUME NEW a \in Actor, NEW r \in {"yes", "no", "unknown"}, ConfirmCheck(w, a, r)
      PROVE  SentInv'
  BY <1>3 DEF ConfirmCheck, NoneInBetween, Approvable, Goto
<1>4. ASSUME NEW a \in Actor, NEW r \in {"yes", "no", "unknown"}, ConfirmRefused(w, a, r)
      PROVE  SentInv'
  BY <1>4 DEF ConfirmRefused, Stop
<1>5. CASE ConfirmSet(w)
  BY <1>5 DEF ConfirmSet, SetStatus, Goto
<1>6. CASE ConfirmLog(w)
  BY <1>6 DEF ConfirmLog, Record, Goto
<1>7. CASE DispatchCheck(w)
  BY <1>7 DEF DispatchCheck, Goto
<1>8. CASE DispatchRefused(w)
  BY <1>8 DEF DispatchRefused, Stop
<1>9. CASE AttemptLog(w)
  BY <1>9 DEF AttemptLog, Record, Goto
<1>10. ASSUME NEW taken \in BOOLEAN, Post(w, taken)
      PROVE  SentInv'
  BY <1>10 DEF Post, Goto
<1>11. ASSUME NEW s \in Terminal, SenderStops(w, s)
      PROVE  SentInv'
  BY <1>11 DEF SenderStops, Goto
<1>12. ASSUME NEW s \in Terminal, Respond(w, s)
      PROVE  SentInv'
  <2>1. s = "sent" => delivered[target[w]] > 0
    <3>1. pc[w] = "await" /\ s \in Classified(w)
      BY <1>12 DEF Respond, Goto
    <3>2. s = "sent" => result[w] = "taken"
      BY <3>1 DEF Classified
    <3>. QED
      BY <3>1, <3>2
  <2>2. /\ pc' = [pc EXCEPT ![w] = "settle"]
        /\ result' = [result EXCEPT ![w] = s]
        /\ UNCHANGED <<status, target, delivered>>
    BY <1>12 DEF Respond, Goto
  <2>3. SentIsTrue'
    BY <2>2
  <2>4. ASSUME NEW v \in Workers, v # w
        PROVE  pc'[v] = pc[v] /\ result'[v] = result[v]
    BY <2>2, <2>4
  <2>5. pc'[w] = "settle" /\ result'[w] = s
    BY <2>2
  <2>. QED
    BY <2>1, <2>2, <2>3, <2>4, <2>5
<1>13. CASE Settle(w)
  BY <1>13 DEF Settle, SetStatus, Goto
<1>14. CASE SettleLog(w)
  BY <1>14 DEF SettleLog, Record, Stop
<1>15. CASE ExpireCheck(w)
  BY <1>15 DEF ExpireCheck, NoneInBetween, Overdue, Goto
<1>16. CASE ExpireRefused(w)
  BY <1>16 DEF ExpireRefused, Stop
<1>17. CASE ExpireSet(w)
  BY <1>17 DEF ExpireSet, SetStatus, Goto
<1>18. CASE ExpireLog(w)
  BY <1>18 DEF ExpireLog, Record, Stop
<1>19. CASE Crash(w)
  BY <1>19 DEF Crash, Stop
<1>. HIDE DEF SendTypeInv, SentInv, SentIsTrue
<1>. QED
  BY <1>1, <1>2, <1>3, <1>4, <1>5, <1>6, <1>7, <1>8, <1>9, <1>10, <1>11, <1>12,
     <1>13, <1>14, <1>15, <1>16, <1>17, <1>18, <1>19 DEF Advance

\* Even when callers overlap and overwrite each other, SENT is never stored
\* for a message Gmail did not take.
THEOREM SentMeansTaken == Spec => []SentIsTrue
<1>1. Init => SentInv
  BY DEF Init, SendInit, SentInv, SentIsTrue
<1>2. SendTypeInv /\ SentInv /\ [Next]_vars => SentInv'
  <2>. SUFFICES ASSUME SendTypeInv, SentInv, [Next]_vars PROVE SentInv'
    OBVIOUS
  <2>1. CASE SendNext(Ids)
    BY <2>1, SentStep
  <2>2. CASE Tick /\ UNCHANGED sendVars
    BY <2>2 DEF Tick, sendVars, SentInv, SentIsTrue
  <2>3. CASE UNCHANGED vars
    BY <2>3 DEF vars, storeVars, sendVars, SentInv, SentIsTrue
  <2>. QED
    BY <2>1, <2>2, <2>3 DEF Next
<1>3. SentInv => SentIsTrue
  BY DEF SentInv
<1>. QED
  BY <1>1, <1>2, <1>3, TypeInvariant, PTL DEF Spec
-----------------------------------------------------------------------------
\* Every step of a caller is one step of the abstract machine or, seen from
\* outside, no step at all: the writes of confirm, expire and dispatch's
\* settling branches change the standing, the sender's request is the mail.
LEMMA MailingStep ==
    ASSUME SendTypeInv, SendInv, NEW C \in SUBSET Ids, SendNext(C)
    PROVE  Mailing!Next \/ UNCHANGED Mailing!vars
<1>. USE DEF Mailing!vars
<1>1. PICK w \in Workers :
        \/ \E p \in C, entry \in {"confirm_check", "expire_check"} : Call(w, p, entry)
        \/ Advance(w)
        \/ Crash(w)
  BY DEF SendNext
<1>held. ASSUME pc[w] # "idle"
         PROVE  target[w] \in Ids /\ Holding(w, target[w]) /\ Faithful(target[w])
  BY <1>held DEF SendTypeInv, SendTypeOK, Locals, SendInv
<1>2. CASE ConfirmSet(w)
  <2>1. pc[w] = "confirm_set" /\ Mailing!Approve(target[w])
    BY <1>2, <1>held DEF ConfirmSet, Goto, SetStatus, Holding, Mailing!Approve, Mailing!Becomes
  <2>. QED
    BY <2>1, <1>held DEF Mailing!Next
<1>3. ASSUME NEW accepted \in BOOLEAN, Post(w, accepted)
      PROVE  Mailing!Next
  <2>1. pc[w] = "sender" /\ target[w] \in Ids
    BY <1>3, <1>held DEF Post, Goto
  <2>2. status[target[w]] = "confirmed" /\ wire[target[w]] = 0 /\ delivered[target[w]] = 0
    <3>1. wire[target[w]] \in Nat /\ delivered[target[w]] \in Nat
      BY <2>1 DEF SendTypeInv, SendTypeOK
    <3>. QED
      BY <2>1, <3>1, <1>held DEF Holding, Faithful
  <2>3. Mailing!Mail(target[w], accepted)
    BY <1>3, <2>1, <2>2 DEF Post, storeVars, Mailing!Mail, SendTypeInv, SendTypeOK
  <2>. QED
    BY <2>1, <2>3 DEF Mailing!Next
<1>4. CASE Settle(w)
  <2>1. pc[w] = "settle" /\ target[w] \in Ids /\ result[w] \in Terminal
    BY <1>4, <1>held DEF Settle, Goto, SendTypeInv, Locals
  <2>2. Mailing!IsTrue(target[w], result[w])
    <3>1. wire[target[w]] \in Nat /\ delivered[target[w]] \in Nat
      BY <2>1 DEF SendTypeInv, SendTypeOK
    <3>. QED
      BY <2>1, <3>1, <1>held DEF Holding, Faithful, Mailing!IsTrue
  <2>3. Mailing!Settle(target[w], result[w])
    BY <1>4, <2>1, <2>2, <1>held
       DEF Settle, SetStatus, Holding, Mailing!Settle, Mailing!Becomes
  <2>. QED
    BY <2>1, <2>3 DEF Mailing!Next, Terminal
<1>5. CASE ExpireSet(w)
  <2>1. pc[w] = "expire_set" /\ Mailing!Expire(target[w])
    BY <1>5, <1>held DEF ExpireSet, Goto, SetStatus, Holding, Mailing!Expire, Mailing!Becomes
  <2>. QED
    BY <2>1, <1>held DEF Mailing!Next
<1>6. CASE UNCHANGED <<status, wire, delivered>>
  BY <1>6
<1>7. ASSUME ~ConfirmSet(w), ~Settle(w), ~ExpireSet(w),
             \A taken \in BOOLEAN : ~Post(w, taken)
      PROVE  UNCHANGED <<status, wire, delivered>>
  BY <1>1, <1>7 DEF Call, Advance, ConfirmCheck, ConfirmRefused, ConfirmLog, DispatchCheck,
     DispatchRefused, AttemptLog, SenderStops, Respond, SettleLog, ExpireCheck,
     ExpireRefused, ExpireLog, Crash, storeVars
<1>. QED
  BY <1>2, <1>3, <1>4, <1>5, <1>6, <1>7

LEMMA MailingInit ==
    ASSUME status \in [Ids -> {"absent", "pending"}], SendInit
    PROVE  Mailing!Init
BY DEF SendInit, Mailing!Init

\* As long as no two callers are between a check and its write, confirm, expire
\* and dispatch with all their crashes and repetitions implement the machine
\* that approves, mails and settles a proposal once, in one step each.
THEOREM SendsRefine ==
    ASSUME ~Overlap
    PROVE  Spec => ImplementsOneMail
<1>1. Init => Mailing!Init
  BY MailingInit DEF Init
<1>2. SendTypeInv /\ SendInv /\ [Next]_vars => [Mailing!Next]_(Mailing!vars)
  <2>. SUFFICES ASSUME SendTypeInv, SendInv, [Next]_vars
                PROVE  [Mailing!Next]_(Mailing!vars)
    OBVIOUS
  <2>1. CASE SendNext(Ids)
    BY <2>1, MailingStep
  <2>2. CASE Tick /\ UNCHANGED sendVars
    BY <2>2 DEF Tick, sendVars, Mailing!vars
  <2>3. CASE UNCHANGED vars
    BY <2>3 DEF vars, storeVars, sendVars, Mailing!vars
  <2>. QED
    BY <2>1, <2>2, <2>3 DEF Next
<1>. QED
  BY <1>1, <1>2, TypeInvariant, SendInvariant, PTL DEF Spec, ImplementsOneMail, Mailing!Spec
=============================================================================
