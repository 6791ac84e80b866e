-------------------------- MODULE AuthzGateProofs --------------------------
(***************************************************************************)
(* Proofs about the authorization gate and about the authorized send       *)
(* behind it, for any number of calls, grants, heads, decisions and        *)
(* proposals.                                                              *)
(***************************************************************************)
EXTENDS AuthorizedSend, SendFSMProofs, SequenceTheorems

\* What a call knows at each of its steps.
CallOK(c) ==
    /\ gpc[c] \notin {"new", "denied"} => request[c] \in Request
    /\ gpc[c] \in {"hw_get", "hw_raise"} \cup Accepted => seen[c] \in DOMAIN heads
    /\ floor[c] <= hw
    /\ gpc[c] \in {"hw_raise"} \cup Accepted => seen[c] >= floor[c]
    /\ gpc[c] \in Accepted => seen[c] <= hw
    /\ gpc[c] \in {"burn"} \cup Burning => IsMember(c)
    /\ gpc[c] \in Burning => RequestKey(c) \in burned
    /\ gpc[c] \in {"spend", "record", "authorized"} =>
            verdict[c] \in Decision /\ Bound(c, verdict[c])
    /\ gpc[c] \in {"record", "authorized"} => verdict[c].id \in spent

\* What two calls can never share.
Apart(b, c) ==
    /\ gpc[b] \in Burning /\ gpc[c] \in Burning => RequestKey(b) # RequestKey(c)
    /\ gpc[b] \in {"record", "authorized"} /\ gpc[c] \in {"record", "authorized"} =>
            verdict[b].id # verdict[c].id

GInv ==
    /\ GateTypeOK
    /\ hw <= Len(heads)
    /\ \A c \in Calls : CallOK(c)
    /\ \A b, c \in Calls : b # c => Apart(b, c)

LEMMA GInit == GateInit => GInv
<1> SUFFICES ASSUME GateInit PROVE GInv
  OBVIOUS
<1>0. PICK a \in [Grants -> GrantVersions \cup {NoVersion}] :
           heads = <<[active |-> a, revoked |-> {}]>>
  BY DEF GateInit
<1>1. heads \in Seq(StateHead) /\ heads # <<>> /\ Len(heads) = 1
  BY <1>0 DEF StateHead
<1>3. GateTypeOK
  BY <1>1 DEF GateInit, GateTypeOK, GateSteps, Answered
<1>4. QED
  BY <1>1, <1>3 DEF GateInit, GInv, CallOK, Apart, Accepted, Burning

\* A denial changes nothing but the call's own locals.
LEMMA DenyKeeps ==
    ASSUME GInv, NEW c \in Calls, Deny(c) PROVE GInv'
<1>1. GateTypeOK'
  BY DEF GInv, GateTypeOK, Deny, GateSteps, Answered
<1>2. hw' <= Len(heads')
  BY DEF GInv, Deny
<1>3. ASSUME NEW b \in Calls PROVE CallOK(b)'
  BY <1>3 DEF GInv, CallOK, GateTypeOK, Deny, Accepted, Burning, IsMember, Bound, Disposition,
              IsAuto, RequestKey
<1>4. ASSUME NEW a \in Calls, NEW b \in Calls, a # b PROVE Apart(a, b)'
  BY <1>4 DEF GInv, Apart, GateTypeOK, Deny, Burning, RequestKey
<1>5. QED
  BY <1>1, <1>2, <1>3, <1>4 DEF GInv

LEMMA PublishKeeps ==
    ASSUME GInv, NEW x \in StateHead, heads' = Append(heads, x),
           UNCHANGED <<hw, burned, spent, gpc, localVars>>
    PROVE  GInv'
<1>1. /\ heads' \in Seq(StateHead) /\ heads' # <<>>
      /\ Len(heads') = Len(heads) + 1
      /\ \A v \in DOMAIN heads : v \in DOMAIN heads' /\ heads'[v] = heads[v]
  <2>1. heads \in Seq(StateHead)
    BY DEF GInv, GateTypeOK
  <2>2. /\ heads' \in Seq(StateHead)
        /\ Len(heads') = Len(heads) + 1
        /\ \A i \in 1 .. Len(heads) : heads'[i] = heads[i]
    BY <2>1, AppendProperties
  <2>3. QED
    BY <2>1, <2>2
<1>2. GateTypeOK'
  BY <1>1 DEF GInv, GateTypeOK, localVars
<1>3. hw' <= Len(heads')
  BY <1>1 DEF GInv, GateTypeOK
<1>4. ASSUME NEW b \in Calls PROVE CallOK(b)'
  BY <1>1, <1>4 DEF GInv, CallOK, GateTypeOK, Accepted, Burning, IsMember, Bound,
                    Disposition, IsAuto, RequestKey, localVars
<1>5. ASSUME NEW a \in Calls, NEW b \in Calls, a # b PROVE Apart(a, b)'
  BY <1>5 DEF GInv, Apart, GateTypeOK, Burning, RequestKey, localVars
<1>6. QED
  BY <1>2, <1>3, <1>4, <1>5 DEF GInv

LEMMA OperatorKeeps ==
    ASSUME GInv, Operator PROVE GInv'
<1>1. Current \in StateHead
  BY DEF GInv, GateTypeOK, Current
<1>2. ASSUME NEW g \in Grants, Revoke(g) PROVE GInv'
  BY <1>1, <1>2, PublishKeeps DEF Revoke, Publish, StateHead
<1>3. ASSUME NEW g \in Grants, NEW v \in GrantVersions, Supersede(g, v) PROVE GInv'
  BY <1>1, <1>3, PublishKeeps DEF Supersede, Publish, StateHead
<1>4. ASSUME NEW g \in Grants, NEW v \in GrantVersions, Grant(g, v) PROVE GInv'
  BY <1>1, <1>4, PublishKeeps DEF Grant, Publish, StateHead
<1>5. QED
  BY <1>2, <1>3, <1>4 DEF Operator

LEMMA EnterKeeps ==
    ASSUME GInv, NEW c \in Calls, NEW r \in Request, NEW d \in Digests, Enter(c, r, d) PROVE GInv'
<1>1. GateTypeOK'
  BY DEF GInv, GateTypeOK, Enter, At, GateSteps, Answered, localVars
<1>2. hw' <= Len(heads')
  BY DEF GInv, GateTypeOK, CallOK, Enter, At, localVars
<1>3. ASSUME NEW b \in Calls PROVE CallOK(b)'
  BY <1>3 DEF GInv, CallOK, GateTypeOK, Enter, At, Accepted, Burning, IsMember,
              Bound, Disposition, IsAuto, RequestKey, localVars
<1>4. ASSUME NEW a \in Calls, NEW b \in Calls, a # b PROVE Apart(a, b)'
  BY <1>4 DEF GInv, Apart, CallOK, GateTypeOK, Enter, At, Burning, RequestKey, localVars
<1>5. QED
  BY <1>1, <1>2, <1>3, <1>4 DEF GInv

LEMMA SyncKeeps ==
    ASSUME GInv, NEW c \in Calls, NEW v \in DOMAIN heads, NEW r \in SUBSET Revocations,
           Sync(c, v, r)
    PROVE  GInv'
<1>0. v \in Nat /\ r \in SUBSET Grants
  <2>1. heads \in Seq(StateHead)
    BY DEF GInv, GateTypeOK
  <2>2. ASSUME NEW g \in r PROVE g \in Grants
    <3>1. g \in UNION {heads[i].revoked : i \in DOMAIN heads}
      BY <2>2 DEF Revocations
    <3>2. PICK i \in DOMAIN heads : g \in heads[i].revoked
      BY <3>1
    <3>3. heads[i] \in StateHead
      BY <2>1, <3>2
    <3>4. QED
      BY <3>2, <3>3 DEF StateHead
  <2>3. v \in Nat
    BY <2>1
  <2>4. QED
    BY <2>2, <2>3
<1>1. GateTypeOK'
  BY <1>0 DEF GInv, GateTypeOK, Sync, At, GateSteps, Answered, localVars
<1>2. hw' <= Len(heads')
  BY DEF GInv, GateTypeOK, CallOK, Sync, At, localVars
<1>3. ASSUME NEW b \in Calls PROVE CallOK(b)'
  BY <1>0, <1>3 DEF GInv, CallOK, GateTypeOK, Sync, At, Accepted, Burning, IsMember,
              Bound, Disposition, IsAuto, RequestKey, localVars
<1>4. ASSUME NEW a \in Calls, NEW b \in Calls, a # b PROVE Apart(a, b)'
  BY <1>4 DEF GInv, Apart, CallOK, GateTypeOK, Sync, At, Burning, RequestKey, localVars
<1>5. QED
  BY <1>1, <1>2, <1>3, <1>4 DEF GInv

LEMMA CheckKeeps ==
    ASSUME GInv, NEW c \in Calls, CheckHighWater(c) PROVE GInv'
<1>1. GateTypeOK'
  BY DEF GInv, GateTypeOK, CheckHighWater, At, GateSteps, Answered, localVars
<1>2. hw' <= Len(heads')
  BY DEF GInv, GateTypeOK, CallOK, CheckHighWater, At, localVars
<1>3. ASSUME NEW b \in Calls PROVE CallOK(b)'
  BY <1>3 DEF GInv, CallOK, GateTypeOK, CheckHighWater, At, Accepted, Burning, IsMember,
              Bound, Disposition, IsAuto, RequestKey, localVars
<1>4. ASSUME NEW a \in Calls, NEW b \in Calls, a # b PROVE Apart(a, b)'
  BY <1>4 DEF GInv, Apart, CallOK, GateTypeOK, CheckHighWater, At, Burning, RequestKey, localVars
<1>5. QED
  BY <1>1, <1>2, <1>3, <1>4 DEF GInv

LEMMA RaiseKeeps ==
    ASSUME GInv, NEW c \in Calls, RaiseHighWater(c) PROVE GInv'
<1>1. GateTypeOK'
  BY DEF GInv, GateTypeOK, RaiseHighWater, At, GateSteps, Answered, localVars
<1>2. hw' <= Len(heads')
  BY DEF GInv, GateTypeOK, CallOK, RaiseHighWater, At, localVars
<1>3. ASSUME NEW b \in Calls PROVE CallOK(b)'
  BY <1>3 DEF GInv, CallOK, GateTypeOK, RaiseHighWater, At, Accepted, Burning, IsMember,
              Bound, Disposition, IsAuto, RequestKey, localVars
<1>4. ASSUME NEW a \in Calls, NEW b \in Calls, a # b PROVE Apart(a, b)'
  BY <1>4 DEF GInv, Apart, CallOK, GateTypeOK, RaiseHighWater, At, Burning, RequestKey, localVars
<1>5. QED
  BY <1>1, <1>2, <1>3, <1>4 DEF GInv

LEMMA LocalKeeps ==
    ASSUME GInv, NEW c \in Calls, LocalDecisions(c) PROVE GInv'
<1>1. GateTypeOK'
  BY DEF GInv, GateTypeOK, LocalDecisions, At, GateSteps, Answered, localVars
<1>2. hw' <= Len(heads')
  BY DEF GInv, GateTypeOK, CallOK, LocalDecisions, At, localVars
<1>3. ASSUME NEW b \in Calls PROVE CallOK(b)'
  BY <1>3 DEF GInv, CallOK, GateTypeOK, LocalDecisions, At, Accepted, Burning, IsMember,
              Bound, Disposition, IsAuto, RequestKey, localVars
<1>4. ASSUME NEW a \in Calls, NEW b \in Calls, a # b PROVE Apart(a, b)'
  BY <1>4 DEF GInv, Apart, CallOK, GateTypeOK, LocalDecisions, At, Burning, RequestKey, localVars
<1>5. QED
  BY <1>1, <1>2, <1>3, <1>4 DEF GInv

LEMMA BurnKeeps ==
    ASSUME GInv, NEW c \in Calls, BurnRequest(c) PROVE GInv'
<1>0. RequestKey(c) \in Grants \X RequestIds
  BY DEF GInv, CallOK, BurnRequest, At, RequestKey, Request
<1>1. GateTypeOK'
  BY <1>0 DEF GInv, GateTypeOK, BurnRequest, At, GateSteps, Answered, localVars
<1>2. hw' <= Len(heads')
  BY DEF GInv, GateTypeOK, CallOK, BurnRequest, At, localVars
<1>3. ASSUME NEW b \in Calls PROVE CallOK(b)'
  BY <1>0, <1>3 DEF GInv, CallOK, GateTypeOK, BurnRequest, At, Accepted, Burning, IsMember,
              Bound, Disposition, IsAuto, RequestKey, localVars
<1>4. ASSUME NEW a \in Calls, NEW b \in Calls, a # b PROVE Apart(a, b)'
  BY <1>4 DEF GInv, Apart, CallOK, GateTypeOK, BurnRequest, At, Burning, RequestKey, localVars
<1>5. QED
  BY <1>1, <1>2, <1>3, <1>4 DEF GInv

LEMMA DecideKeeps ==
    ASSUME GInv, NEW c \in Calls, Decide(c) PROVE GInv'
<1>0. PICK d \in Decision : Bound(c, d) /\ verdict' = [verdict EXCEPT ![c] = d]
  BY DEF Decide
<1>1. GateTypeOK'
  BY <1>0 DEF GInv, GateTypeOK, Decide, At, GateSteps, Answered, localVars
<1>2. hw' <= Len(heads')
  BY DEF GInv, GateTypeOK, CallOK, Decide, At, localVars
<1>3. ASSUME NEW b \in Calls PROVE CallOK(b)'
  BY <1>0, <1>3 DEF GInv, CallOK, GateTypeOK, Decide, At, Accepted, Burning, IsMember,
              Bound, Disposition, IsAuto, RequestKey, localVars
<1>4. ASSUME NEW a \in Calls, NEW b \in Calls, a # b PROVE Apart(a, b)'
  BY <1>4 DEF GInv, Apart, CallOK, GateTypeOK, Decide, At, Burning, RequestKey, localVars
<1>5. QED
  BY <1>1, <1>2, <1>3, <1>4 DEF GInv

LEMMA SpendKeeps ==
    ASSUME GInv, NEW c \in Calls, SpendDecision(c) PROVE GInv'
<1>0. verdict[c].id \in DecisionIds
  BY DEF GInv, CallOK, SpendDecision, At, Decision
<1>1. GateTypeOK'
  BY <1>0 DEF GInv, GateTypeOK, SpendDecision, At, GateSteps, Answered, localVars
<1>2. hw' <= Len(heads')
  BY DEF GInv, GateTypeOK, CallOK, SpendDecision, At, localVars
<1>3. ASSUME NEW b \in Calls PROVE CallOK(b)'
  BY <1>0, <1>3 DEF GInv, CallOK, GateTypeOK, SpendDecision, At, Accepted, Burning, IsMember,
              Bound, Disposition, IsAuto, RequestKey, localVars
<1>4. ASSUME NEW a \in Calls, NEW b \in Calls, a # b PROVE Apart(a, b)'
  BY <1>4 DEF GInv, Apart, CallOK, GateTypeOK, SpendDecision, At, Burning, RequestKey, localVars
<1>5. QED
  BY <1>1, <1>2, <1>3, <1>4 DEF GInv

LEMMA AuthorizeKeeps ==
    ASSUME GInv, NEW c \in Calls, Authorize(c) PROVE GInv'
<1>1. GateTypeOK'
  BY DEF GInv, GateTypeOK, Authorize, At, GateSteps, Answered, localVars
<1>2. hw' <= Len(heads')
  BY DEF GInv, GateTypeOK, CallOK, Authorize, At, localVars
<1>3. ASSUME NEW b \in Calls PROVE CallOK(b)'
  BY <1>3 DEF GInv, CallOK, GateTypeOK, Authorize, At, Accepted, Burning, IsMember,
              Bound, Disposition, IsAuto, RequestKey, localVars
<1>4. ASSUME NEW a \in Calls, NEW b \in Calls, a # b PROVE Apart(a, b)'
  BY <1>4 DEF GInv, Apart, CallOK, GateTypeOK, Authorize, At, Burning, RequestKey, localVars
<1>5. QED
  BY <1>1, <1>2, <1>3, <1>4 DEF GInv

LEMMA StepKeeps ==
    ASSUME GInv, NEW c \in Calls, GateStep(c) PROVE GInv'
<1>1. CASE \E v \in DOMAIN heads, r \in SUBSET Revocations : Sync(c, v, r)
  BY <1>1, SyncKeeps
<1>2. CASE Deny(c)
  BY <1>2, DenyKeeps
<1>3. CASE CheckHighWater(c) \/ RaiseHighWater(c) \/ LocalDecisions(c) \/ BurnRequest(c)
  BY <1>3, CheckKeeps, RaiseKeeps, LocalKeeps, BurnKeeps
<1>4. CASE Decide(c) \/ SpendDecision(c) \/ Authorize(c)
  BY <1>4, DecideKeeps, SpendKeeps, AuthorizeKeeps
<1>5. QED
  BY <1>1, <1>2, <1>3, <1>4
     DEF GateStep, SyncFails, VersionRegress, LocalDenial, RequestReplayed, DecideFails,
         DecisionReused, StateUnavailable

LEMMA StutterKeeps ==
    ASSUME GInv, UNCHANGED gateVars PROVE GInv'
<1>1. GateTypeOK'
  BY DEF GInv, GateTypeOK, gateVars, localVars
<1>2. ASSUME NEW b \in Calls PROVE CallOK(b)'
  BY <1>2 DEF GInv, CallOK, gateVars, localVars, IsMember, Bound, Disposition, IsAuto, RequestKey
<1>3. ASSUME NEW a \in Calls, NEW b \in Calls, a # b PROVE Apart(a, b)'
  BY <1>3 DEF GInv, Apart, gateVars, localVars, RequestKey
<1>4. QED
  BY <1>1, <1>2, <1>3 DEF GInv, gateVars

LEMMA GInductive == GInv /\ [GateNext]_gateVars => GInv'
<1> SUFFICES ASSUME GInv, [GateNext]_gateVars PROVE GInv'
  OBVIOUS
<1>1. CASE Operator
  BY <1>1, OperatorKeeps
<1>2. ASSUME NEW c \in Calls, NEW r \in Request, NEW d \in Digests, Enter(c, r, d)
      PROVE  GInv'
  BY <1>2, EnterKeeps
<1>3. ASSUME NEW c \in Calls, GateStep(c) PROVE GInv'
  BY <1>3, StepKeeps
<1>4. CASE UNCHANGED gateVars
  BY <1>4, StutterKeeps
<1>5. QED
  BY <1>1, <1>2, <1>3, <1>4 DEF GateNext

LEMMA GateInvariant == GateSpec => []GInv
<1>1. QED
  BY GInit, GInductive, PTL DEF GateSpec

\* The gate's state keeps its types: heads are only appended to, and each
\* consumer holds keys of its own keyspace.
THEOREM GateTypeCorrect == GateSpec => []GateTypeOK
<1>1. GInv => GateTypeOK
  BY DEF GInv
<1>2. QED
  BY <1>1, GateInvariant, PTL

\* No request and no decision authorizes twice: consume_once is atomic, the
\* request is burned before the cloud is asked, and the decision last, by whatever
\* id the cloud gave it.
THEOREM UsedOnce == GateSpec => []SingleUse
<1>1. GInv => SingleUse
  BY DEF GInv, Apart, SingleUse, Burning
<1>2. QED
  BY <1>1, GateInvariant, PTL

\* Replaying heads cannot undo what was accepted before a call began, although
\* the mark is read and raised in two calls.
THEOREM RollbackRefused == GateSpec => []NoRollback
<1>1. GInv => NoRollback
  BY DEF GInv, CallOK, NoRollback, IsMember, Accepted, Burning
<1>2. QED
  BY <1>1, GateInvariant, PTL

\* An authorization rests on a decision for this very request, payload and head.
THEOREM FittingDecision == GateSpec => []DecisionFits
<1>1. GInv => DecisionFits
  BY DEF GInv, CallOK, DecisionFits, IsMember, Accepted, Burning, Bound, Disposition, IsAuto
<1>2. QED
  BY <1>1, GateInvariant, PTL

\* The mark covers every head that was acted on, and no more than was signed.
THEOREM MarkCovers == GateSpec => []HighWaterCovers
<1>1. GInv => HighWaterCovers
  BY DEF GInv, CallOK, HighWaterCovers
<1>2. QED
  BY <1>1, GateInvariant, PTL

-----------------------------------------------------------------------------
(* The gate as one step. *)

\* What may become of the gate: the last is the end of a call that dies.
GateMove ==
    \/ Operator
    \/ \E c \in Calls :
          \/ \E r \in Request, d \in Digests : Enter(c, r, d)
          \/ GateStep(c)
          \/ gpc[c] \notin {"new"} \cup Answered /\ Deny(c)
    \/ UNCHANGED gateVars

\* A call on its way that stays on its way shows nothing.
LEMMA OnItsWay ==
    ASSUME GInv, NEW c \in Calls, NEW x \in GateSteps,
           gpc[c] \notin {"new"} \cup Answered, x \notin {"new"} \cup Answered,
           gpc' = [gpc EXCEPT ![c] = x],
           UNCHANGED <<request, expected, floor>>,
           \A b \in Calls \ {c} : verdict'[b] = verdict[b]
    PROVE  UNCHANGED <<SeenState, SeenAsk, SeenWarrant>>
<1>1. gpc'[c] = x /\ \A b \in Calls \ {c} : gpc'[b] = gpc[b]
  BY DEF GInv, GateTypeOK
<1>2. SeenState' = SeenState
  BY <1>1 DEF SeenState, Answered
<1>3. SeenAsk' = SeenAsk
  BY <1>1 DEF SeenAsk, Answered
<1>4. SeenWarrant' = SeenWarrant
  BY <1>1 DEF SeenWarrant, Answered
<1>. QED
  BY <1>2, <1>3, <1>4

LEMMA DenyIsSeen ==
    ASSUME GInv, NEW c \in Calls, gpc[c] \notin {"new"} \cup Answered, Deny(c)
    PROVE  Admitting!Deny(c)
<1>1. /\ gpc'[c] = "denied"
      /\ \A b \in Calls \ {c} : /\ gpc'[b] = gpc[b] /\ request'[b] = request[b]
                               /\ expected'[b] = expected[b] /\ floor'[b] = floor[b]
                               /\ verdict'[b] = verdict[b]
  BY DEF GInv, GateTypeOK, Deny
<1>2. SeenState[c] = "asked"
  BY DEF SeenState, Answered
<1>3. SeenState' = [SeenState EXCEPT ![c] = "denied"]
  BY <1>1 DEF SeenState
<1>4. SeenAsk' = [SeenAsk EXCEPT ![c] = None]
  BY <1>1 DEF SeenAsk
<1>5. SeenWarrant' = SeenWarrant
  BY <1>1 DEF SeenWarrant, Answered
<1>. QED
  BY <1>2, <1>3, <1>4, <1>5 DEF Admitting!Deny, Deny

LEMMA EnterIsSeen ==
    ASSUME GInv, NEW c \in Calls, NEW r \in Request, NEW d \in Digests, Enter(c, r, d)
    PROVE  Admitting!Ask(c)
<1>1. /\ gpc[c] = "new" /\ gpc'[c] = "sync"
      /\ request'[c] = r /\ expected'[c] = d /\ floor'[c] = hw
      /\ \A b \in Calls \ {c} : /\ gpc'[b] = gpc[b] /\ request'[b] = request[b]
                               /\ expected'[b] = expected[b] /\ floor'[b] = floor[b]
      /\ verdict' = verdict
  BY DEF GInv, GateTypeOK, Enter, At
<1>2. SeenState[c] = "new"
  BY <1>1 DEF SeenState
<1>3. SeenState' = [SeenState EXCEPT ![c] = "asked"]
  BY <1>1 DEF SeenState
<1>4. SeenAsk' = [SeenAsk EXCEPT ![c] = [request |-> r, digest |-> d, since |-> hw]]
  BY <1>1 DEF SeenAsk
<1>5. SeenWarrant' = SeenWarrant
  BY <1>1 DEF SeenWarrant
<1>. QED
  BY <1>2, <1>3, <1>4, <1>5 DEF Admitting!Ask, Enter

\* All that the call checked on its way still holds, or was frozen by what it
\* consumed, when it answers.
LEMMA AuthorizeIsSeen ==
    ASSUME GInv, NEW c \in Calls, Authorize(c)
    PROVE  Admitting!Admit(c)
<1>1. /\ gpc[c] = "record" /\ gpc'[c] = "authorized"
      /\ \A b \in Calls \ {c} : gpc'[b] = gpc[b]
      /\ UNCHANGED <<heads, hw, request, expected, floor, verdict>>
  BY DEF GInv, GateTypeOK, Authorize, At, localVars
<1>2. SeenState[c] = "asked" /\ SeenState' = [SeenState EXCEPT ![c] = "admitted"]
  BY <1>1 DEF SeenState
<1>3. /\ SeenAsk[c] = [request |-> request[c], digest |-> expected[c], since |-> floor[c]]
      /\ SeenAsk' = SeenAsk
  BY <1>1 DEF SeenAsk
<1>4. SeenWarrant' = [SeenWarrant EXCEPT ![c] = verdict[c]]
  BY <1>1 DEF SeenWarrant
<1>6. CallOK(c)
  BY DEF GInv
<1>5. verdict[c] \in Decision
  BY <1>1, <1>6 DEF CallOK
<1>7. Admitting!Fits(request[c], expected[c], verdict[c])
  BY <1>1, <1>6 DEF CallOK, Bound, Disposition, IsAuto, Admitting!Fits
<1>8. Admitting!Stands(request[c], floor[c], verdict[c].version)
  <2>1. /\ verdict[c].version = seen[c] /\ seen[c] >= floor[c] /\ seen[c] <= hw /\ IsMember(c)
    BY <1>1, <1>6 DEF CallOK, Bound, Disposition, IsAuto, Accepted, Burning
  <2>2. seen[c] \in Nat /\ floor[c] \in Nat /\ hw \in Nat
    BY DEF GInv, GateTypeOK
  <2>. QED
    BY <2>1, <2>2 DEF IsMember, Admitting!Stands
<1>9. Admitting!Unused(request[c], verdict[c])
  <2>. SUFFICES ASSUME NEW b \in Calls, SeenState[b] = "admitted"
                PROVE  /\ <<SeenAsk[b].request.grant, SeenAsk[b].request.rid>>
                             # <<request[c].grant, request[c].rid>>
                       /\ SeenWarrant[b].id # verdict[c].id
    BY DEF Admitting!Unused
  <2>1. gpc[b] = "authorized" /\ b # c
    BY <1>1 DEF SeenState, GInv, GateTypeOK
  <2>2. Apart(b, c)
    BY <2>1 DEF GInv
  <2>3. SeenAsk[b].request = request[b] /\ SeenWarrant[b] = verdict[b]
    BY <2>1 DEF SeenAsk, SeenWarrant
  <2>. QED
    BY <1>1, <2>1, <2>2, <2>3 DEF Apart, Burning, RequestKey
<1>10. /\ SeenAsk[c].request = request[c] /\ SeenAsk[c].digest = expected[c]
       /\ SeenAsk[c].since = floor[c]
  BY <1>3
<1>11. \E d \in Decision :
          /\ Admitting!Fits(SeenAsk[c].request, SeenAsk[c].digest, d)
          /\ Admitting!Stands(SeenAsk[c].request, SeenAsk[c].since, d.version)
          /\ Admitting!Unused(SeenAsk[c].request, d)
          /\ SeenWarrant' = [SeenWarrant EXCEPT ![c] = d]
  BY <1>4, <1>5, <1>7, <1>8, <1>9, <1>10
<1>. QED
  BY <1>1, <1>2, <1>3, <1>11 DEF Admitting!Admit

LEMMA StepIsSeen ==
    ASSUME GInv, NEW c \in Calls, GateStep(c)
    PROVE  [Admitting!Next]_(Admitting!vars)
<1>. DEFINE Seen == <<SeenState, SeenAsk, SeenWarrant>>
<1>1. ASSUME NEW v \in DOMAIN heads, NEW r \in SUBSET Revocations, Sync(c, v, r)
      PROVE  UNCHANGED <<heads, hw, Seen>>
  BY <1>1, OnItsWay DEF Sync, At, GateSteps, Answered
<1>2. CASE CheckHighWater(c) \/ LocalDecisions(c) \/ BurnRequest(c) \/ SpendDecision(c)
  <2>1. UNCHANGED <<heads, hw, localVars>>
    BY <1>2 DEF CheckHighWater, LocalDecisions, BurnRequest, SpendDecision
  <2>2. UNCHANGED Seen
    BY <1>2, <2>1, OnItsWay
       DEF CheckHighWater, LocalDecisions, BurnRequest, SpendDecision, At, GateSteps,
           Answered, localVars
  <2>. QED
    BY <2>1, <2>2 DEF Admitting!vars
<1>3. CASE RaiseHighWater(c)
  <2>1. UNCHANGED <<heads, Seen>>
    BY <1>3, OnItsWay DEF RaiseHighWater, At, GateSteps, Answered, localVars
  <2>2. seen[c] \in DOMAIN heads
    BY <1>3 DEF GInv, CallOK, RaiseHighWater, At
  <2>3. CASE seen[c] > hw
    BY <1>3, <2>1, <2>2, <2>3 DEF RaiseHighWater, Admitting!Accept, Admitting!Next
  <2>4. CASE ~(seen[c] > hw)
    BY <1>3, <2>1, <2>4 DEF RaiseHighWater, Admitting!vars
  <2>. QED
    BY <2>3, <2>4
<1>4. CASE Decide(c)
  <2>1. UNCHANGED <<heads, hw, Seen>>
    <3>1. \A b \in Calls \ {c} : verdict'[b] = verdict[b]
      BY <1>4 DEF Decide, GInv, GateTypeOK
    <3>. QED
      BY <1>4, <3>1, OnItsWay DEF Decide, At, GateSteps, Answered
  <2>. QED
    BY <1>4, <2>1 DEF Decide, Admitting!vars
<1>5. CASE Authorize(c)
  BY <1>5, AuthorizeIsSeen DEF Admitting!Next
<1>6. CASE gpc[c] \notin {"new"} \cup Answered /\ Deny(c)
  BY <1>6, DenyIsSeen DEF Admitting!Next
<1>7. CASE \E v \in DOMAIN heads, r \in SUBSET Revocations : Sync(c, v, r)
  BY <1>1, <1>7 DEF Admitting!vars
<1>. QED
  BY <1>2, <1>3, <1>4, <1>5, <1>6, <1>7
     DEF GateStep, SyncFails, VersionRegress, LocalDenial, RequestReplayed, DecideFails,
         DecisionReused, StateUnavailable, Answered

LEMMA AdmissionStep ==
    ASSUME GInv, GateMove
    PROVE  [Admitting!Next]_(Admitting!vars)
<1>1. CASE Operator
  <2>1. \E h \in StateHead : heads' = Append(heads, h)
    <3>1. Current \in StateHead
      BY DEF GInv, GateTypeOK, Current
    <3>. QED
      BY <1>1, <3>1 DEF Operator, Revoke, Supersede, Grant, Publish, StateHead
  <2>2. UNCHANGED <<hw, SeenState, SeenAsk, SeenWarrant>>
    BY <1>1 DEF Operator, Revoke, Supersede, Grant, Publish, localVars, SeenState, SeenAsk,
                SeenWarrant
  <2>. QED
    BY <2>1, <2>2 DEF Admitting!Publish, Admitting!Next
<1>2. ASSUME NEW c \in Calls, NEW r \in Request, NEW d \in Digests, Enter(c, r, d)
      PROVE  Admitting!Next
  BY <1>2, EnterIsSeen DEF Admitting!Next
<1>3. ASSUME NEW c \in Calls, gpc[c] \notin {"new"} \cup Answered, Deny(c)
      PROVE  Admitting!Next
  BY <1>3, DenyIsSeen DEF Admitting!Next
<1>4. CASE UNCHANGED gateVars
  BY <1>4 DEF gateVars, localVars, Admitting!vars, SeenState, SeenAsk, SeenWarrant
<1>. QED
  BY <1>1, <1>2, <1>3, <1>4, StepIsSeen DEF GateMove

LEMMA AdmissionInit ==
    ASSUME GateInit
    PROVE  Admitting!Init
<1>2. /\ SeenState = [c \in Calls |-> "new"]
      /\ SeenAsk = [c \in Calls |-> None]
      /\ SeenWarrant = [c \in Calls |-> None]
  BY DEF GateInit, SeenState, SeenAsk, SeenWarrant
<1>3. \E h \in StateHead : heads = <<h>>
  BY DEF GateInit, StateHead
<1>. QED
  BY <1>2, <1>3 DEF GateInit, Admitting!Init

\* However calls interleave, whatever the relay withholds and the cloud signs,
\* the steps of authorize are one step: at the instant a call is admitted, its
\* request and its decision have admitted no other, the decision is for it, and
\* the head it names has the grant and is not behind what the call began with.
THEOREM AuthorizeIsOneStep == GateSpec => ImplementsAdmission
<1>1. GInv /\ [GateNext]_gateVars => [Admitting!Next]_(Admitting!vars)
  <2>1. [GateNext]_gateVars => GateMove
    BY DEF GateNext, GateMove
  <2>. QED
    BY <2>1, AdmissionStep
<1>. QED
  BY <1>1, AdmissionInit, GateInvariant, PTL
     DEF GateSpec, ImplementsAdmission, Admitting!Spec

-----------------------------------------------------------------------------
(* The authorized send. *)

\* Where authorize_and_send is, the machine and the gate are.
Controlled(w) ==
    /\ stage[w] \in {"idle", "gate", "complete", "done"} => pc[w] = "idle"
    /\ stage[w] = "confirm" => pc[w] \in {"confirm_check", "confirm_set", "confirm_log"}
    /\ stage[w] = "start" => pc[w] = "dispatch_check"
    /\ stage[w] = "dispatch" => pc[w] \in Dispatching
    /\ pc[w] # "idle" => target[w] = prop[w]
    /\ stage[w] # "idle" => prop[w] \in Ids
    /\ stage[w] = "idle" => gpc[w] = "new"
    /\ stage[w] # "idle" /\ gpc[w] # "denied" =>
          gpc[w] # "new" /\ expected[w] = DigestOf[prop[w]]
    /\ stage[w] \in {"confirm", "start", "dispatch", "complete"} =>
          gpc[w] = "authorized" /\ IsAuto(w)

Control == \A w \in Workers : Controlled(w)

OrchTypes ==
    /\ stage \in [Workers -> {"idle", "gate", "confirm", "start", "dispatch",
                              "complete", "done"}]
    /\ prop \in [Workers -> Ids \cup {NoId}]
    /\ held \in [Workers -> ProposalStatus \cup {"absent"}]
    /\ outcome \in [Workers -> Outcomes]
    /\ records \in SUBSET Row

\* What the machine and the gate guarantee underneath.
Below == SendTypeInv /\ SentInv /\ GInv

\* The stages of a caller whose started record is written.
HasStarted == {"dispatch", "complete", "done"}

\* A record is that of a caller with an authorization, which it keeps; and who
\* dispatches has one.
Recorded ==
    /\ \A r \in records : r.phase = "started" =>
          \E w \in Workers :
              /\ gpc[w] = "authorized" /\ IsAuto(w)
              /\ stage[w] \in HasStarted /\ r = DispatchRow(w, "started")
    /\ \A w \in Workers : stage[w] \in {"dispatch", "complete"} =>
          DispatchRow(w, "started") \in records

\* Who may still post.
Unsent(p) ==
    {w \in Workers : /\ stage[w] = "dispatch" /\ prop[w] = p
                     /\ pc[w] \in {"dispatch_check", "attempt_log", "sender"}}

\* Every request made, or still to be made, has a started record of its own.
Covered ==
    /\ IsFiniteSet(records)
    /\ \A p \in Ids : wire[p] + Cardinality(Unsent(p)) <= Cardinality(Started(p))

\* What is told was recorded, and happened.
ToldTruly(w) ==
    /\ pc[w] = "settle_log" /\ result[w] = "sent" => delivered[target[w]] > 0
    /\ stage[w] = "complete" =>
          held[w] \in Terminal /\ (held[w] = "sent" => delivered[prop[w]] > 0)
    /\ outcome[w] \in {"sent", "failed"} =>
          /\ stage[w] = "done" /\ gpc[w] = "authorized"
          /\ DispatchRow(w, "started") \in records
          /\ DispatchRow(w, "completed") \in records
          /\ outcome[w] = "sent" => delivered[prop[w]] > 0

Told == \A w \in Workers : ToldTruly(w)

-----------------------------------------------------------------------------
\* A caller that gives up leaves the machine as it was.
LEMMA StopKeeps ==
    ASSUME SendTypeInv, SentInv, NEW w \in Workers, Stop(w),
           UNCHANGED <<storeVars, ledger, wire, delivered>>
    PROVE  SendTypeInv' /\ SentInv'
BY SendAssumption, StoreAssumption
   DEF Stop, SendTypeInv, Locals, StoreTypeOK, SendTypeOK, Steps, Actor, storeVars, SentInv, SentIsTrue

\* A step of the orchestrator is a step of the machine or of the clock, or one
\* caller gives up, or the machine stands still.
LEMMA MachineShape ==
    ASSUME [OrchNext]_allVars, Below, Control
    PROVE  \/ SendNext(Ids)
           \/ \E w \in Workers : Stop(w) /\ UNCHANGED <<storeVars, ledger, wire, delivered>>
           \/ Tick /\ UNCHANGED sendVars
           \/ UNCHANGED <<storeVars, sendVars>>
<1>. DEFINE Shape ==
               \/ SendNext(Ids)
               \/ \E w \in Workers : Stop(w) /\ UNCHANGED <<storeVars, ledger, wire, delivered>>
               \/ Tick /\ UNCHANGED sendVars
               \/ UNCHANGED <<storeVars, sendVars>>
<1>1. CASE Operator /\ UNCHANGED <<storeVars, sendVars, orchVars>>
  BY <1>1
<1>10. CASE Tick /\ UNCHANGED <<sendVars, gateVars, orchVars>>
  BY <1>10
<1>2. ASSUME NEW w \in Workers, NEW p \in Ids, NEW r \in Request, Begin(w, p, r)
      PROVE  Shape
  BY <1>2 DEF Begin
<1>3. ASSUME NEW w \in Workers, InGate(w) \/ Refused(w) \/ AwaitsApproval(w)
                                \/ RecordStarted(w) \/ RecordCompleted(w) \/ CompletionLost(w)
      PROVE  Shape
  BY <1>3 DEF InGate, Refused, AwaitsApproval, RecordStarted, RecordCompleted, CompletionLost
<1>4. ASSUME NEW w \in Workers, Proceed(w)
      PROVE  Shape
  <2>1. Call(w, prop[w], "confirm_check") /\ prop[w] \in Ids
    BY <1>4 DEF Proceed, Stage, Control, Controlled
  <2>. QED
    BY <2>1 DEF SendNext
<1>5. ASSUME NEW w \in Workers, Confirming(w)
      PROVE  Shape
  <2>1. Advance(w)
    BY <1>5 DEF Confirming, Advance, Actor
  <2>. QED
    BY <2>1 DEF SendNext
<1>6. ASSUME NEW w \in Workers, Raised(w)
      PROVE  Shape
  <2>1. Advance(w)
    BY <1>6 DEF Raised, Advance, Actor
  <2>. QED
    BY <2>1 DEF SendNext
<1>7. ASSUME NEW w \in Workers, RecordUnavailable(w) \/ Die(w)
      PROVE  Shape
  BY <1>7 DEF RecordUnavailable, Die
<1>8. ASSUME NEW w \in Workers, Sending(w) \/ Dispatched(w)
      PROVE  Shape
  <2>1. Advance(w)
    BY <1>8 DEF Sending, Dispatched, Advance
  <2>. QED
    BY <2>1 DEF SendNext
<1>9. CASE UNCHANGED allVars
  BY <1>9 DEF allVars
<1>. QED
  BY <1>1, <1>2, <1>3, <1>4, <1>5, <1>6, <1>7, <1>8, <1>9, <1>10 DEF OrchNext, OrchStep

\* The gate goes on, is entered, denies a caller that dies, or stands still.
LEMMA GateShape ==
    ASSUME [OrchNext]_allVars
    PROVE  \/ Operator
           \/ \E w \in Workers : \/ \E r \in Request, d \in Digests : Enter(w, r, d)
                                 \/ stage[w] = "gate" /\ GateStep(w)
                                 \/ gpc[w] \notin Answered /\ Deny(w)
           \/ UNCHANGED gateVars
<1>1. ASSUME NEW w \in Workers, NEW p \in Ids, NEW r \in Request, Begin(w, p, r)
      PROVE  Enter(w, r, DigestOf[p]) /\ DigestOf[p] \in Digests
  BY <1>1, OrchestratorAssumption DEF Begin
<1>. QED
  BY <1>1 DEF OrchNext, OrchStep, InGate, Refused, AwaitsApproval, Proceed, Confirming, Raised,
     RecordStarted, RecordUnavailable, Sending, Dispatched, RecordCompleted, CompletionLost, Die,
     allVars

LEMMA BelowStep ==
    ASSUME [OrchNext]_allVars, Below, Control
    PROVE  Below'
<1>1. SendTypeInv' /\ SentInv'
  <2>1. CASE SendNext(Ids)
    BY <2>1, SendTypeStep, SentStep DEF Below
  <2>2. CASE \E w \in Workers : Stop(w) /\ UNCHANGED <<storeVars, ledger, wire, delivered>>
    BY <2>2, StopKeeps DEF Below
  <2>3. CASE UNCHANGED <<storeVars, sendVars>>
    BY <2>3 DEF Below, SendTypeInv, Locals, StoreTypeOK, SendTypeOK, storeVars, sendVars, SentInv,
                SentIsTrue
  <2>4. CASE Tick /\ UNCHANGED sendVars
    BY <2>4, TickStep DEF Below, Tick, sendVars, SentInv, SentIsTrue
  <2>. QED
    BY <2>1, <2>2, <2>3, <2>4, MachineShape
<1>2. GInv'
  BY GateShape, OperatorKeeps, EnterKeeps, StepKeeps, DenyKeeps, StutterKeeps,
     OrchestratorAssumption DEF Below
<1>. QED
  BY <1>1, <1>2 DEF Below

-----------------------------------------------------------------------------
\* Whatever one caller does.
Turn(w) == (\E p \in Ids, r \in Request : Begin(w, p, r)) \/ OrchStep(w) \/ Die(w)

LEMMA OrchShape ==
    ASSUME [OrchNext]_allVars
    PROVE  \/ Operator /\ UNCHANGED <<storeVars, sendVars, orchVars>>
           \/ Tick /\ UNCHANGED <<sendVars, gateVars, orchVars>>
           \/ \E w \in Workers : Turn(w)
           \/ UNCHANGED allVars
BY DEF OrchNext, Turn

\* A call of the gate moves alone, keeps what it was asked while it is not
\* denied, and stands once it is answered.
LEMMA GateMovesAlone ==
    ASSUME GInv, NEW w \in Workers, GateStep(w)
    PROVE  /\ gpc[w] \notin Answered /\ gpc'[w] # "new"
           /\ gpc'[w] # "denied" => expected'[w] = expected[w] /\ gpc[w] # "new"
           /\ spent \subseteq spent'
           /\ \A v \in Workers \ {w} :
                 /\ gpc'[v] = gpc[v] /\ request'[v] = request[v]
                 /\ expected'[v] = expected[v] /\ verdict'[v] = verdict[v]
<1>. USE OrchestratorAssumption DEF GInv, GateTypeOK, localVars, Answered
<1>1. ASSUME NEW x \in DOMAIN heads, NEW r \in SUBSET Revocations, Sync(w, x, r)
      PROVE  /\ gpc[w] \notin Answered /\ gpc'[w] # "new"
             /\ gpc'[w] # "denied" => expected'[w] = expected[w] /\ gpc[w] # "new"
             /\ spent \subseteq spent'
             /\ \A v \in Workers \ {w} :
                   /\ gpc'[v] = gpc[v] /\ request'[v] = request[v]
                   /\ expected'[v] = expected[v] /\ verdict'[v] = verdict[v]
  BY <1>1 DEF Sync, At
<1>2. CASE Deny(w) /\ gpc[w] \notin Answered
  BY <1>2 DEF Deny
<1>3. CASE CheckHighWater(w) \/ RaiseHighWater(w) \/ LocalDecisions(w) \/ BurnRequest(w)
  BY <1>3 DEF CheckHighWater, RaiseHighWater, LocalDecisions, BurnRequest, At
<1>4. CASE Decide(w)
  BY <1>4 DEF Decide, At
<1>5. CASE SpendDecision(w) \/ Authorize(w)
  BY <1>5 DEF SpendDecision, Authorize, At
<1>. HIDE DEF GInv, GateTypeOK, localVars
<1>. QED
  BY <1>1, <1>2, <1>3, <1>4, <1>5
     DEF GateStep, SyncFails, VersionRegress, LocalDenial, RequestReplayed, DecideFails,
         DecisionReused, StateUnavailable

LEMMA EntersAlone ==
    ASSUME GInv, NEW w \in Workers, NEW r \in Request, NEW d \in Digests, Enter(w, r, d)
    PROVE  /\ gpc[w] = "new" /\ gpc'[w] = "sync" /\ expected'[w] = d /\ spent' = spent
           /\ \A v \in Workers \ {w} :
                 /\ gpc'[v] = gpc[v] /\ request'[v] = request[v]
                 /\ expected'[v] = expected[v] /\ verdict'[v] = verdict[v]
BY OrchestratorAssumption DEF GInv, GateTypeOK, Enter, At

LEMMA DeniedAlone ==
    ASSUME GInv, NEW w \in Workers, Deny(w)
    PROVE  /\ gpc'[w] = "denied" /\ spent' = spent
           /\ \A v \in Workers \ {w} :
                 /\ gpc'[v] = gpc[v] /\ request'[v] = request[v]
                 /\ expected'[v] = expected[v] /\ verdict'[v] = verdict[v]
BY OrchestratorAssumption DEF GInv, GateTypeOK, Deny

\* What a turn leaves alone, of the gate.
LEMMA OthersAtGate ==
    ASSUME Below, Control, NEW w \in Workers, Turn(w)
    PROVE  /\ gpc[w] = "authorized" =>
                 /\ gpc'[w] = "authorized" /\ request'[w] = request[w]
                 /\ expected'[w] = expected[w] /\ verdict'[w] = verdict[w]
           /\ stage[w] \notin {"idle", "gate"} /\ gpc[w] \in Answered => UNCHANGED gateVars
           /\ \A v \in Workers \ {w} :
                 /\ gpc'[v] = gpc[v] /\ request'[v] = request[v]
                 /\ expected'[v] = expected[v] /\ verdict'[v] = verdict[v]
<1>1. ASSUME NEW p \in Ids, NEW r \in Request, Begin(w, p, r)
      PROVE  stage[w] = "idle" /\ DigestOf[p] \in Digests /\ Enter(w, r, DigestOf[p])
  BY <1>1, OrchestratorAssumption DEF Begin, Stage
<1>2. CASE \E p \in Ids, r \in Request : Begin(w, p, r)
  BY <1>1, <1>2, EntersAlone DEF Below
<1>3. CASE InGate(w)
  BY <1>3, GateMovesAlone DEF InGate, Below, Answered
<1>4. CASE UNCHANGED gateVars
  BY <1>4 DEF gateVars, localVars
<1>5. CASE Die(w) /\ gpc[w] \notin Answered
  BY <1>5, DeniedAlone DEF Die, Below, Answered
<1>. QED
  BY <1>2, <1>3, <1>4, <1>5
     DEF Turn, OrchStep, Refused, AwaitsApproval, Proceed, Confirming, Raised, RecordStarted,
         RecordUnavailable, Sending, Dispatched, RecordCompleted, CompletionLost, Die

\* What a turn leaves alone, of the orchestrator and of the machine.
LEMMA OthersAtStage ==
    ASSUME OrchTypes, NEW w \in Workers, Turn(w)
    PROVE  \A v \in Workers \ {w} : /\ stage'[v] = stage[v] /\ prop'[v] = prop[v]
                                    /\ held'[v] = held[v] /\ outcome'[v] = outcome[v]
<1>. USE DEF OrchTypes, Stage, Return
<1>1. ASSUME NEW p \in Ids, NEW r \in Request, Begin(w, p, r)
      PROVE  \A v \in Workers \ {w} : /\ stage'[v] = stage[v] /\ prop'[v] = prop[v]
                                      /\ held'[v] = held[v] /\ outcome'[v] = outcome[v]
  BY <1>1 DEF Begin
<1>2. CASE InGate(w) \/ Refused(w) \/ AwaitsApproval(w) \/ Proceed(w) \/ Confirming(w)
  BY <1>2 DEF InGate, Refused, AwaitsApproval, Proceed, Confirming, orchVars
<1>3. CASE Raised(w) \/ RecordStarted(w) \/ RecordUnavailable(w) \/ Sending(w) \/ Dispatched(w)
  BY <1>3 DEF Raised, RecordStarted, RecordUnavailable, Sending, Dispatched, orchVars
<1>4. CASE RecordCompleted(w) \/ CompletionLost(w) \/ Die(w)
  BY <1>4 DEF RecordCompleted, CompletionLost, Die
<1>. QED
  BY <1>1, <1>2, <1>3, <1>4 DEF Turn, OrchStep

LEMMA OthersAtMachine ==
    ASSUME Below, NEW w \in Workers, Turn(w)
    PROVE  \A v \in Workers \ {w} :
              pc'[v] = pc[v] /\ target'[v] = target[v] /\ result'[v] = result[v]
<1>. DEFINE Alone == \A v \in Workers \ {w} :
                        pc'[v] = pc[v] /\ target'[v] = target[v] /\ result'[v] = result[v]
<1>. USE DEF Below, SendTypeInv, SendTypeOK, Goto, sendVars
<1>1. ASSUME NEW p \in Ids, NEW r \in Request, Begin(w, p, r)
      PROVE  Alone
  BY <1>1 DEF Begin
<1>2. CASE InGate(w) \/ Refused(w) \/ AwaitsApproval(w) \/ RecordStarted(w)
           \/ RecordCompleted(w) \/ CompletionLost(w)
  BY <1>2 DEF InGate, Refused, AwaitsApproval, RecordStarted, RecordCompleted, CompletionLost
<1>3. CASE Proceed(w)
  BY <1>3 DEF Proceed, Call
<1>4. CASE Confirming(w)
  BY <1>4 DEF Confirming, ConfirmCheck, ConfirmSet, ConfirmLog
<1>5. CASE Raised(w)
  BY <1>5 DEF Raised, ConfirmRefused, DispatchRefused, Stop
<1>6. CASE RecordUnavailable(w) \/ Dispatched(w) \/ Die(w)
  BY <1>6 DEF RecordUnavailable, Dispatched, SettleLog, Die, Stop
<1>7. CASE Sending(w)
  BY <1>7 DEF Sending, DispatchCheck, AttemptLog, Settle, Post, SenderStops, Respond
<1>. QED
  BY <1>1, <1>2, <1>3, <1>4, <1>5, <1>6, <1>7 DEF Turn, OrchStep

\* Deliveries and records only grow, and the proposal of a call is settled once
\* and for all when it begins.
LEMMA HistoryGrows ==
    ASSUME Below, OrchTypes, NEW w \in Workers, Turn(w)
    PROVE  /\ \A p \in Ids : delivered[p] > 0 => delivered'[p] > 0
           /\ records \subseteq records'
           /\ stage[w] # "idle" => prop'[w] = prop[w]
<1>. DEFINE Grown == /\ \A p \in Ids : delivered[p] > 0 => delivered'[p] > 0
                     /\ records \subseteq records'
                     /\ stage[w] # "idle" => prop'[w] = prop[w]
<1>. USE DEF Stage, Return, sendVars, orchVars
<1>1. ASSUME NEW p \in Ids, NEW r \in Request, Begin(w, p, r)
      PROVE  Grown
  BY <1>1 DEF Begin
<1>2. CASE InGate(w) \/ Refused(w) \/ AwaitsApproval(w) \/ RecordStarted(w)
           \/ RecordCompleted(w) \/ CompletionLost(w)
  BY <1>2 DEF InGate, Refused, AwaitsApproval, RecordStarted, RecordCompleted, CompletionLost
<1>3. CASE Proceed(w)
  BY <1>3 DEF Proceed, Call
<1>4. CASE Confirming(w)
  BY <1>4 DEF Confirming, ConfirmCheck, ConfirmSet, ConfirmLog
<1>5. CASE Raised(w)
  BY <1>5 DEF Raised, ConfirmRefused, DispatchRefused
<1>6. CASE RecordUnavailable(w) \/ Dispatched(w) \/ Die(w)
  BY <1>6 DEF RecordUnavailable, Dispatched, SettleLog, Die
<1>7. ASSUME NEW taken \in BOOLEAN, Post(w, taken), UNCHANGED orchVars
      PROVE  Grown
  BY <1>7 DEF Post, Below, SendTypeInv, SendTypeOK
<1>8. CASE Sending(w)
  BY <1>7, <1>8 DEF Sending, DispatchCheck, AttemptLog, Settle, SenderStops, Respond
<1>. QED
  BY <1>1, <1>2, <1>3, <1>4, <1>5, <1>6, <1>7, <1>8 DEF Turn, OrchStep

-----------------------------------------------------------------------------
\* The operator touches nobody's call.
LEMMA OperatorAlone ==
    ASSUME Operator
    PROVE  UNCHANGED <<gpc, localVars, spent>>
BY DEF Operator, Revoke, Supersede, Grant, Publish

LEMMA ControlOfTurn ==
    ASSUME Below, OrchTypes, Control, NEW w \in Workers, Turn(w)
    PROVE  Controlled(w)'
<1>0. Controlled(w)
  BY DEF Control
<1>. USE DEF Controlled, OrchTypes, Stage, Return, IsAuto, Dispatching, orchVars
<1>. USE DEF Below, SendTypeInv, SendTypeOK, Locals, Goto, sendVars
<1>1. ASSUME NEW p \in Ids, NEW r \in Request, Begin(w, p, r)
      PROVE  Controlled(w)'
  <2>1. Enter(w, r, DigestOf[p]) /\ DigestOf[p] \in Digests
    BY <1>1, OrchestratorAssumption DEF Begin
  <2>2. gpc'[w] = "sync" /\ expected'[w] = DigestOf[p]
    BY <2>1, EntersAlone
  <2>. QED
    BY <1>0, <1>1, <2>2 DEF Begin
<1>2. CASE InGate(w)
  <2>1. /\ gpc[w] \notin Answered /\ gpc'[w] # "new"
        /\ gpc'[w] # "denied" => expected'[w] = expected[w] /\ gpc[w] # "new"
    BY <1>2, GateMovesAlone DEF InGate
  <2>. QED
    BY <1>0, <1>2, <2>1 DEF InGate, Answered
<1>3. CASE Refused(w) \/ AwaitsApproval(w) \/ RecordStarted(w) \/ RecordCompleted(w)
           \/ CompletionLost(w)
  BY <1>0, <1>3 DEF Refused, AwaitsApproval, RecordStarted, RecordCompleted, CompletionLost,
                    gateVars, localVars
<1>4. CASE Proceed(w)
  <2>1. IsAuto(w)
    BY <1>4, OrchestratorAssumption DEF Proceed, GInv, CallOK, Bound, Disposition
  <2>. QED
    BY <1>0, <1>4, <2>1 DEF Proceed, Call, gateVars, localVars
<1>5. CASE Confirming(w)
  BY <1>0, <1>5 DEF Confirming, ConfirmCheck, ConfirmSet, ConfirmLog, gateVars, localVars
<1>6. CASE Raised(w)
  BY <1>0, <1>6 DEF Raised, ConfirmRefused, DispatchRefused, Stop, gateVars, localVars
<1>7. CASE RecordUnavailable(w) \/ Dispatched(w)
  BY <1>0, <1>7 DEF RecordUnavailable, Dispatched, SettleLog, Stop, gateVars, localVars
<1>8. CASE Sending(w)
  BY <1>0, <1>8 DEF Sending, DispatchCheck, AttemptLog, Settle, Post, SenderStops, Respond,
                    gateVars, localVars
<1>9. CASE Die(w) /\ UNCHANGED gateVars
  BY <1>0, <1>9 DEF Die, Stop, gateVars, localVars
<1>10. CASE Die(w) /\ Deny(w)
  BY <1>0, <1>10, DeniedAlone DEF Die, Stop
<1>11. Die(w) => UNCHANGED gateVars \/ Deny(w)
  BY DEF Die
<1>. QED
  BY <1>1, <1>2, <1>3, <1>4, <1>5, <1>6, <1>7, <1>8, <1>9, <1>10, <1>11 DEF Turn, OrchStep

LEMMA ControlStep ==
    ASSUME [OrchNext]_allVars, Below, OrchTypes, Control
    PROVE  Control'
<1>1. ASSUME UNCHANGED <<gpc, localVars, sendVars, orchVars>>
      PROVE  Control'
  BY <1>1 DEF Control, Controlled, IsAuto, localVars, sendVars, orchVars
<1>2. ASSUME NEW w \in Workers, Turn(w)
      PROVE  Control'
  <2>1. ASSUME NEW v \in Workers \ {w}
        PROVE  Controlled(v)'
    BY <1>2, OthersAtGate, OthersAtStage, OthersAtMachine DEF Control, Controlled, IsAuto
  <2>. QED
    BY <1>2, <2>1, ControlOfTurn DEF Control
<1>. QED
  BY <1>1, <1>2, OrchShape, OperatorAlone DEF allVars, gateVars

\* Rows stay what they were: those who wrote them stand by what they wrote.
LEMMA RowsStand ==
    ASSUME [OrchNext]_allVars, Below, OrchTypes, Control,
           NEW v \in Workers, gpc[v] = "authorized", stage[v] # "idle"
    PROVE  /\ gpc'[v] = "authorized" /\ prop'[v] = prop[v] /\ verdict'[v] = verdict[v]
           /\ IsAuto(v)' = IsAuto(v)
           /\ \A phase \in {"started", "completed"} :
                 DispatchRow(v, phase)' = DispatchRow(v, phase)
<1>1. gpc'[v] = gpc[v] /\ prop'[v] = prop[v] /\ verdict'[v] = verdict[v] /\ request'[v] = request[v]
  BY OrchShape, OperatorAlone, OthersAtGate, OthersAtStage, HistoryGrows
     DEF allVars, orchVars, gateVars, localVars
<1>. QED
  BY <1>1 DEF IsAuto, DispatchRow

LEMMA TypesOfTurn ==
    ASSUME Below, OrchTypes, Control, Told, NEW w \in Workers, Turn(w)
    PROVE  OrchTypes'
<1>. USE DEF OrchTypes, Stage, Return, Outcomes, orchVars
<1>1. ASSUME NEW p \in Ids, NEW r \in Request, Begin(w, p, r)
      PROVE  OrchTypes'
  BY <1>1 DEF Begin, Below, SendTypeInv, StoreTypeOK
<1>2. CASE InGate(w) \/ Refused(w) \/ AwaitsApproval(w) \/ Proceed(w) \/ Confirming(w)
  BY <1>2 DEF InGate, Refused, AwaitsApproval, Proceed, Confirming
<1>3. CASE Raised(w) \/ RecordUnavailable(w) \/ Sending(w) \/ CompletionLost(w) \/ Die(w)
  BY <1>3 DEF Raised, RecordUnavailable, Sending, CompletionLost, Die, Terminal
<1>4. ASSUME NEW phase \in {"started", "completed"},
             stage[w] \in {"start", "complete"}
      PROVE  DispatchRow(w, phase) \in Row
  <2>1. prop[w] \in Ids /\ gpc[w] = "authorized"
    BY <1>4 DEF Control, Controlled
  <2>2. w \in Calls /\ DigestOf[prop[w]] \in Digests
    BY <2>1, OrchestratorAssumption
  <2>3. request[w].rid \in RequestIds /\ verdict[w].id \in DecisionIds
    BY <2>1, <2>2 DEF Below, GInv, CallOK, Request, Decision
  <2>. QED
    BY <2>1, <2>2, <2>3 DEF DispatchRow, Row
<1>5. CASE RecordStarted(w)
  BY <1>4, <1>5 DEF RecordStarted
<1>6. CASE RecordCompleted(w)
  BY <1>4, <1>6 DEF RecordCompleted, Told, ToldTruly
<1>7. CASE Dispatched(w)
  <2>1. result[w] \in ProposalStatus
    BY <1>7 DEF Dispatched, SettleLog, Below, SendTypeInv, Locals, ProposalStatus, Terminal
  <2>. QED
    BY <1>7, <2>1 DEF Dispatched
<1>. QED
  BY <1>1, <1>2, <1>3, <1>5, <1>6, <1>7 DEF Turn, OrchStep

LEMMA TypesStep ==
    ASSUME [OrchNext]_allVars, Below, OrchTypes, Control, Told
    PROVE  OrchTypes'
BY OrchShape, TypesOfTurn DEF OrchTypes, orchVars, allVars

-----------------------------------------------------------------------------
\* How a turn moves the stage, and which rows it writes.
LEMMA StageMoves ==
    ASSUME OrchTypes, NEW w \in Workers, Turn(w)
    PROVE  /\ stage[w] \in HasStarted => stage'[w] \in HasStarted
           /\ stage'[w] \in {"dispatch", "complete"} => stage[w] = "dispatch" \/ RecordStarted(w)
           /\ records' = records \/ RecordStarted(w) \/ RecordCompleted(w)
<1>. DEFINE Moved ==
               /\ stage[w] \in HasStarted => stage'[w] \in HasStarted
               /\ stage'[w] \in {"dispatch", "complete"} =>
                     stage[w] = "dispatch" \/ RecordStarted(w)
               /\ records' = records \/ RecordStarted(w) \/ RecordCompleted(w)
<1>. USE DEF OrchTypes, Stage, HasStarted, orchVars
<1>1. ASSUME NEW p \in Ids, NEW r \in Request, Begin(w, p, r)
      PROVE  Moved
  BY <1>1 DEF Begin
<1>2. CASE InGate(w) \/ Refused(w) \/ AwaitsApproval(w) \/ Proceed(w) \/ Confirming(w)
  BY <1>2 DEF InGate, Refused, AwaitsApproval, Proceed, Confirming
<1>3. CASE Raised(w) \/ RecordUnavailable(w) \/ Sending(w) \/ Dispatched(w)
           \/ CompletionLost(w) \/ Die(w)
  BY <1>3 DEF Raised, RecordUnavailable, Sending, Dispatched, CompletionLost, Die
<1>4. CASE RecordStarted(w)
  BY <1>4 DEF RecordStarted
<1>5. CASE RecordCompleted(w)
  BY <1>5 DEF RecordCompleted
<1>. QED
  BY <1>1, <1>2, <1>3, <1>4, <1>5 DEF Turn, OrchStep

\* Every started record keeps the caller that wrote it.
LEMMA RecordedStep ==
    ASSUME [OrchNext]_allVars, Below, OrchTypes, Control, Recorded
    PROVE  Recorded'
<1>1. CASE UNCHANGED <<gpc, localVars, orchVars>>
  BY <1>1 DEF Recorded, IsAuto, DispatchRow, localVars, orchVars
<1>2. ASSUME NEW w \in Workers, Turn(w)
      PROVE  Recorded'
  <2>1. ASSUME NEW v \in Workers, gpc[v] = "authorized", IsAuto(v), stage[v] \in HasStarted
        PROVE  /\ (gpc[v] = "authorized" /\ IsAuto(v) /\ stage[v] \in HasStarted)'
               /\ DispatchRow(v, "started")' = DispatchRow(v, "started")
    BY <1>2, <2>1, RowsStand, StageMoves, OthersAtStage DEF HasStarted
  <2>2. ASSUME NEW r \in records, r.phase = "started"
        PROVE  \E v \in Workers :
                  /\ (gpc[v] = "authorized" /\ IsAuto(v) /\ stage[v] \in HasStarted)'
                  /\ r = DispatchRow(v, "started")'
    BY <2>1, <2>2 DEF Recorded
  <2>3. ASSUME RecordStarted(w)
        PROVE  /\ (gpc[w] = "authorized" /\ IsAuto(w) /\ stage[w] \in HasStarted)'
               /\ DispatchRow(w, "started")' = DispatchRow(w, "started")
               /\ records' = records \cup {DispatchRow(w, "started")}
    <3>1. stage[w] = "start" /\ stage'[w] = "dispatch"
      BY <2>3 DEF RecordStarted, Stage, OrchTypes
    <3>2. gpc[w] = "authorized" /\ IsAuto(w)
      BY <3>1 DEF Control, Controlled
    <3>. QED
      BY <2>3, <3>1, <3>2, RowsStand DEF RecordStarted, HasStarted
  <2>4. ASSUME RecordCompleted(w), NEW r \in records', r.phase = "started"
        PROVE  r \in records
    BY <2>4 DEF RecordCompleted, DispatchRow
  <2>5. ASSUME NEW r \in records', r.phase = "started"
        PROVE  \E v \in Workers :
                  /\ (gpc[v] = "authorized" /\ IsAuto(v) /\ stage[v] \in HasStarted)'
                  /\ r = DispatchRow(v, "started")'
    BY <1>2, <2>2, <2>3, <2>4, <2>5, StageMoves
  <2>6. ASSUME NEW v \in Workers, stage'[v] \in {"dispatch", "complete"}
        PROVE  DispatchRow(v, "started")' \in records'
    <3>1. CASE v = w /\ RecordStarted(w)
      BY <2>3, <3>1
    <3>2. CASE stage[v] \in {"dispatch", "complete"}
      <4>1. gpc[v] = "authorized" /\ DispatchRow(v, "started") \in records
        BY <3>2 DEF Control, Controlled, Recorded
      <4>. QED
        BY <1>2, <3>2, <4>1, RowsStand, HistoryGrows
    <3>. QED
      BY <1>2, <2>6, <3>1, <3>2, StageMoves, OthersAtStage
  <2>. QED
    BY <2>5, <2>6 DEF Recorded
<1>. QED
  BY <1>1, <1>2, OrchShape, OperatorAlone DEF allVars, gateVars

LEMMA ToldOfTurn ==
    ASSUME Below, OrchTypes, Control, Recorded, Told, NEW w \in Workers, Turn(w),
           \A phase \in {"started", "completed"} : gpc[w] = "authorized" /\ stage[w] # "idle" =>
              DispatchRow(w, phase)' = DispatchRow(w, phase)
    PROVE  ToldTruly(w)'
<1>0. ToldTruly(w) /\ Controlled(w) /\ stage[w] # "done"
  BY DEF Told, Control, Turn, OrchStep, Begin, InGate, Refused, AwaitsApproval, Proceed,
         Confirming, Raised, RecordStarted, RecordUnavailable, Sending, Dispatched,
         RecordCompleted, CompletionLost, Die, Stage
<1>. USE DEF ToldTruly, OrchTypes, Stage, Return, Terminal, orchVars
<1>. USE DEF Below, SendTypeInv, SendTypeOK, Locals, Goto, sendVars, Controlled
<1>1. ASSUME NEW p \in Ids, NEW r \in Request, Begin(w, p, r)
      PROVE  ToldTruly(w)'
  BY <1>0, <1>1 DEF Begin
<1>2. CASE InGate(w) \/ Refused(w) \/ AwaitsApproval(w) \/ RecordStarted(w) \/ CompletionLost(w)
  BY <1>0, <1>2 DEF InGate, Refused, AwaitsApproval, RecordStarted, CompletionLost
<1>3. CASE Proceed(w)
  BY <1>0, <1>3 DEF Proceed, Call
<1>4. CASE Confirming(w)
  BY <1>0, <1>4 DEF Confirming, ConfirmCheck, ConfirmSet, ConfirmLog
<1>5. CASE Raised(w)
  BY <1>0, <1>5 DEF Raised, ConfirmRefused, DispatchRefused, Stop
<1>6. CASE RecordUnavailable(w) \/ Die(w)
  BY <1>0, <1>6 DEF RecordUnavailable, Die, Stop
<1>7. CASE Sending(w)
  BY <1>0, <1>7 DEF Sending, DispatchCheck, AttemptLog, Settle, Post, SenderStops, Respond,
                    SentInv
<1>8. CASE Dispatched(w)
  BY <1>0, <1>8 DEF Dispatched, SettleLog, Stop
<1>9. CASE RecordCompleted(w)
  <2>1. gpc[w] = "authorized" /\ DispatchRow(w, "started") \in records
    BY <1>0, <1>9 DEF RecordCompleted, Recorded
  <2>2. gpc'[w] = "authorized"
    BY <2>1, OthersAtGate
  <2>. QED
    BY <1>0, <1>9, <2>1, <2>2 DEF RecordCompleted
<1>. QED
  BY <1>1, <1>2, <1>3, <1>4, <1>5, <1>6, <1>7, <1>8, <1>9 DEF Turn, OrchStep

LEMMA ToldStep ==
    ASSUME [OrchNext]_allVars, Below, OrchTypes, Control, Recorded, Told
    PROVE  Told'
<1>1. CASE UNCHANGED <<gpc, localVars, sendVars, orchVars>>
  BY <1>1 DEF Told, ToldTruly, DispatchRow, localVars, sendVars, orchVars
<1>2. ASSUME NEW w \in Workers, Turn(w)
      PROVE  Told'
  <2>1. ToldTruly(w)'
    BY <1>2, RowsStand, ToldOfTurn
  <2>2. ASSUME NEW v \in Workers \ {w}
        PROVE  ToldTruly(v)'
    <3>1. ToldTruly(v) /\ Controlled(v)
      BY DEF Told, Control
    <3>2. /\ pc'[v] = pc[v] /\ target'[v] = target[v] /\ result'[v] = result[v]
          /\ stage'[v] = stage[v] /\ prop'[v] = prop[v]
          /\ held'[v] = held[v] /\ outcome'[v] = outcome[v]
          /\ gpc'[v] = gpc[v]
      BY <1>2, OthersAtGate, OthersAtStage, OthersAtMachine
    <3>3. /\ \A p \in Ids : delivered[p] > 0 => delivered'[p] > 0
          /\ records \subseteq records'
      BY <1>2, HistoryGrows
    <3>4. stage[v] = "done" /\ gpc[v] = "authorized" =>
             \A phase \in {"started", "completed"} :
                DispatchRow(v, phase)' = DispatchRow(v, phase)
      BY RowsStand
    <3>. HIDE DEF DispatchRow
    <3>. QED
      BY <3>1, <3>2, <3>3, <3>4 DEF ToldTruly, Controlled
  <2>. QED
    BY <2>1, <2>2 DEF Told
<1>. QED
  BY <1>1, <1>2, OrchShape, OperatorAlone DEF allVars, gateVars

-----------------------------------------------------------------------------
LEMMA SetsAreFinite ==
    ASSUME Covered, NEW p \in Ids
    PROVE  /\ IsFiniteSet(Unsent(p)) /\ Cardinality(Unsent(p)) \in Nat
           /\ IsFiniteSet(Started(p)) /\ Cardinality(Started(p)) \in Nat
<1>1. IsFiniteSet(Unsent(p))
  <2>1. Unsent(p) \subseteq Workers
    BY DEF Unsent
  <2>. QED
    BY <2>1, SendAssumption, FS_Subset
<1>2. IsFiniteSet(Started(p))
  <2>1. Started(p) \subseteq records
    BY DEF Started
  <2>. QED
    BY <2>1, FS_Subset DEF Covered
<1>. QED
  BY <1>1, <1>2, FS_CardinalityType

\* A step that posts nothing, and lets nobody in who may, keeps the balance.
LEMMA CoverKept ==
    ASSUME Covered, SendTypeInv, IsFiniteSet(records'), records \subseteq records', NEW p \in Ids,
           Unsent(p)' \subseteq Unsent(p), wire'[p] = wire[p]
    PROVE  (wire[p] + Cardinality(Unsent(p)) <= Cardinality(Started(p)))'
<1>1. Cardinality(Unsent(p)') <= Cardinality(Unsent(p)) /\ Cardinality(Unsent(p)') \in Nat
  <2>. DEFINE Before == Unsent(p)
              After == Unsent(p)'
  <2>1. IsFiniteSet(Before) /\ After \subseteq Before
    BY SetsAreFinite
  <2>. HIDE DEF Before, After
  <2>2. Cardinality(After) <= Cardinality(Before) /\ Cardinality(After) \in Nat
    BY <2>1, FS_Subset, FS_CardinalityType
  <2>. QED
    BY <2>2 DEF Before, After
<1>2. Cardinality(Started(p)) <= Cardinality(Started(p)') /\ Cardinality(Started(p)') \in Nat
  <2>. DEFINE Before == Started(p)
              After == Started(p)'
  <2>1. Before \subseteq After /\ IsFiniteSet(After)
    <3>1. Before \subseteq After /\ After \subseteq records'
      BY DEF Started
    <3>. QED
      BY <3>1, FS_Subset
  <2>. HIDE DEF Before, After
  <2>2. Cardinality(Before) <= Cardinality(After) /\ Cardinality(After) \in Nat
    BY <2>1, FS_Subset, FS_CardinalityType
  <2>. QED
    BY <2>2 DEF Before, After
<1>3. wire[p] + Cardinality(Unsent(p)) <= Cardinality(Started(p)) /\ wire[p] \in Nat
  BY DEF Covered, SendTypeInv, SendTypeOK
<1>. QED
  BY <1>1, <1>2, <1>3, SetsAreFinite

\* The one that starts brings a row nobody has written.
LEMMA StartIsCovered ==
    ASSUME Below, OrchTypes, Control, Recorded, Covered, NEW w \in Workers, RecordStarted(w)
    PROVE  Covered'
<1>. DEFINE row == DispatchRow(w, "started")
<1>1. /\ stage[w] = "start" /\ stage' = [stage EXCEPT ![w] = "dispatch"]
      /\ records' = records \cup {row} /\ pc[w] = "dispatch_check"
      /\ prop[w] \in Ids /\ gpc[w] = "authorized"
      /\ UNCHANGED <<pc, prop, wire>>
  BY DEF RecordStarted, Stage, Control, Controlled, sendVars
<1>2. IsFiniteSet(records')
  <2>1. IsFiniteSet(records)
    BY DEF Covered
  <2>. HIDE DEF row
  <2>. QED
    BY <1>1, <2>1, FS_AddElement
<1>3. row \notin records
  <2>. SUFFICES ASSUME row \in records
                PROVE  FALSE
    OBVIOUS
  <2>1. PICK v \in Workers : /\ gpc[v] = "authorized" /\ stage[v] \in HasStarted
                             /\ row = DispatchRow(v, "started")
    BY DEF Recorded, DispatchRow
  <2>2. v # w /\ verdict[v].id = verdict[w].id
    BY <1>1, <2>1 DEF HasStarted, DispatchRow
  <2>. QED
    BY <1>1, <2>1, <2>2, OrchestratorAssumption DEF Below, GInv, Apart
<1>4. ASSUME NEW p \in Ids, p # prop[w]
      PROVE  Unsent(p)' = Unsent(p) /\ Started(p)' = Started(p)
  BY <1>1, <1>4 DEF Unsent, Started, DispatchRow, OrchTypes
<1>5. ASSUME NEW p \in Ids, p = prop[w]
      PROVE  /\ Cardinality(Unsent(p)') = Cardinality(Unsent(p)) + 1
             /\ Cardinality(Started(p)') = Cardinality(Started(p)) + 1
  <2>1. Unsent(p)' = Unsent(p) \cup {w} /\ w \notin Unsent(p)
    BY <1>1, <1>5 DEF Unsent, OrchTypes
  <2>2. Started(p)' = Started(p) \cup {row} /\ row \notin Started(p)
    BY <1>1, <1>3, <1>5 DEF Started, DispatchRow
  <2>3. Cardinality(Unsent(p) \cup {w}) = Cardinality(Unsent(p)) + 1
    BY <2>1, SetsAreFinite, FS_AddElement
  <2>4. Cardinality(Started(p) \cup {row}) = Cardinality(Started(p)) + 1
    <3>. HIDE DEF row
    <3>. QED
      BY <2>2, SetsAreFinite, FS_AddElement
  <2>. QED
    BY <2>1, <2>2, <2>3, <2>4
<1>6. ASSUME NEW p \in Ids
      PROVE  (wire[p] + Cardinality(Unsent(p)) <= Cardinality(Started(p)))'
  <2>1. wire'[p] = wire[p] /\ wire[p] \in Nat
    BY <1>1 DEF Below, SendTypeInv, SendTypeOK
  <2>2. wire[p] + Cardinality(Unsent(p)) <= Cardinality(Started(p))
    BY DEF Covered
  <2>3. CASE p = prop[w]
    BY <1>5, <2>1, <2>2, <2>3, SetsAreFinite
  <2>4. CASE p # prop[w]
    BY <1>4, <2>1, <2>2, <2>4
  <2>. QED
    BY <2>3, <2>4
<1>. QED
  BY <1>2, <1>6 DEF Covered

\* Who posts could still post.
LEMMA PostIsCovered ==
    ASSUME Below, OrchTypes, Control, Covered, NEW w \in Workers, NEW taken \in BOOLEAN,
           stage[w] = "dispatch", Post(w, taken), UNCHANGED orchVars
    PROVE  Covered'
<1>1. /\ pc[w] = "sender" /\ pc' = [pc EXCEPT ![w] = "await"]
      /\ target[w] = prop[w] /\ prop[w] \in Ids
      /\ wire' = [wire EXCEPT ![prop[w]] = @ + 1]
      /\ UNCHANGED <<stage, prop, records>>
  BY DEF Post, Goto, Control, Controlled, orchVars
<1>2. \A p \in Ids : Started(p)' = Started(p)
  BY <1>1 DEF Started
<1>3. ASSUME NEW p \in Ids, p # prop[w]
      PROVE  Unsent(p)' = Unsent(p) /\ wire'[p] = wire[p]
  BY <1>1, <1>3 DEF Unsent, Below, SendTypeInv, SendTypeOK
<1>4. ASSUME NEW p \in Ids, p = prop[w]
      PROVE  /\ Cardinality(Unsent(p)') = Cardinality(Unsent(p)) - 1
             /\ wire'[p] = wire[p] + 1
  <2>1. Unsent(p)' = Unsent(p) \ {w} /\ w \in Unsent(p) /\ wire'[p] = wire[p] + 1
    BY <1>1, <1>4 DEF Unsent, Below, SendTypeInv, SendTypeOK
  <2>2. Cardinality(Unsent(p) \ {w}) = Cardinality(Unsent(p)) - 1
    <3>1. IsFiniteSet(Unsent(p)) /\ w \in Unsent(p)
      BY <2>1, SetsAreFinite
    <3>. HIDE DEF Unsent
    <3>. QED
      BY <3>1, FS_RemoveElement
  <2>. QED
    BY <2>1, <2>2
<1>5. ASSUME NEW p \in Ids
      PROVE  (wire[p] + Cardinality(Unsent(p)) <= Cardinality(Started(p)))'
  <2>1. wire[p] \in Nat /\ wire[p] + Cardinality(Unsent(p)) <= Cardinality(Started(p))
    BY DEF Covered, Below, SendTypeInv, SendTypeOK
  <2>2. CASE p = prop[w]
    BY <1>2, <1>4, <2>1, <2>2, SetsAreFinite
  <2>3. CASE p # prop[w]
    BY <1>2, <1>3, <2>1, <2>3
  <2>. QED
    BY <2>2, <2>3
<1>. QED
  BY <1>1, <1>5 DEF Covered

LEMMA CoveredOfTurn ==
    ASSUME Below, OrchTypes, Control, Recorded, Covered, NEW w \in Workers, Turn(w)
    PROVE  Covered'
<1>0. SendTypeInv /\ IsFiniteSet(records)
  BY DEF Below, Covered
<1>1. ASSUME UNCHANGED <<records, wire>>, \A p \in Ids : Unsent(p)' \subseteq Unsent(p)
      PROVE  Covered'
  <2>1. ASSUME NEW p \in Ids
        PROVE  (wire[p] + Cardinality(Unsent(p)) <= Cardinality(Started(p)))'
    BY <1>0, <1>1, CoverKept
  <2>. QED
    BY <1>0, <1>1, <2>1 DEF Covered
<1>. USE DEF Unsent, OrchTypes, Stage, Return, orchVars
<1>. USE DEF SendTypeInv, SendTypeOK, Goto, sendVars
<1>2. ASSUME NEW p \in Ids, NEW r \in Request, Begin(w, p, r)
      PROVE  Covered'
  <2>1. UNCHANGED <<records, wire>> /\ \A q \in Ids : Unsent(q)' \subseteq Unsent(q)
    BY <1>2 DEF Begin
  <2>. QED
    BY <1>1, <2>1
<1>3. CASE InGate(w) \/ Refused(w) \/ AwaitsApproval(w) \/ CompletionLost(w)
  <2>1. UNCHANGED <<records, wire>> /\ \A q \in Ids : Unsent(q)' \subseteq Unsent(q)
    BY <1>3 DEF InGate, Refused, AwaitsApproval, CompletionLost
  <2>. QED
    BY <1>1, <2>1
<1>4. CASE Proceed(w) \/ Confirming(w)
  <2>1. UNCHANGED <<records, wire>> /\ \A q \in Ids : Unsent(q)' \subseteq Unsent(q)
    BY <1>0, <1>4 DEF Proceed, Call, Confirming, ConfirmCheck, ConfirmSet, ConfirmLog
  <2>. QED
    BY <1>1, <2>1
<1>5. CASE Raised(w) \/ RecordUnavailable(w) \/ Dispatched(w) \/ Die(w)
  <2>1. UNCHANGED <<records, wire>> /\ \A q \in Ids : Unsent(q)' \subseteq Unsent(q)
    BY <1>0, <1>5 DEF Raised, ConfirmRefused, DispatchRefused, RecordUnavailable, Dispatched,
                      SettleLog, Die, Stop
  <2>. QED
    BY <1>1, <2>1
<1>6. CASE /\ stage[w] = "dispatch" /\ UNCHANGED orchVars
           /\ \/ DispatchCheck(w) \/ AttemptLog(w) \/ Settle(w)
              \/ \E s \in Terminal : SenderStops(w, s) \/ Respond(w, s)
  <2>1. UNCHANGED <<records, wire>> /\ \A q \in Ids : Unsent(q)' \subseteq Unsent(q)
    BY <1>0, <1>6 DEF DispatchCheck, AttemptLog, Settle, SenderStops, Respond
  <2>. QED
    BY <1>1, <2>1
<1>7. CASE Sending(w)
  BY <1>6, <1>7, PostIsCovered DEF Sending
<1>8. CASE RecordStarted(w)
  BY <1>8, StartIsCovered
<1>9. CASE RecordCompleted(w)
  <2>1. /\ UNCHANGED wire /\ records' = records \cup {DispatchRow(w, "completed")}
        /\ \A q \in Ids : Unsent(q)' \subseteq Unsent(q)
    BY <1>9 DEF RecordCompleted
  <2>2. IsFiniteSet(records')
    BY <1>0, <2>1, FS_AddElement
  <2>3. ASSUME NEW p \in Ids
        PROVE  (wire[p] + Cardinality(Unsent(p)) <= Cardinality(Started(p)))'
    BY <1>0, <2>1, <2>2, CoverKept
  <2>. QED
    BY <2>2, <2>3 DEF Covered
<1>. QED
  BY <1>2, <1>3, <1>4, <1>5, <1>7, <1>8, <1>9 DEF Turn, OrchStep

LEMMA CoveredStep ==
    ASSUME [OrchNext]_allVars, Below, OrchTypes, Control, Recorded, Covered
    PROVE  Covered'
<1>1. CASE UNCHANGED <<sendVars, orchVars>>
  <2>1. \A p \in Ids : Unsent(p)' = Unsent(p) /\ Started(p)' = Started(p)
    BY <1>1 DEF Unsent, Started, sendVars, orchVars
  <2>. QED
    BY <1>1, <2>1 DEF Covered, sendVars, orchVars
<1>. QED
  BY <1>1, OrchShape, CoveredOfTurn DEF allVars

-----------------------------------------------------------------------------
OrchInv == Below /\ OrchTypes /\ Control /\ Recorded /\ Covered /\ Told

LEMMA OrchInitInv == OrchInit => OrchInv
<1>. SUFFICES ASSUME OrchInit
              PROVE  OrchInv
  OBVIOUS
<1>1. Below
  <2>1. SendTypeInv
    BY InitInv DEF OrchInit
  <2>2. SentInv
    BY DEF OrchInit, Init, SendInit, SentInv, SentIsTrue
  <2>. QED
    BY <2>1, <2>2, GInit DEF Below, OrchInit
<1>2. OrchTypes
  BY DEF OrchInit, OrchTypes, Outcomes
<1>3. Control
  BY OrchestratorAssumption DEF OrchInit, Init, SendInit, GateInit, Control, Controlled
<1>4. Recorded /\ Told
  BY DEF OrchInit, Init, SendInit, Recorded, Told, ToldTruly
<1>5. Covered
  <2>1. IsFiniteSet(records) /\ Cardinality({}) = 0
    BY FS_EmptySet DEF OrchInit
  <2>2. ASSUME NEW p \in Ids
        PROVE  wire[p] + Cardinality(Unsent(p)) <= Cardinality(Started(p))
    <3>1. wire[p] = 0 /\ Unsent(p) = {} /\ Started(p) = {}
      BY DEF OrchInit, Init, SendInit, Unsent, Started
    <3>. QED
      BY <2>1, <3>1
  <2>. QED
    BY <2>1, <2>2 DEF Covered
<1>. QED
  BY <1>1, <1>2, <1>3, <1>4, <1>5 DEF OrchInv

LEMMA OrchInvariant == OrchSpec => []OrchInv
<1>1. OrchInv /\ [OrchNext]_allVars => OrchInv'
  BY BelowStep, TypesStep, ControlStep, RecordedStep, CoveredStep, ToldStep DEF OrchInv
<1>. QED
  BY <1>1, OrchInitInv, PTL DEF OrchSpec

\* The stages of a call, the outcomes it may have and the rows of the record
\* stay in their closed sets, whoever fails or dies.
THEOREM OrchTypeCorrect == OrchSpec => []OrchTypeOK
<1>1. OrchInv => OrchTypeOK
  BY DEF OrchInv, Below, SendTypeInv, GInv, OrchTypes, OrchTypeOK
<1>. QED
  BY <1>1, OrchInvariant, PTL

\* Behind the orchestrator the gate keeps its word: the checks of its calls do
\* not depend on who makes them, nor on where a caller dies.
THEOREM GateHoldsBehindSends ==
    OrchSpec => [](SingleUse /\ NoRollback /\ DecisionFits /\ HighWaterCovers)
<1>1. GInv => SingleUse
  BY DEF GInv, Apart, SingleUse, Burning
<1>2. GInv => NoRollback /\ DecisionFits
  BY DEF GInv, CallOK, NoRollback, DecisionFits, IsMember, Accepted, Burning, Bound, Disposition
<1>3. GInv => HighWaterCovers
  BY DEF GInv, CallOK, HighWaterCovers
<1>4. OrchInv => GInv
  BY DEF OrchInv, Below
<1>. QED
  BY <1>1, <1>2, <1>3, <1>4, OrchInvariant, PTL

\* However many callers race on however many proposals, no request reaches
\* Gmail without a started record of its own, and that record names a decision
\* spent on one call, for this payload (authz/orchestrator.py:94-98).
THEOREM SendsAreAttributed == OrchSpec => []Attributed
<1>1. OrchInv => Attributed
  <2>. SUFFICES ASSUME OrchInv, NEW p \in Ids
                PROVE  /\ wire[p] <= Cardinality(Started(p))
                       /\ \A r \in Started(p) : \E w \in Workers :
                             /\ gpc[w] = "authorized" /\ IsAuto(w)
                             /\ verdict[w].id = r.decision /\ r.decision \in spent
                             /\ verdict[w].digest = DigestOf[p]
                       /\ \A q \in Ids \ {p} : {r.decision : r \in Started(p)}
                                               \cap {r.decision : r \in Started(q)} = {}
    BY DEF Attributed
  <2>1. wire[p] <= Cardinality(Started(p))
    <3>1. wire[p] \in Nat /\ wire[p] + Cardinality(Unsent(p)) <= Cardinality(Started(p))
      BY DEF OrchInv, Covered, Below, SendTypeInv, SendTypeOK
    <3>. QED
      BY <3>1, SetsAreFinite DEF OrchInv
  <2>2. ASSUME NEW q \in Ids, NEW r \in Started(q)
        PROVE  \E w \in Workers :
                  /\ gpc[w] = "authorized" /\ IsAuto(w) /\ prop[w] = q
                  /\ verdict[w].id = r.decision /\ r.decision \in spent
                  /\ verdict[w].digest = DigestOf[q]
    <3>1. r \in records /\ r.phase = "started" /\ r.p = q
      BY <2>2 DEF Started
    <3>2. PICK w \in Workers : /\ gpc[w] = "authorized" /\ IsAuto(w)
                               /\ stage[w] \in HasStarted /\ r = DispatchRow(w, "started")
      BY <3>1 DEF OrchInv, Recorded
    <3>3. prop[w] = q /\ verdict[w].id = r.decision
      BY <3>1, <3>2 DEF DispatchRow
    <3>4. verdict[w].digest = expected[w] /\ verdict[w].id \in spent
      BY <3>2, OrchestratorAssumption DEF OrchInv, Below, GInv, CallOK, Bound, Disposition, IsAuto
    <3>5. expected[w] = DigestOf[q]
      BY <3>2, <3>3 DEF OrchInv, Control, Controlled, HasStarted
    <3>. QED
      BY <3>2, <3>3, <3>4, <3>5
  <2>3. ASSUME NEW q \in Ids \ {p}, NEW r \in Started(p), NEW s \in Started(q),
               r.decision = s.decision
        PROVE  FALSE
    <3>1. PICK v \in Workers : gpc[v] = "authorized" /\ prop[v] = p /\ verdict[v].id = r.decision
      BY <2>2
    <3>2. PICK w \in Workers : gpc[w] = "authorized" /\ prop[w] = q /\ verdict[w].id = s.decision
      BY <2>2
    <3>. QED
      BY <2>3, <3>1, <3>2, OrchestratorAssumption DEF OrchInv, Below, GInv, Apart
  <2>. QED
    BY <2>1, <2>2, <2>3
<1>. QED
  BY <1>1, OrchInvariant, PTL

\* A caller is told "sent" or "failed" only of what both rows of the dispatch
\* record show, and "sent" only of a mail Gmail took: a completion that is lost
\* ends as outcome_unknown.
THEOREM OutcomesAreRecorded == OrchSpec => []CleanOutcomesAreRecorded
<1>1. OrchInv => CleanOutcomesAreRecorded
  BY DEF OrchInv, Told, ToldTruly, CleanOutcomesAreRecorded
<1>. QED
  BY <1>1, OrchInvariant, PTL

\* A caller that gives up leaves its approvals and its audit rows behind, and
\* the proposal as it was.
LEMMA StopLeaves ==
    ASSUME SendTypeInv, NEW w \in Workers, Stop(w),
           UNCHANGED <<storeVars, ledger, wire, delivered>>
    PROVE  /\ ApprovalInv => ApprovalInv'
           /\ AuditInv => AuditInv'
           /\ SendInv => SendInv'
<1>1. ASSUME NEW v \in Workers
      PROVE  \/ pc'[v] = "idle" /\ target'[v] = NoId
             \/ /\ pc'[v] = pc[v] /\ target'[v] = target[v]
                /\ actor'[v] = actor[v] /\ result'[v] = result[v]
  BY DEF Stop, SendTypeInv, SendTypeOK
<1>2. ApprovalInv => ApprovalInv'
  BY <1>1 DEF ApprovalInv, Approved, Dispatching
<1>3. AuditInv => AuditInv'
  <2>1. \A p \in Ids : InSender(p)' \subseteq InSender(p)
    BY <1>1 DEF InSender
  <2>. QED
    BY <2>1, AuditKept
<1>4. SendInv => SendInv'
  <2>. SUFFICES ASSUME SendInv
                PROVE  SendInv'
    OBVIOUS
  <2>1. Exclusive'
    BY <1>1 DEF SendInv, Exclusive, Past
  <2>2. ASSUME NEW v \in Workers, target'[v] # NoId
        PROVE  Holding(v, target[v])'
    BY <1>1, <2>2 DEF SendInv, Holding, storeVars
  <2>3. \A p \in Ids : Faithful(p)'
    BY DEF SendInv, Faithful, storeVars
  <2>. QED
    BY <2>1, <2>2, <2>3 DEF SendInv
<1>. QED
  BY <1>2, <1>3, <1>4

\* Behind the orchestrator the send machine keeps its word too: a certificate
\* does not replace the approval row or the audit row of a send (gate 7), and
\* SENT is stored only of a mail Gmail took, racing and dying callers included.
THEOREM SendsHoldBehindGate ==
    OrchSpec => [](SendsAreApprovedAndAudited /\ SentIsTrue)
<1>1. OrchInit => ApprovalInv /\ AuditInv
  BY InitInv DEF OrchInit
<1>2. OrchInv /\ ApprovalInv /\ AuditInv /\ [OrchNext]_allVars => ApprovalInv' /\ AuditInv'
  <2>. SUFFICES ASSUME OrchInv, ApprovalInv, AuditInv, [OrchNext]_allVars
                PROVE  ApprovalInv' /\ AuditInv'
    OBVIOUS
  <2>1. CASE SendNext(Ids)
    BY <2>1, ApprovalStep, AuditStep DEF OrchInv, Below
  <2>2. CASE \E w \in Workers : Stop(w) /\ UNCHANGED <<storeVars, ledger, wire, delivered>>
    BY <2>2, StopLeaves DEF OrchInv, Below
  <2>3. CASE UNCHANGED <<storeVars, sendVars>>
    BY <2>3, TickAudit DEF sendVars, ApprovalInv, Approved, OrchInv, Below
  <2>4. CASE Tick /\ UNCHANGED sendVars
    BY <2>4, TickStep, TickAudit DEF OrchInv, Below
  <2>. QED
    BY <2>1, <2>2, <2>3, <2>4, MachineShape DEF OrchInv
<1>3. OrchInv /\ ApprovalInv /\ AuditInv => SendsAreApprovedAndAudited /\ SentIsTrue
  BY ApprovedAndAudited DEF OrchInv, Below, SentInv
<1>. QED
  BY <1>1, <1>2, <1>3, OrchInvariant, PTL DEF OrchSpec

\* As long as no two callers of a proposal are between a check and its write,
\* authorize_and_send implements the machine that approves, mails and settles a
\* proposal once: its two calls, confirm and dispatch, with a dispatch record
\* written or refused between them, look like one from outside.
THEOREM AuthorizedSendsRefine ==
    ASSUME ~Overlap
    PROVE  OrchSpec => ImplementsOneMail
<1>1. OrchInit => SendInv /\ Mailing!Init
  <2>1. OrchInit => Init
    BY DEF OrchInit
  <2>2. Init => SendInv
    BY InitInv
  <2>3. Init => Mailing!Init
    BY MailingInit DEF Init
  <2>. QED
    BY <2>1, <2>2, <2>3
<1>2. OrchInv /\ SendInv /\ [OrchNext]_allVars => SendInv' /\ [Mailing!Next]_(Mailing!vars)
  <2>. SUFFICES ASSUME OrchInv, SendInv, [OrchNext]_allVars
                PROVE  SendInv' /\ [Mailing!Next]_(Mailing!vars)
    OBVIOUS
  <2>1. CASE SendNext(Ids)
    BY <2>1, SendInvStep, MailingStep DEF OrchInv, Below
  <2>2. CASE \E w \in Workers : Stop(w) /\ UNCHANGED <<storeVars, ledger, wire, delivered>>
    <3>1. SendInv'
      BY <2>2, StopLeaves DEF OrchInv, Below
    <3>. QED
      BY <2>2, <3>1 DEF storeVars, Mailing!vars
  <2>3. CASE UNCHANGED <<storeVars, sendVars>>
    BY <2>3 DEF storeVars, sendVars, Mailing!vars, SendInv, Exclusive, Past, Holding, Faithful
  <2>4. CASE Tick /\ UNCHANGED sendVars
    <3>1. SendInv'
      BY <2>4, TickStep DEF OrchInv, Below
    <3>. QED
      BY <2>4, <3>1 DEF Tick, sendVars, Mailing!vars
  <2>. QED
    BY <2>1, <2>2, <2>3, <2>4, MachineShape DEF OrchInv
<1>. QED
  BY <1>1, <1>2, OrchInvariant, PTL DEF OrchSpec, ImplementsOneMail, Mailing!Spec

\* Behind the orchestrator too, where callers also die in the middle of a call:
\* what is dispatched was admitted in one step.
THEOREM SendsAreAdmitted == OrchSpec => ImplementsAdmission
<1>1. OrchInit => Admitting!Init
  BY AdmissionInit DEF OrchInit
<1>2. OrchInv /\ [OrchNext]_allVars => [Admitting!Next]_(Admitting!vars)
  <2>. SUFFICES ASSUME OrchInv, [OrchNext]_allVars
                PROVE  [Admitting!Next]_(Admitting!vars)
    OBVIOUS
  <2>1. GateMove
    <3>1. CASE \E w \in Workers : Die(w)
      <4>1. PICK w \in Workers : Die(w)
        BY <3>1
      <4>2. gpc[w] # "new"
        BY <4>1 DEF OrchInv, Control, Controlled, Die, Below, GInv, GateTypeOK, OrchTypes
      <4>. QED
        BY <4>1, <4>2, OrchestratorAssumption DEF Die, GateMove
    <3>2. CASE ~\E w \in Workers : Die(w)
      <4>1. ASSUME NEW w \in Workers, NEW p \in Ids, NEW r \in Request, Begin(w, p, r)
            PROVE  Enter(w, r, DigestOf[p]) /\ DigestOf[p] \in Digests
        BY <4>1, OrchestratorAssumption DEF Begin
      <4>. QED
        BY <3>2, <4>1, OrchestratorAssumption
           DEF OrchNext, OrchStep, InGate, Refused, AwaitsApproval, Proceed, Confirming, Raised,
               RecordStarted, RecordUnavailable, Sending, Dispatched, RecordCompleted,
               CompletionLost, GateMove, allVars
    <3>. QED
      BY <3>1, <3>2
  <2>. QED
    BY <2>1, AdmissionStep DEF OrchInv, Below
<1>. QED
  BY <1>1, <1>2, OrchInvariant, PTL DEF OrchSpec, ImplementsAdmission, Admitting!Spec
=============================================================================
