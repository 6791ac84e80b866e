----------------------------- MODULE AuthzGate -----------------------------
(***************************************************************************)
(* The authorization gate of authz/gate.py, called by several threads at a *)
(* time, between two parties it does not trust: the relay that delivers    *)
(* the signed state heads (it cannot forge one, but may withhold, replay   *)
(* and drop them) and the cloud service that signs decisions (which may    *)
(* sign whatever it likes, in the same name as often as it likes, or give  *)
(* no answer).                                                             *)
(*                                                                         *)
(* A head body is named by its state_version, which also stands for its    *)
(* digest.  Signatures, the validity window, scope and the subject proof   *)
(* are not modelled but for what the gate does about each: it may deny     *)
(* any request on their account.                                           *)
(***************************************************************************)
EXTENDS Integers, Sequences

CONSTANTS
    Calls,          \* calls of authorize
    RequestIds,     \* request_id values
    Grants,         \* grant_id values
    GrantVersions,  \* grant_version values
    NoVersion,      \* "not in active_grants"
    Digests,        \* payload digests
    None,           \* a local that is not set
    AutoGrants,     \* the <<grant, version>> whose approval_mode is auto
    DecisionIds,    \* decision_id values
    MaxHeads        \* bound on the heads the operator signs

ASSUME GateAssumption ==
    /\ NoVersion \notin GrantVersions
    /\ None \notin Digests
    /\ MaxHeads \in Nat \ {0}
    /\ AutoGrants \subseteq Grants \X GrantVersions

VARIABLES
    heads,      \* heads[v]: the head of state_version v and the revocations
    hw,         \* the HighWaterMark
    burned,     \* the request consumer's keys, <<grant_id, request_id>>
    spent,      \* the decision consumer's keys
    gpc,        \* gpc[c]: the next step of call c, or its answer
    request,    \* request[c]: the AuthorizationRequest
    expected,   \* expected[c]: expected_action_digest
    seen,       \* seen[c]: the state_version of the head c synced
    evidence,   \* evidence[c]: seen_revocations of that head
    verdict,    \* verdict[c]: the decision c was given
    floor       \* floor[c]: hw when c was called (history)

localVars == <<request, expected, seen, evidence, verdict, floor>>
gateVars == <<heads, hw, burned, spent, gpc, localVars>>

\* Of the payload digest a request claims, nothing but its subject proof knows.
Request == [rid : RequestIds, grant : Grants, gver : GrantVersions]

\* What a decision may claim, of a head (by its version) too.
Decision == [id : DecisionIds, rid : RequestIds, grant : Grants, gver : GrantVersions,
             digest : Digests, version : 1 .. MaxHeads,
             disposition : {"authorized", "needs_approval"}]

StateHead == [active : [Grants -> GrantVersions \cup {NoVersion}], revoked : SUBSET Grants]

Answered == {"denied", "authorized"}

GateSteps == {"new", "sync", "hw_get", "hw_raise", "local", "burn", "cloud",
              "spend", "record"} \cup Answered

\* The version a call has accepted is meaningful from this point on.
Accepted == {"local", "burn", "cloud", "spend", "record", "authorized"}

\* The call has consumed its request.
Burning == {"cloud", "spend", "record", "authorized"}

GateTypeOK ==
    /\ heads \in Seq(StateHead) /\ heads # <<>>
    /\ hw \in Nat
    /\ burned \in SUBSET (Grants \X RequestIds)
    /\ spent \in SUBSET DecisionIds
    /\ gpc \in [Calls -> GateSteps]
    /\ request \in [Calls -> Request \cup {None}]
    /\ expected \in [Calls -> Digests \cup {None}]
    /\ seen \in [Calls -> Nat]
    /\ evidence \in [Calls -> SUBSET Grants]
    /\ verdict \in [Calls -> Decision \cup {None}]
    /\ floor \in [Calls -> Nat]

GateInit ==
    /\ \E a \in [Grants -> GrantVersions \cup {NoVersion}] :
          heads = <<[active |-> a, revoked |-> {}]>>
    /\ hw = 0
    /\ burned = {} /\ spent = {}
    /\ gpc = [c \in Calls |-> "new"]
    /\ request = [c \in Calls |-> None]
    /\ expected = [c \in Calls |-> None]
    /\ seen = [c \in Calls |-> 0]
    /\ evidence = [c \in Calls |-> {}]
    /\ verdict = [c \in Calls |-> None]
    /\ floor = [c \in Calls |-> 0]

-----------------------------------------------------------------------------
(* HeadState: the operator's control plane, one new head per change. *)
Current == heads[Len(heads)]

Publish(active, revoked) ==
    /\ Len(heads) < MaxHeads
    /\ heads' = Append(heads, [active |-> active, revoked |-> revoked])
    /\ UNCHANGED <<hw, burned, spent, gpc, localVars>>

Revoke(g) ==
    Publish([Current.active EXCEPT ![g] = NoVersion], Current.revoked \cup {g})

Supersede(g, v) == Publish([Current.active EXCEPT ![g] = v], Current.revoked)

Grant(g, v) == Publish([Current.active EXCEPT ![g] = v], Current.revoked \ {g})

\* The revocation artifacts that exist: whatever was ever signed.
Revocations == UNION {heads[v].revoked : v \in DOMAIN heads}

-----------------------------------------------------------------------------
At(c, here, there) ==
    /\ gpc[c] = here
    /\ gpc' = [gpc EXCEPT ![c] = there]

\* _deny: the audit row and the coarse AuthorizationDenied; nothing the call
\* held survives it.
Deny(c) ==
    /\ gpc' = [gpc EXCEPT ![c] = "denied"]
    /\ request' = [request EXCEPT ![c] = None]
    /\ expected' = [expected EXCEPT ![c] = None]
    /\ seen' = [seen EXCEPT ![c] = 0]
    /\ evidence' = [evidence EXCEPT ![c] = {}]
    /\ verdict' = [verdict EXCEPT ![c] = None]
    /\ floor' = [floor EXCEPT ![c] = 0]
    /\ UNCHANGED <<heads, hw, burned, spent>>

Enter(c, r, d) ==
    /\ At(c, "new", "sync")
    /\ request' = [request EXCEPT ![c] = r]
    /\ expected' = [expected EXCEPT ![c] = d]
    /\ floor' = [floor EXCEPT ![c] = hw]
    /\ UNCHANGED <<heads, hw, burned, spent, seen, evidence, verdict>>

\* sync: the relay answers with some signed head and some of the artifacts.
Sync(c, v, revoked) ==
    /\ At(c, "sync", "hw_get")
    /\ v \in DOMAIN heads
    /\ revoked \subseteq Revocations
    /\ seen' = [seen EXCEPT ![c] = v]
    /\ evidence' = [evidence EXCEPT ![c] = revoked]
    /\ UNCHANGED <<heads, hw, burned, spent, request, expected, verdict, floor>>

\* The relay does not answer, or what it delivers does not verify.
SyncFails(c) == gpc[c] = "sync" /\ Deny(c)

\* Mutant: the mark is not compared.
AcceptAnyHead(c) ==
    /\ At(c, "hw_get", "hw_raise")
    /\ UNCHANGED <<heads, hw, burned, spent, localVars>>

\* The mark is read and raised under its lock, but in two calls.
CheckHighWater(c) ==
    /\ At(c, "hw_get", "hw_raise")
    /\ seen[c] >= hw
    /\ UNCHANGED <<heads, hw, burned, spent, localVars>>

VersionRegress(c) == gpc[c] = "hw_get" /\ seen[c] < hw /\ Deny(c)

\* Mutant: the mark is set, not raised.
SetHighWater(c) ==
    /\ At(c, "hw_raise", "local")
    /\ hw' = seen[c]
    /\ UNCHANGED <<heads, burned, spent, localVars>>

RaiseHighWater(c) ==
    /\ At(c, "hw_raise", "local")
    /\ hw' = IF seen[c] > hw THEN seen[c] ELSE hw
    /\ UNCHANGED <<heads, burned, spent, localVars>>

\* VerifiedHead.membership is ACTIVE.
IsMember(c) ==
    /\ request[c].grant \notin evidence[c]
    /\ heads[seen[c]].active[request[c].grant] = request[c].gver

LocalDecisions(c) ==
    /\ At(c, "local", "burn")
    /\ IsMember(c)
    /\ UNCHANGED <<heads, hw, burned, spent, localVars>>

\* The grant is not a member, or the request's signature, scope, window or
\* subject proof does not hold, which may be so of any request.
LocalDenial(c) == gpc[c] = "local" /\ Deny(c)

RequestKey(c) == <<request[c].grant, request[c].rid>>

\* Mutant: the request is noted, but its reuse is not refused.
BurnAgain(c) ==
    /\ At(c, "burn", "cloud")
    /\ burned' = burned \cup {RequestKey(c)}
    /\ UNCHANGED <<heads, hw, spent, localVars>>

BurnRequest(c) ==
    /\ At(c, "burn", "cloud")
    /\ RequestKey(c) \notin burned
    /\ burned' = burned \cup {RequestKey(c)}
    /\ UNCHANGED <<heads, hw, spent, localVars>>

RequestReplayed(c) == gpc[c] = "burn" /\ RequestKey(c) \in burned /\ Deny(c)

-----------------------------------------------------------------------------
\* permits_auto of the grant that the gate verified.
IsAuto(c) == <<request[c].grant, request[c].gver>> \in AutoGrants

Disposition(c) == IF IsAuto(c) THEN "authorized" ELSE "needs_approval"

\* Mutant: action_digest has no check in the policy map.
BoundButDigest(c, d) ==
    /\ d.rid = request[c].rid
    /\ d.version = seen[c]
    /\ d.grant = request[c].grant
    /\ d.gver = request[c].gver
    /\ d.disposition = Disposition(c)

\* check_binding against _expected_binding; approval_mode and subject_kind, which
\* nothing reads once they are compared, are left to DecideFails.
Bound(c, d) ==
    /\ d.rid = request[c].rid
    /\ d.digest = expected[c]
    /\ d.version = seen[c]
    /\ d.grant = request[c].grant
    /\ d.gver = request[c].gver
    /\ d.disposition = Disposition(c)

\* The cloud's signature vouches for nothing the decision says: it may be of any
\* request, payload, head or grant, and its id one that was used before.  Between
\* the answer and the consumption of its id c looks at locals only, so it is
\* checked as it arrives.
Decide(c) ==
    /\ At(c, "cloud", "spend")
    /\ \E d \in Decision :
          /\ Bound(c, d)
          /\ verdict' = [verdict EXCEPT ![c] = d]
    /\ UNCHANGED <<heads, hw, burned, spent, request, expected, seen, evidence, floor>>

\* The cloud is unreachable or raises, or its answer has a bad signature, a field
\* that is not Bound, decided_at out of its window, or is too late.
DecideFails(c) == gpc[c] = "cloud" /\ Deny(c)

\* Mutant: the decision is noted, but its reuse is not refused.
SpendAgain(c) ==
    /\ At(c, "spend", "record")
    /\ spent' = spent \cup {verdict[c].id}
    /\ UNCHANGED <<heads, hw, burned, localVars>>

SpendDecision(c) ==
    /\ At(c, "spend", "record")
    /\ verdict[c].id \notin spent
    /\ spent' = spent \cup {verdict[c].id}
    /\ UNCHANGED <<heads, hw, burned, localVars>>

DecisionReused(c) == gpc[c] = "spend" /\ verdict[c].id \in spent /\ Deny(c)

Authorize(c) ==
    /\ At(c, "record", "authorized")
    /\ UNCHANGED <<heads, hw, burned, spent, localVars>>

\* The mark or a consumer cannot be read or written.
StateUnavailable(c) ==
    /\ gpc[c] \in {"hw_get", "hw_raise", "burn", "spend"}
    /\ Deny(c)

-----------------------------------------------------------------------------
Operator ==
    \E g \in Grants :
        \/ Revoke(g)
        \/ \E v \in GrantVersions : Supersede(g, v) \/ Grant(g, v)

GateStep(c) ==
    \/ \E v \in DOMAIN heads, r \in SUBSET Revocations : Sync(c, v, r)
    \/ SyncFails(c) \/ CheckHighWater(c) \/ VersionRegress(c) \/ RaiseHighWater(c)
    \/ LocalDecisions(c) \/ LocalDenial(c) \/ BurnRequest(c) \/ RequestReplayed(c)
    \/ Decide(c) \/ DecideFails(c)
    \/ SpendDecision(c) \/ DecisionReused(c) \/ Authorize(c) \/ StateUnavailable(c)

GateNext ==
    \/ Operator
    \/ \E c \in Calls :
          (\E r \in Request, d \in Digests : Enter(c, r, d)) \/ GateStep(c)

GateSpec == GateInit /\ [][GateNext]_gateVars

-----------------------------------------------------------------------------
\* A request and a decision each authorize at most once, however calls
\* interleave, and although the cloud may answer two requests in the name of one
\* decision ("consumed single-use", authz/gate.py:25-27 and 36).
SingleUse ==
    \A b, c \in Calls : b # c /\ gpc[b] = "authorized" /\ gpc[c] = "authorized" =>
        RequestKey(b) # RequestKey(c) /\ verdict[b].id # verdict[c].id

\* An authorized call had its grant version in a head no older than any head
\* accepted before the call began, so a relay that replays heads cannot bring
\* a revoked or superseded grant back (the membership test and the mark).
NoRollback ==
    \A c \in Calls : gpc[c] = "authorized" =>
        \E v \in DOMAIN heads :
            v >= floor[c] /\ heads[v].active[request[c].grant] = request[c].gver

\* The decision that authorizes a call is for that request, for the payload about
\* to be sent, under the very head the gate accepted and of the grant's own
\* approval mode (check_binding), although the cloud may swap any field of it.
DecisionFits ==
    \A c \in Calls : gpc[c] = "authorized" =>
        /\ verdict[c].digest = expected[c]
        /\ verdict[c].rid = request[c].rid
        /\ heads[verdict[c].version].active[verdict[c].grant] = request[c].gver
        /\ verdict[c].disposition = "authorized" => IsAuto(c)

\* The mark covers every head a call went on with, and is a version that was
\* really signed, so a relay cannot drive it past the operator.
HighWaterCovers ==
    /\ hw <= Len(heads)
    /\ \A c \in Calls : gpc[c] \in Accepted => seen[c] <= hw

\* A head below the highest already accepted is refused: "a synced
\* state_version below the highest already accepted is denied_version_regress"
\* (authz/gate.py:11-12).
AcceptsHighest ==
    [][\A c \in Calls : gpc[c] = "hw_raise" /\ gpc'[c] = "local" => seen[c] >= hw]_gateVars

\* What is seen from outside of the calls.
SeenState ==
    [c \in Calls |-> CASE gpc[c] \in {"new", "denied"} -> gpc[c]
                       [] gpc[c] = "authorized" -> "admitted"
                       [] OTHER -> "asked"]

SeenAsk ==
    [c \in Calls |->
        IF gpc[c] \in {"new", "denied"} THEN None
        ELSE [request |-> request[c], digest |-> expected[c], since |-> floor[c]]]

SeenWarrant == [c \in Calls |-> IF gpc[c] = "authorized" THEN verdict[c] ELSE None]

\* authorize is nine steps, made against heads, a mark and consumers that move on
\* between them (authz/gate.py:170-290); seen from outside it is one, in which
\* all that they checked holds together.
Admitting == INSTANCE Admission WITH
    Requests <- Request, Heads <- StateHead, Decisions <- Decision, Auto <- AutoGrants,
    published <- heads, mark <- hw,
    state <- SeenState, asked <- SeenAsk, warrant <- SeenWarrant

ImplementsAdmission == Admitting!Spec
=============================================================================
