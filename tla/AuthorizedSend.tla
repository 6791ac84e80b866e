--------------------------- MODULE AuthorizedSend ---------------------------
(***************************************************************************)
(* authorize_and_send of authz/orchestrator.py: the gate in front of the   *)
(* send machine, with the two-phase dispatch record of                     *)
(* authz/dispatch_record.py around the send.  A caller of the orchestrator *)
(* is at once a call of the gate and a worker of the machine, and makes    *)
(* one call; its own control state is stage.                               *)
(***************************************************************************)
EXTENDS AuthzGate, SendFSM

CONSTANTS
    DigestOf        \* DigestOf[p]: payload_digest of proposal p

ASSUME OrchestratorAssumption ==
    /\ Workers = Calls
    /\ DigestOf \in [Ids -> Digests]

VARIABLES
    stage,      \* stage[w]: where authorize_and_send is
    prop,       \* prop[w]: its proposal_id
    held,       \* held[w]: the status of the proposal it fetched or was given
    outcome,    \* outcome[w]: public_code, or "raised"
    records     \* rows of the DispatchRecordLog

orchVars == <<stage, prop, held, outcome, records>>
allVars == <<storeVars, sendVars, gateVars, orchVars>>

Row == [phase : {"started", "completed"}, decision : DecisionIds, rid : RequestIds,
        p : Ids, digest : Digests]

Outcomes == Terminal \cup {"none", "denied", "pending_approval",
                           "record_unavailable", "raised"}

OrchTypeOK ==
    /\ StoreTypeOK /\ SendTypeOK /\ GateTypeOK
    /\ stage \in [Workers -> {"idle", "gate", "confirm", "start", "dispatch",
                              "complete", "done"}]
    /\ prop \in [Workers -> Ids \cup {NoId}]
    /\ held \in [Workers -> ProposalStatus \cup {"absent"}]
    /\ outcome \in [Workers -> Outcomes]
    /\ records \in SUBSET Row

OrchInit ==
    /\ Init /\ GateInit
    /\ stage = [w \in Workers |-> "idle"]
    /\ prop = [w \in Workers |-> NoId]
    /\ held = [w \in Workers |-> "absent"]
    /\ outcome = [w \in Workers |-> "none"]
    /\ records = {}

-----------------------------------------------------------------------------
Stage(w, here, there) ==
    /\ stage[w] = here
    /\ stage' = [stage EXCEPT ![w] = there]

Return(w, code) ==
    /\ outcome' = [outcome EXCEPT ![w] = code]
    /\ UNCHANGED <<prop, held>>

\* The proposal is fetched first, so that its digest is what the gate binds to.
Begin(w, p, r) ==
    /\ Stage(w, "idle", "gate")
    /\ status[p] # "absent"
    /\ prop' = [prop EXCEPT ![w] = p]
    /\ held' = [held EXCEPT ![w] = status[p]]
    /\ Enter(w, r, DigestOf[p])
    /\ UNCHANGED <<storeVars, sendVars, outcome, records>>

InGate(w) ==
    /\ stage[w] = "gate"
    /\ GateStep(w)
    /\ UNCHANGED <<storeVars, sendVars, orchVars>>

Refused(w) ==
    /\ Stage(w, "gate", "done")
    /\ gpc[w] = "denied"
    /\ Return(w, "denied")
    /\ UNCHANGED <<storeVars, sendVars, gateVars, records>>

AwaitsApproval(w) ==
    /\ Stage(w, "gate", "done")
    /\ gpc[w] = "authorized" /\ verdict[w].disposition = "needs_approval"
    /\ Return(w, "pending_approval")
    /\ UNCHANGED <<storeVars, sendVars, gateVars, records>>

\* A cert-authorized auto send confirms as Actor.HUMAN; its now is read here.
Proceed(w) ==
    /\ Stage(w, "gate", "confirm")
    /\ gpc[w] = "authorized" /\ verdict[w].disposition # "needs_approval"
    /\ Call(w, prop[w], "confirm_check")
    /\ UNCHANGED <<gateVars, prop, held, outcome, records>>

Confirming(w) ==
    /\ stage[w] = "confirm"
    /\ \/ ConfirmCheck(w, "human", "unknown") \/ ConfirmSet(w)
       \/ ConfirmLog(w)
    /\ stage' = IF pc[w] = "confirm_log" THEN [stage EXCEPT ![w] = "start"] ELSE stage
    /\ UNCHANGED <<gateVars, prop, held, outcome, records>>

\* confirm or dispatch raises out of the orchestrator.
Raised(w) ==
    /\ stage[w] \in {"confirm", "dispatch"}
    /\ ConfirmRefused(w, "human", "unknown") \/ DispatchRefused(w)
    /\ stage' = [stage EXCEPT ![w] = "done"]
    /\ Return(w, "raised")
    /\ UNCHANGED <<gateVars, records>>

DispatchRow(w, phase) ==
    [phase |-> phase, decision |-> verdict[w].id, rid |-> request[w].rid,
     p |-> prop[w], digest |-> DigestOf[prop[w]]]

\* Mutant: the started record is left to the completion.
StartUnrecorded(w) ==
    /\ Stage(w, "start", "dispatch")
    /\ UNCHANGED <<storeVars, sendVars, gateVars, prop, held, outcome, records>>

RecordStarted(w) ==
    /\ Stage(w, "start", "dispatch")
    /\ records' = records \cup {DispatchRow(w, "started")}
    /\ UNCHANGED <<storeVars, sendVars, gateVars, prop, held, outcome>>

RecordUnavailable(w) ==
    /\ Stage(w, "start", "done")
    /\ Stop(w)
    /\ Return(w, "record_unavailable")
    /\ UNCHANGED <<storeVars, ledger, wire, delivered, gateVars, records>>

Sending(w) ==
    /\ stage[w] = "dispatch"
    /\ \/ DispatchCheck(w) \/ AttemptLog(w) \/ Settle(w)
       \/ \E taken \in BOOLEAN : Post(w, taken)
       \/ \E s \in Terminal : SenderStops(w, s) \/ Respond(w, s)
    /\ UNCHANGED <<gateVars, orchVars>>

\* dispatch records the outcome and returns the status it settled.
Dispatched(w) ==
    /\ Stage(w, "dispatch", "complete")
    /\ SettleLog(w)
    /\ held' = [held EXCEPT ![w] = result[w]]
    /\ UNCHANGED <<gateVars, prop, outcome, records>>

RecordCompleted(w) ==
    /\ Stage(w, "complete", "done")
    /\ records' = records \cup {DispatchRow(w, "completed")}
    /\ Return(w, held[w])
    /\ UNCHANGED <<storeVars, sendVars, gateVars>>

\* Mutant: a lost completion record is ignored.
CompletionIgnored(w) ==
    /\ Stage(w, "complete", "done")
    /\ Return(w, held[w])
    /\ UNCHANGED <<storeVars, sendVars, gateVars, records>>

CompletionLost(w) ==
    /\ Stage(w, "complete", "done")
    /\ Return(w, "outcome_unknown")
    /\ UNCHANGED <<storeVars, sendVars, gateVars, records>>

\* The process dies, or a database call raises; a call of the gate that is
\* under way then ends with it and holds nothing any more.
Die(w) ==
    /\ w \in Mortal
    /\ stage[w] \notin {"idle", "done"}
    /\ stage' = [stage EXCEPT ![w] = "done"]
    /\ Stop(w)
    /\ Return(w, "raised")
    /\ IF gpc[w] \in Answered THEN UNCHANGED gateVars ELSE Deny(w)
    /\ UNCHANGED <<storeVars, ledger, wire, delivered, records>>

-----------------------------------------------------------------------------
OrchStep(w) ==
    \/ InGate(w) \/ Refused(w) \/ AwaitsApproval(w) \/ Proceed(w)
    \/ Confirming(w) \/ Raised(w) \/ RecordStarted(w) \/ RecordUnavailable(w)
    \/ Sending(w) \/ Dispatched(w) \/ RecordCompleted(w) \/ CompletionLost(w)

OrchNext ==
    \/ Tick /\ UNCHANGED <<sendVars, gateVars, orchVars>>
    \/ Operator /\ UNCHANGED <<storeVars, sendVars, orchVars>>
    \/ \E w \in Workers :
          \/ \E p \in Ids, r \in Request : Begin(w, p, r)
          \/ OrchStep(w)
          \/ Die(w)

OrchSpec == OrchInit /\ [][OrchNext]_allVars

-----------------------------------------------------------------------------
Started(p) == {r \in records : r.phase = "started" /\ r.p = p}

\* Every request to Gmail is covered by a started record of its own, whose
\* decision the gate spent on exactly one call, for this payload and under an
\* auto grant: "an unattributable send does not happen"
\* (authz/orchestrator.py:94-98), even when calls race on one proposal.
Attributed ==
    \A p \in Ids :
        /\ wire[p] <= Cardinality(Started(p))
        /\ \A r \in Started(p) : \E w \in Workers :
              /\ gpc[w] = "authorized" /\ IsAuto(w)
              /\ verdict[w].id = r.decision /\ r.decision \in spent
              /\ verdict[w].digest = DigestOf[p]
        /\ \A q \in Ids \ {p} : {r.decision : r \in Started(p)}
                                \cap {r.decision : r \in Started(q)} = {}

\* The caller is told "sent" only of a mail Gmail took and the records show
\* as completed; a lone started record never comes with a clean outcome.
CleanOutcomesAreRecorded ==
    \A w \in Workers : outcome[w] \in {"sent", "failed"} =>
        /\ DispatchRow(w, "started") \in records
        /\ DispatchRow(w, "completed") \in records
        /\ outcome[w] = "sent" => delivered[prop[w]] > 0
=============================================================================
