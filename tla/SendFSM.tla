------------------------------ MODULE SendFSM ------------------------------
(***************************************************************************)
(* The send state machine of sendfsm/fsm.py driven by the callers of       *)
(* gateway/send_path.py: `gmail-gateway send` processes, the confirm route *)
(* of the proposal server and the orchestrator each run confirm and then   *)
(* dispatch; expire is the third entry point.  The machine holds no lock:  *)
(* every check and every write is a database operation of its own, and     *)
(* another caller, a crash or a failing database may come in between.      *)
(***************************************************************************)
EXTENDS ProposalStore, FiniteSets

CONSTANTS
    Workers,    \* callers: processes or server threads
    AutoSend,   \* the switch mode is AUTO_SEND_WHEN_AGENT_UNREACHABLE
    Overlap,    \* whether two callers of one proposal may be between a check of its
                \* status and the write that relies on it
    Mortal      \* the callers that may die or lose their databases

ASSUME SendAssumption ==
    /\ {AutoSend, Overlap} \subseteq BOOLEAN
    /\ Mortal \subseteq Workers
    /\ IsFiniteSet(Workers)

VARIABLES
    pc,         \* pc[w]: the next step of w
    target,     \* target[w]: the proposal w was called for
    nowOf,      \* nowOf[w]: the clock value w's call was made with
    actor,      \* actor[w]: who approved the send w is making
    result,     \* result[w]: what w knows, or will learn, of its send
    ledger,     \* ledger[p][e]: audit rows of type e about p
    wire,       \* wire[p]: requests Gmail was sent for p
    delivered   \* delivered[p]: how many of those Gmail accepted

workerVars == <<pc, target, nowOf, actor, result>>
sendVars == <<pc, target, nowOf, actor, result, ledger, wire, delivered>>

Actor == {"human", "auto_unreachable"}

\* AuditEventType; a PROPOSAL_CONFIRMED row is known by its actor, and a row
\* about the end of a send by the status it reports.
Events == Actor \cup Terminal \cup {"proposal_expired", "send_attempted"}

Dispatching == {"dispatch_check", "attempt_log", "sender", "await",
                "settle", "settle_log"}

Steps == {"idle", "confirm_check", "confirm_set", "confirm_log",
          "expire_check", "expire_set", "expire_log"} \cup Dispatching

SendTypeOK ==
    /\ pc \in [Workers -> Steps]
    /\ target \in [Workers -> Ids \cup {NoId}]
    /\ nowOf \in [Workers -> Nat]
    /\ actor \in [Workers -> Actor]
    /\ result \in [Workers -> Terminal \cup {"none", "taken", "lost"}]
    /\ ledger \in [Ids -> [Events -> Nat]]
    /\ wire \in [Ids -> Nat]
    /\ delivered \in [Ids -> Nat]

SendInit ==
    /\ pc = [w \in Workers |-> "idle"]
    /\ target = [w \in Workers |-> NoId]
    /\ nowOf = [w \in Workers |-> 0]
    /\ actor = [w \in Workers |-> "human"]
    /\ result = [w \in Workers |-> "none"]
    /\ ledger = [p \in Ids |-> [e \in Events |-> 0]]
    /\ wire = [p \in Ids |-> 0]
    /\ delivered = [p \in Ids |-> 0]

-----------------------------------------------------------------------------
Goto(w, here, there) ==
    /\ pc[w] = here
    /\ pc' = [pc EXCEPT ![w] = there]

Stop(w) ==
    /\ pc' = [pc EXCEPT ![w] = "idle"]
    /\ target' = [target EXCEPT ![w] = NoId]
    /\ nowOf' = [nowOf EXCEPT ![w] = 0]
    /\ actor' = [actor EXCEPT ![w] = "human"]
    /\ result' = [result EXCEPT ![w] = "none"]

\* AuditLedger.record: the append of one row.
Record(p, e) == ledger' = [ledger EXCEPT ![p][e] = @ + 1]

\* A caller reads the clock and calls confirm and dispatch, or expire.
Call(w, p, entry) ==
    /\ Goto(w, "idle", entry)
    /\ target' = [target EXCEPT ![w] = p]
    /\ nowOf' = [nowOf EXCEPT ![w] = clock]
    /\ UNCHANGED <<storeVars, actor, result, ledger, wire, delivered>>

\* Mutant: confirm checks expiry and actor only.
ApprovableIfLive(p, now, a, reachable) ==
    /\ status[p] # "absent"
    /\ IsLive(p, now)
    /\ a = "human" \/ (AutoSend /\ reachable = "no")

\* confirm's conditions: a live PENDING proposal, approved by a human, or by
\* the auto-send path if the switch allows it and the agent (whose state is
\* "yes", "no" or "unknown") is definitely unreachable.
Approvable(p, now, a, reachable) ==
    /\ status[p] = "pending"
    /\ IsLive(p, now)
    /\ a = "human" \/ (AutoSend /\ reachable = "no")

\* No caller is about to write a status it has checked.
NoneInBetween(p) == \A v \in Workers : target[v] = p => pc[v] \notin {"confirm_set", "expire_set"}

ConfirmCheck(w, a, reachable) ==
    /\ Goto(w, "confirm_check", "confirm_set")
    /\ Overlap \/ NoneInBetween(target[w])
    /\ Approvable(target[w], nowOf[w], a, reachable)
    /\ actor' = [actor EXCEPT ![w] = a]
    /\ UNCHANGED <<storeVars, target, nowOf, result, ledger, wire, delivered>>

\* confirm raises (not found, expired, illegal transition, auto-send refused)
\* and the caller gives up.
ConfirmRefused(w, a, reachable) ==
    /\ pc[w] = "confirm_check"
    /\ ~Approvable(target[w], nowOf[w], a, reachable)
    /\ Stop(w)
    /\ UNCHANGED <<storeVars, ledger, wire, delivered>>

ConfirmSet(w) ==
    /\ Goto(w, "confirm_set", "confirm_log")
    /\ SetStatus(target[w], "confirmed")
    /\ UNCHANGED <<keyOf, expires, idem, payloads, clock,
                   target, nowOf, actor, result, ledger, wire, delivered>>

\* Mutant: an approval by the auto-send path is not recorded.
ConfirmLogHuman(w) ==
    /\ Goto(w, "confirm_log", "dispatch_check")
    /\ IF actor[w] = "human" THEN Record(target[w], "human") ELSE UNCHANGED ledger
    /\ UNCHANGED <<storeVars, target, nowOf, actor, result, wire, delivered>>

\* PROPOSAL_CONFIRMED is recorded and confirm_and_dispatch goes on to dispatch.
ConfirmLog(w) ==
    /\ Goto(w, "confirm_log", "dispatch_check")
    /\ Record(target[w], actor[w])
    /\ UNCHANGED <<storeVars, target, nowOf, actor, result, wire, delivered>>

DispatchCheck(w) ==
    /\ Goto(w, "dispatch_check", "attempt_log")
    /\ status[target[w]] = "confirmed"
    /\ UNCHANGED <<storeVars, target, nowOf, actor, result, ledger, wire, delivered>>

\* dispatch raises NoAutoRetry, AlreadySettled or IllegalTransition.
DispatchRefused(w) ==
    /\ pc[w] = "dispatch_check"
    /\ status[target[w]] # "confirmed"
    /\ Stop(w)
    /\ UNCHANGED <<storeVars, ledger, wire, delivered>>

AttemptLog(w) ==
    /\ Goto(w, "attempt_log", "sender")
    /\ Record(target[w], "send_attempted")
    /\ UNCHANGED <<storeVars, target, nowOf, actor, result, wire, delivered>>

-----------------------------------------------------------------------------
\* GmailSender gives up before Gmail is contacted: the policy, the token
\* refresh or the egress allow-list refuses (REJECTED), or the payload is gone
\* or a key cannot be read, which raises (so the outcome counts as unknown).
SenderStops(w, s) ==
    /\ Goto(w, "sender", "settle")
    /\ s \in IF target[w] \in payloads THEN {"failed", "outcome_unknown"}
             ELSE {"outcome_unknown"}
    /\ result' = [result EXCEPT ![w] = s]
    /\ UNCHANGED <<storeVars, target, nowOf, actor, ledger, wire, delivered>>

\* The request leaves for Gmail, which takes the message or does not.
Post(w, taken) ==
    /\ Goto(w, "sender", "await")
    /\ target[w] \in payloads
    /\ wire' = [wire EXCEPT ![target[w]] = @ + 1]
    /\ delivered' = IF taken THEN [delivered EXCEPT ![target[w]] = @ + 1] ELSE delivered
    /\ result' = [result EXCEPT ![w] = IF taken THEN "taken" ELSE "lost"]
    /\ UNCHANGED <<storeVars, target, nowOf, actor, ledger>>

\* Mutant: a timeout is taken for a rejection.
ClassifiedTimeout(w) ==
    {"failed", IF result[w] = "taken" THEN "sent" ELSE "failed"}

\* Mutant: any answer is taken for acceptance.
ClassifiedOptimistic(w) == {"outcome_unknown", "sent"}

\* GmailSender._classify: 2xx is ACCEPTED, 4xx REJECTED; a timeout, a transport
\* error, 5xx and 3xx say nothing of what Gmail did.
Classified(w) ==
    {"outcome_unknown", IF result[w] = "taken" THEN "sent" ELSE "failed"}

Respond(w, s) ==
    /\ Goto(w, "await", "settle")
    /\ s \in Classified(w)
    /\ result' = [result EXCEPT ![w] = s]
    /\ UNCHANGED <<storeVars, target, nowOf, actor, ledger, wire, delivered>>

\* Mutant: an unknown outcome is logged but not stored.
SettleKnown(w) ==
    /\ Goto(w, "settle", "settle_log")
    /\ IF result[w] = "outcome_unknown" THEN UNCHANGED status
       ELSE SetStatus(target[w], result[w])
    /\ UNCHANGED <<keyOf, expires, idem, payloads, clock,
                   target, nowOf, actor, result, ledger, wire, delivered>>

Settle(w) ==
    /\ Goto(w, "settle", "settle_log")
    /\ SetStatus(target[w], result[w])
    /\ UNCHANGED <<keyOf, expires, idem, payloads, clock,
                   target, nowOf, actor, result, ledger, wire, delivered>>

SettleLog(w) ==
    /\ pc[w] = "settle_log"
    /\ Record(target[w], result[w])
    /\ Stop(w)
    /\ UNCHANGED <<storeVars, wire, delivered>>

-----------------------------------------------------------------------------
\* Mutant: expire does not ask for PENDING.
OverdueAnyStatus(w) == status[target[w]] # "absent" /\ nowOf[w] >= expires[target[w]]

Overdue(w) == status[target[w]] = "pending" /\ nowOf[w] >= expires[target[w]]

ExpireCheck(w) ==
    /\ Goto(w, "expire_check", "expire_set")
    /\ Overlap \/ NoneInBetween(target[w])
    /\ Overdue(w)
    /\ UNCHANGED <<storeVars, target, nowOf, actor, result, ledger, wire, delivered>>

ExpireRefused(w) ==
    /\ pc[w] = "expire_check"
    /\ ~Overdue(w)
    /\ Stop(w)
    /\ UNCHANGED <<storeVars, ledger, wire, delivered>>

ExpireSet(w) ==
    /\ Goto(w, "expire_set", "expire_log")
    /\ SetStatus(target[w], "failed")
    /\ UNCHANGED <<keyOf, expires, idem, payloads, clock,
                   target, nowOf, actor, result, ledger, wire, delivered>>

ExpireLog(w) ==
    /\ pc[w] = "expire_log"
    /\ Record(target[w], "proposal_expired")
    /\ Stop(w)
    /\ UNCHANGED <<storeVars, wire, delivered>>

\* The process dies, or a database call raises out of the machine.
Crash(w) ==
    /\ w \in Mortal
    /\ pc[w] # "idle"
    /\ Stop(w)
    /\ UNCHANGED <<storeVars, ledger, wire, delivered>>

\* What a caller that was called does until its call returns.
Advance(w) ==
    \/ \E a \in Actor, r \in {"yes", "no", "unknown"} :
            ConfirmCheck(w, a, r) \/ ConfirmRefused(w, a, r)
    \/ ConfirmSet(w) \/ ConfirmLog(w) \/ DispatchCheck(w) \/ DispatchRefused(w)
    \/ AttemptLog(w)
    \/ \E taken \in BOOLEAN : Post(w, taken)
    \/ \E s \in Terminal : SenderStops(w, s) \/ Respond(w, s)
    \/ Settle(w) \/ SettleLog(w)
    \/ ExpireCheck(w) \/ ExpireRefused(w) \/ ExpireSet(w) \/ ExpireLog(w)

\* Callable is the set of proposals somebody may name in a call.
SendNext(Callable) ==
    \E w \in Workers :
        \/ \E p \in Callable, entry \in {"confirm_check", "expire_check"} : Call(w, p, entry)
        \/ Advance(w)
        \/ Crash(w)

-----------------------------------------------------------------------------
(* The machine on its own: proposals of one age, some of them stored. *)
Init ==
    /\ status \in [Ids -> {"absent", "pending"}]
    /\ keyOf = [p \in Ids |-> NoKey]
    /\ expires = [p \in Ids |-> TTL]
    /\ idem = [k \in Keys |-> NoId]
    /\ payloads \in SUBSET {p \in Ids : status[p] = "pending"}
    /\ clock = 0
    /\ SendInit

vars == <<storeVars, sendVars>>

Next == SendNext(Ids) \/ (Tick /\ UNCHANGED sendVars)

\* A caller that is not killed keeps running.
Fairness == \A w \in Workers : WF_vars(Advance(w))

Spec == Init /\ [][Next]_vars /\ Fairness

-----------------------------------------------------------------------------
TypeOK == StoreTypeOK /\ SendTypeOK

\* Gmail is never contacted for a proposal without an approval of it and one
\* SEND_ATTEMPTED row per request in the ledger, in whatever order callers
\* interleave and die; with the switch at confirm-then-send the approval is a
\* human's (gate 7, and the record calls of dispatch ahead of the sender).
SendsAreApprovedAndAudited ==
    \A p \in Ids : wire[p] > 0 =>
        /\ wire[p] <= ledger[p]["send_attempted"]
        /\ ledger[p]["human"] > 0 \/ (AutoSend /\ ledger[p]["auto_unreachable"] > 0)

\* One proposal makes at most one request to Gmail: confirm_and_dispatch
\* "fails closed here, never a second send" (gateway/send_path.py:160-163).
AtMostOneSend == \A p \in Ids : wire[p] <= 1

\* A stored outcome is the real one: SENT was taken by Gmail, and neither a
\* FAILED nor a PENDING proposal was (dispatch's three settling branches).
OutcomesAreTrue ==
    \A p \in Ids :
        /\ status[p] = "sent" => delivered[p] > 0
        /\ status[p] \in {"failed", "pending"} => delivered[p] = 0

\* SENT is never reported for a message Gmail did not take, even when callers
\* overlap and overwrite each other's statuses.
SentIsTrue == \A p \in Ids : status[p] = "sent" => delivered[p] > 0

\* The ledger never gets ahead of the store: an outcome or expiry row implies
\* that status, and an expired proposal was never put on the wire.
LedgerAgrees ==
    \A p \in Ids :
        /\ \A s \in Terminal : ledger[p][s] > 0 => status[p] = s
        /\ ledger[p]["proposal_expired"] > 0 => status[p] = "failed" /\ wire[p] = 0

\* A settled proposal stays as it settled ("OUTCOME_UNKNOWN => no auto-retry",
\* and the settled states of store/proposals.py:38-41 never change).
SettledForGood ==
    [][\A p \in Ids : status[p] \in Terminal => status'[p] = status[p]]_vars

\* Seen from outside (the status, and what Gmail was asked and did) the callers
\* of a proposal are one: however they interleave, repeat and die, what becomes
\* visible is one approval, one mail and one true and final outcome (the
\* transitions sendfsm/fsm.py:3-4 draws), if no two of them are between a check
\* and its write.
Mailing == INSTANCE OneMail WITH standing <- status, posted <- wire, taken <- delivered

ImplementsOneMail == Mailing!Spec

\* A caller that has an approved proposal in dispatch, ahead of its settling
\* write, and is not killed carries it to a terminal status, whatever other
\* callers do to it and wherever they die (confirm_and_dispatch; the settling
\* branches of dispatch).
ApprovedSettles ==
    \A p \in Ids, w \in Workers \ Mortal :
        (status[p] = "confirmed" /\ target[w] = p /\ pc[w] \in Dispatching \ {"settle_log"})
            ~> status[p] \in Terminal
=============================================================================
