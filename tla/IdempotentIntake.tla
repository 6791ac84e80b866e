-------------------------- MODULE IdempotentIntake --------------------------
(***************************************************************************)
(* What proposal intake promises: an idempotency key is bound to one       *)
(* proposal, once and for ever, and every answer for that key names it.    *)
(* A request without a key gets a proposal of its own.                     *)
(***************************************************************************)
CONSTANTS Ids, Keys, NoKey, NoId

VARIABLES
    owner,      \* owner[k]: the proposal bound to key k, or NoId
    answers     \* every <<key, id>> handed back to a caller

vars == <<owner, answers>>

Init ==
    /\ owner = [k \in Keys |-> NoId]
    /\ answers = {}

\* An id is given to one requester only.
Fresh(p) ==
    /\ \A k \in Keys : owner[k] # p
    /\ \A a \in answers : a[2] # p

Bind(k, p) ==
    /\ owner[k] = NoId
    /\ Fresh(p)
    /\ owner' = [owner EXCEPT ![k] = p]
    /\ UNCHANGED answers

AnswerKey(k) ==
    /\ owner[k] # NoId
    /\ answers' = answers \cup {<<k, owner[k]>>}
    /\ UNCHANGED owner

AnswerKeyless(p) ==
    /\ Fresh(p)
    /\ answers' = answers \cup {<<NoKey, p>>}
    /\ UNCHANGED owner

Next ==
    \/ \E k \in Keys : AnswerKey(k) \/ \E p \in Ids : Bind(k, p)
    \/ \E p \in Ids : AnswerKeyless(p)

Spec == Init /\ [][Next]_vars
=============================================================================
