--------------------------- MODULE ProposalStore ---------------------------
(***************************************************************************)
(* The durable state that proposal intake and the send path share: the     *)
(* proposals database (records and the idem:<key> index of                 *)
(* store/proposals.py), the content store of frozen payloads, and the      *)
(* clock both sides read.                                                  *)
(*                                                                         *)
(* A proposal record is kept by column.  status[p] = "absent" says that no *)
(* record is stored under the id p; keyOf[p] and expires[p] keep the other *)
(* two columns that control reads.  created_at and payload_digest decide   *)
(* nothing once a record exists, so they are left out.  Each key-value     *)
(* operation (get, put, claim, delete) commits on its own, so an action of *)
(* the modules that extend this one makes at most one of them.             *)
(***************************************************************************)
EXTENDS Integers

CONSTANTS
    Ids,        \* proposal ids (uuid4 in the code)
    Keys,       \* idempotency keys
    NoKey,      \* idempotency_key = None
    NoId,       \* "no proposal id": an empty index entry, an unset local
    TTL,        \* ttl_seconds of ProposalService
    MaxClock    \* bound on the clock, for model checking only

ASSUME StoreAssumption ==
    /\ NoKey \notin Keys
    /\ NoId \notin Ids
    /\ TTL \in Nat \ {0}
    /\ MaxClock \in Nat

VARIABLES
    status,     \* status[p]: ProposalStatus, or "absent"
    keyOf,      \* keyOf[p]: the record's idempotency_key
    expires,    \* expires[p]: the record's expires_at
    idem,       \* idem[k]: the id under "idem:" + k, or NoId
    payloads,   \* the ids whose canonical payload is frozen
    clock

storeVars == <<status, keyOf, expires, idem, payloads, clock>>

Terminal == {"sent", "failed", "outcome_unknown"}

ProposalStatus == {"pending", "confirmed"} \cup Terminal

StoreTypeOK ==
    /\ status \in [Ids -> ProposalStatus \cup {"absent"}]
    /\ keyOf \in [Ids -> Keys \cup {NoKey}]
    /\ expires \in [Ids -> Nat]
    /\ idem \in [Keys -> Ids \cup {NoId}]
    /\ payloads \in SUBSET Ids
    /\ clock \in Nat

\* ProposalStore.is_live: a settled proposal never expires.
IsLive(p, now) == status[p] \in Terminal \/ now < expires[p]

\* ProposalStore.set_status.  Its get and its put are two operations, but the
\* columns it writes back unread never change, so only the put matters.
SetStatus(p, s) ==
    /\ status[p] # "absent"
    /\ status' = [status EXCEPT ![p] = s]

\* time.time(), the clock every process of the machine reads.
Tick ==
    /\ clock < MaxClock
    /\ clock' = clock + 1
    /\ UNCHANGED <<status, keyOf, expires, idem, payloads>>
=============================================================================
