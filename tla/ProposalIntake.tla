--------------------------- MODULE ProposalIntake ---------------------------
(***************************************************************************)
(* ProposalService.propose over ProposalStore.create: how a request with   *)
(* an idempotency key becomes exactly one proposal although many server    *)
(* threads (and the seed_proposal process) handle requests for that key at *)
(* once and any of them may die between two database commits.              *)
(***************************************************************************)
EXTENDS ProposalStore

CONSTANTS
    Threads     \* request handlers: server threads and seed processes

VARIABLES
    tpc,        \* tpc[t]: the next step of t
    tkey,       \* tkey[t]: the idempotency key of t's request
    tid,        \* tid[t]: the id t minted, or the id its lookup found
    texp,       \* texp[t]: the expires_at of the proposal t is creating
    minted,     \* every id uuid4 has returned (it never returns one twice)
    answers,    \* every <<key, id>> handed back to a caller
    abandoned   \* ids whose handler died before it answered

intakeVars == <<tpc, tkey, tid, texp, minted, answers, abandoned>>

\* The control points at which the thread owns the id it minted.
Owning == {"freeze", "write", "claim", "reply", "rollback", "drop"}

IntakeTypeOK ==
    /\ tpc \in [Threads -> {"idle", "lookup", "fetch", "mint", "relookup"} \cup Owning]
    /\ tkey \in [Threads -> Keys \cup {NoKey}]
    /\ tid \in [Threads -> Ids \cup {NoId}]
    /\ texp \in [Threads -> Nat]
    /\ minted \in SUBSET Ids
    /\ answers \in SUBSET ((Keys \cup {NoKey}) \X Ids)
    /\ abandoned \in SUBSET Ids

IntakeInit ==
    /\ tpc = [t \in Threads |-> "idle"]
    /\ tkey = [t \in Threads |-> NoKey]
    /\ tid = [t \in Threads |-> NoId]
    /\ texp = [t \in Threads |-> 0]
    /\ minted = {}
    /\ answers = {}
    /\ abandoned = {}

StoreInit ==
    /\ status = [p \in Ids |-> "absent"]
    /\ keyOf = [p \in Ids |-> NoKey]
    /\ expires = [p \in Ids |-> 0]
    /\ idem = [k \in Keys |-> NoId]
    /\ payloads = {}
    /\ clock = 0

-----------------------------------------------------------------------------
Finish(t) ==
    /\ tpc' = [tpc EXCEPT ![t] = "idle"]
    /\ tid' = [tid EXCEPT ![t] = NoId]
    /\ tkey' = [tkey EXCEPT ![t] = NoKey]
    /\ texp' = [texp EXCEPT ![t] = 0]

Move(t, here, there) ==
    /\ tpc[t] = here
    /\ tpc' = [tpc EXCEPT ![t] = there]

Answer(t, p) ==
    /\ answers' = answers \cup {<<tkey[t], p>>}
    /\ Finish(t)

\* A request arrives; without a key there is nothing to replay.
Receive(t, k) ==
    /\ Move(t, "idle", IF k = NoKey THEN "mint" ELSE "lookup")
    /\ tkey' = [tkey EXCEPT ![t] = k]
    /\ UNCHANGED <<storeVars, tid, texp, minted, answers, abandoned>>

\* find_by_idempotency on arrival, first read: the index entry.
LookupIndex(t) ==
    /\ Move(t, "lookup", IF idem[tkey[t]] = NoId THEN "mint" ELSE "fetch")
    /\ tid' = [tid EXCEPT ![t] = idem[tkey[t]]]
    /\ UNCHANGED <<storeVars, tkey, texp, minted, answers, abandoned>>

\* find_by_idempotency, second read: the record the index names.
FetchExisting(t) ==
    /\ tpc[t] = "fetch"
    /\ status[tid[t]] # "absent"
    /\ Answer(t, tid[t])
    /\ UNCHANGED <<storeVars, minted, abandoned>>

\* The clock is read, prepare_email accepts the action and mints an id.
Mint(t, p) ==
    /\ Move(t, "mint", "freeze")
    /\ p \notin minted
    /\ minted' = minted \cup {p}
    /\ tid' = [tid EXCEPT ![t] = p]
    /\ texp' = [texp EXCEPT ![t] = clock + TTL]
    /\ UNCHANGED <<storeVars, tkey, answers, abandoned>>

\* The closed schema, the v1 policy or the Message-ID rule refuses the
\* request, before anything is written.
Refuse(t) ==
    /\ tpc[t] = "mint"
    /\ Finish(t)
    /\ UNCHANGED <<storeVars, minted, answers, abandoned>>

\* Mutant: the payload is not frozen.
FreezeNothing(t) ==
    /\ Move(t, "freeze", "write")
    /\ UNCHANGED <<storeVars, tkey, tid, texp, minted, answers, abandoned>>

\* payloads.put, ahead of the record that commits to the payload.
FreezePayload(t) ==
    /\ Move(t, "freeze", "write")
    /\ payloads' = payloads \cup {tid[t]}
    /\ UNCHANGED <<status, keyOf, expires, idem, clock, tkey, tid, texp, minted, answers, abandoned>>

\* ProposalStore.create, up to the put of the record.
WriteRecord(t) ==
    /\ Move(t, "write", "claim")
    /\ status[tid[t]] = "absent"
    /\ status' = [status EXCEPT ![tid[t]] = "pending"]
    /\ keyOf' = [keyOf EXCEPT ![tid[t]] = tkey[t]]
    /\ expires' = [expires EXCEPT ![tid[t]] = texp[t]]
    /\ UNCHANGED <<idem, payloads, clock, tkey, tid, texp, minted, answers, abandoned>>

\* A request without a key has nothing to claim.
SkipClaim(t) ==
    /\ Move(t, "claim", "reply")
    /\ tkey[t] = NoKey
    /\ UNCHANGED <<storeVars, tkey, tid, texp, minted, answers, abandoned>>

\* Mutant: the claim is a plain put.
ClaimByPut(t) ==
    /\ Move(t, "claim", "reply")
    /\ tkey[t] # NoKey
    /\ idem' = [idem EXCEPT ![tkey[t]] = tid[t]]
    /\ UNCHANGED <<status, keyOf, expires, payloads, clock, tkey, tid, texp, minted, answers, abandoned>>

\* backend.claim, the atomic put-if-absent, taken.
WinClaim(t) ==
    /\ Move(t, "claim", "reply")
    /\ tkey[t] # NoKey
    /\ idem[tkey[t]] = NoId
    /\ idem' = [idem EXCEPT ![tkey[t]] = tid[t]]
    /\ UNCHANGED <<status, keyOf, expires, payloads, clock, tkey, tid, texp, minted, answers, abandoned>>

\* propose returns the identifiers of the proposal it created.
Reply(t) ==
    /\ tpc[t] = "reply"
    /\ Answer(t, tid[t])
    /\ UNCHANGED <<storeVars, minted, abandoned>>

\* backend.claim, lost to another proposal of the same key.
LoseClaim(t) ==
    /\ Move(t, "claim", "rollback")
    /\ tkey[t] # NoKey
    /\ idem[tkey[t]] # NoId
    /\ UNCHANGED <<storeVars, tkey, tid, texp, minted, answers, abandoned>>

\* Mutant: the rollback deletes what the index names.
DeleteWinner(t) ==
    /\ Move(t, "rollback", "drop")
    /\ status' = [status EXCEPT ![idem[tkey[t]]] = "absent"]
    /\ UNCHANGED <<keyOf, expires, idem, payloads, clock, tkey, tid, texp, minted, answers, abandoned>>

\* create's rollback of the losing record.
DeleteLoser(t) ==
    /\ Move(t, "rollback", "drop")
    /\ status' = [status EXCEPT ![tid[t]] = "absent"]
    /\ UNCHANGED <<keyOf, expires, idem, payloads, clock, tkey, tid, texp, minted, answers, abandoned>>

\* Mutant: the loser's payload stays.
KeepPayload(t) ==
    /\ Move(t, "drop", "relookup")
    /\ tid' = [tid EXCEPT ![t] = NoId]
    /\ UNCHANGED <<storeVars, tkey, texp, minted, answers, abandoned>>

\* propose's clean-up of the payload frozen under the losing id.
DropPayload(t) ==
    /\ Move(t, "drop", "relookup")
    /\ payloads' = payloads \ {tid[t]}
    /\ tid' = [tid EXCEPT ![t] = NoId]
    /\ UNCHANGED <<status, keyOf, expires, idem, clock, tkey, texp, minted, answers, abandoned>>

\* find_by_idempotency after a lost claim: the winner's index entry.
LookupWinner(t) ==
    /\ Move(t, "relookup", "fetch")
    /\ idem[tkey[t]] # NoId
    /\ tid' = [tid EXCEPT ![t] = idem[tkey[t]]]
    /\ UNCHANGED <<storeVars, tkey, texp, minted, answers, abandoned>>

\* The process is killed, or a database call raises: the request ends
\* unanswered at whatever step it had reached.
Die(t) ==
    /\ tpc[t] # "idle"
    /\ abandoned' = IF tpc[t] \in Owning THEN abandoned \cup {tid[t]} ELSE abandoned
    /\ Finish(t)
    /\ UNCHANGED <<storeVars, minted, answers>>

ThreadStep(t) ==
    \/ LookupIndex(t) \/ FetchExisting(t) \/ Refuse(t) \/ FreezePayload(t)
    \/ WriteRecord(t) \/ SkipClaim(t) \/ WinClaim(t) \/ LoseClaim(t) \/ Reply(t)
    \/ DeleteLoser(t) \/ DropPayload(t) \/ LookupWinner(t)

IntakeNext ==
    \E t \in Threads :
        \/ \E k \in Keys \cup {NoKey} : Receive(t, k)
        \/ \E p \in Ids : Mint(t, p)
        \/ ThreadStep(t)
        \/ Die(t)

IntakeStart == StoreInit /\ IntakeInit

IntakeSpec ==
    /\ IntakeStart
    /\ [][IntakeNext \/ (Tick /\ UNCHANGED intakeVars)]_<<storeVars, intakeVars>>

-----------------------------------------------------------------------------
\* A claimed key always names a stored proposal of that key with a frozen
\* payload: the claim is create's last durable step, so no crash wedges a key
\* (store/proposals.py:98-110, gateway/proposal_api.py:199-201).
ClaimedKeyResolves ==
    \A k \in Keys : idem[k] # NoId =>
        status[idem[k]] # "absent" /\ keyOf[idem[k]] = k /\ idem[k] \in payloads

\* Every caller that is answered for one key is told the same proposal, and
\* that proposal is stored with its payload (propose's replay and race paths).
OneProposalPerKey ==
    /\ \A a, b \in answers : a[1] = b[1] /\ a[1] # NoKey => a[2] = b[2]
    /\ \A a \in answers :
        status[a[2]] # "absent" /\ keyOf[a[2]] = a[1] /\ a[2] \in payloads

\* A proposal id that nobody works on and whose handler did not die is either
\* fully there and known to a caller or fully gone: a lost claim leaves neither
\* a record nor orphaned content behind (the clean-up of propose and create).
NoOrphans ==
    \A p \in minted \ abandoned :
        (\A t \in Threads : tid[t] # p \/ tpc[t] \notin Owning) =>
            \/ status[p] = "absent" /\ p \notin payloads
            \/ \E a \in answers : a[2] = p

-----------------------------------------------------------------------------
\* What intake promises its callers, with the index as the abstract owner map:
\* the key is decided once, atomically, and everybody is told the decision.
Promise == INSTANCE IdempotentIntake WITH owner <- idem

\* propose and create, whatever their interleaving and crashes, implement that
\* one atomic decision per key (the claim is their linearization point).
ImplementsIdempotentIntake == Promise!Spec
=============================================================================
