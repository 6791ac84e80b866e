-------------------------- MODULE SealedTokenStore --------------------------
(***************************************************************************)
(* gateway/sealed_token_store.py under the daemon that owns it: one row    *)
(* with the sealed credentials, the commit record, the voided operations,  *)
(* the generation barrier and the generation counter.  Every store method  *)
(* is one transaction, so it is one action here.                           *)
(*                                                                         *)
(* The daemon is not part of this repository.  Its side of the seam (which *)
(* method Connect, Refresh, Cancel, Disconnect and startup recovery call,  *)
(* and in which order) is the contract gateway/token_store.py states: the  *)
(* flows below are that contract.  The daemon holds its lock across a      *)
(* Disconnect, so only a crash comes between its three calls; the external *)
(* part of Connect and Refresh runs outside the lock, so a flow may try to *)
(* commit at any later time, also after a restart.                         *)
(***************************************************************************)
EXTENDS Integers

CONSTANTS
    Ops,        \* operation ids; each names one Connect or Refresh
    NoOp,       \* no operation: there is no commit record
    MaxGen      \* bound on generations, for model checking only

ASSUME TokenAssumption == NoOp \notin Ops /\ MaxGen \in Nat

VARIABLES
    sealed,     \* the operation whose credentials are sealed, or NoOp
    commit,     \* operation_id of the commit record, or NoOp
    version,    \* its version
    generation, \* its generation
    ackPending, \* its ack_pending
    invalidated,\* its invalidated bit
    voidedOps,  \* invalidated_ops
    barrier,    \* the generation barrier
    lastGen,    \* last_generation
    flow,       \* flow[o]: "idle", "flying" or "done"
    genOf,      \* genOf[o]: the generation o reserved or inherited
    verOf,      \* verOf[o]: the version o will commit
    connected,  \* the daemon serves the committed connection
    tearing,    \* the Disconnect call under way: "no", "clear" or "flag"
    torn,       \* generations whose Disconnect has begun
    restored,   \* the highest barrier brought in from outside
    overtaken,  \* flows for whose generation the barrier was raised
    confirmed   \* the <<operation, version>> the peer has acknowledged, or need not

row == <<sealed, commit, version, generation, ackPending, invalidated,
         voidedOps, barrier, lastGen>>
record == <<commit, version, generation, ackPending, invalidated>>
flows == <<flow, genOf, verOf>>
history == <<torn, restored, overtaken, confirmed>>
vars == <<row, flows, connected, tearing, history>>

TypeOK ==
    /\ {sealed, commit} \subseteq Ops \cup {NoOp}
    /\ {version, generation, barrier, lastGen, restored} \subseteq Nat
    /\ {ackPending, invalidated, connected} \subseteq BOOLEAN
    /\ voidedOps \in SUBSET Ops /\ overtaken \in SUBSET Ops
    /\ flow \in [Ops -> {"idle", "flying", "done"}]
    /\ genOf \in [Ops -> Nat] /\ verOf \in [Ops -> Nat]
    /\ tearing \in {"no", "clear", "flag"}
    /\ torn \in SUBSET Nat
    /\ confirmed \in SUBSET (Ops \X Nat)

Init ==
    /\ sealed = NoOp /\ commit = NoOp
    /\ version = 0 /\ generation = 0 /\ barrier = 0 /\ lastGen = 0
    /\ ackPending = FALSE /\ invalidated = FALSE
    /\ voidedOps = {}
    /\ flow = [o \in Ops |-> "idle"]
    /\ genOf = [o \in Ops |-> 0] /\ verOf = [o \in Ops |-> 0]
    /\ connected = FALSE /\ tearing = "no"
    /\ torn = {} /\ restored = 0 /\ overtaken = {} /\ confirmed = {}

Larger(a, b) == IF a > b THEN a ELSE b

\* Mutant: the barrier is not considered.
NextOfCounter == lastGen + 1

\* The generation reserve_generation hands out: above every one it ever handed
\* out and above the barrier.
NextGeneration == Larger(lastGen, barrier) + 1

\* Startup recovery takes the commit up again only if neither scope voids it.
Recoverable == commit # NoOp /\ ~invalidated /\ generation > barrier

-----------------------------------------------------------------------------
\* Connect reserves its generation before the external operation starts.
StartConnect(o) ==
    /\ flow[o] = "idle" /\ tearing = "no"
    /\ NextGeneration <= MaxGen
    /\ lastGen' = NextGeneration
    /\ flow' = [flow EXCEPT ![o] = "flying"]
    /\ genOf' = [genOf EXCEPT ![o] = NextGeneration]
    /\ verOf' = [verOf EXCEPT ![o] = 1]
    /\ UNCHANGED <<sealed, record, voidedOps, barrier, connected, tearing, history>>

\* Refresh inherits the generation of the connection it refreshes.
StartRefresh(o) ==
    /\ flow[o] = "idle" /\ connected
    /\ flow' = [flow EXCEPT ![o] = "flying"]
    /\ genOf' = [genOf EXCEPT ![o] = generation]
    /\ verOf' = [verOf EXCEPT ![o] = version + 1]
    /\ UNCHANGED <<row, connected, tearing, history>>

\* Mutant: the barrier is not checked.
RefusedByOperation(o) == o \in voidedOps

\* Mutant: the voided operations are not checked.
RefusedByGeneration(o) == genOf[o] <= barrier

\* save_commit's two checks, made in the transaction of the write.
Refused(o) == o \in voidedOps \/ genOf[o] <= barrier

\* save_commit seals the credentials and records the commit in one step; its caller
\* says whether the peer is to acknowledge it.
SaveCommit(o, ack) ==
    /\ flow[o] = "flying" /\ tearing = "no"
    /\ ~Refused(o)
    /\ sealed' = o /\ commit' = o
    /\ version' = verOf[o] /\ generation' = genOf[o]
    /\ ackPending' = ack /\ invalidated' = FALSE
    /\ confirmed' = IF ack THEN confirmed ELSE confirmed \cup {<<o, verOf[o]>>}
    /\ flow' = [flow EXCEPT ![o] = "done"]
    /\ connected' = TRUE
    /\ UNCHANGED <<voidedOps, barrier, lastGen, genOf, verOf, tearing, torn, restored,
                   overtaken>>

\* save_commit raises CommitInvalidated and writes nothing.
SaveRefused(o) ==
    /\ flow[o] = "flying" /\ tearing = "no"
    /\ Refused(o)
    /\ flow' = [flow EXCEPT ![o] = "done"]
    /\ UNCHANGED <<row, genOf, verOf, connected, tearing, history>>

\* invalidate_commit always persists the void; it also flips the bit of the
\* commit it hits.
InvalidateCommit(o) ==
    /\ voidedOps' = voidedOps \cup {o}
    /\ invalidated' = (invalidated \/ commit = o)
    /\ UNCHANGED <<sealed, commit, version, generation, ackPending, barrier, lastGen>>

\* Mutant: cancelling an operation voids its generation.
CancelGeneration(o) ==
    /\ flow[o] # "idle" /\ tearing = "no"
    /\ voidedOps' = voidedOps \cup {o}
    /\ barrier' = Larger(barrier, genOf[o])
    /\ invalidated' = (invalidated \/ commit = o)
    /\ connected' = (connected /\ commit # o)
    /\ UNCHANGED <<sealed, commit, version, generation, ackPending, lastGen,
                   flows, tearing, history>>

Cancel(o) ==
    /\ flow[o] # "idle" /\ tearing = "no"
    /\ InvalidateCommit(o)
    /\ connected' = (connected /\ commit # o)
    /\ UNCHANGED <<flows, tearing, history>>

\* Mutant: any acknowledgement of that version will do.
AckByVersion(o) ==
    /\ flow[o] = "done"
    /\ confirmed' = confirmed \cup {<<o, verOf[o]>>}
    /\ ackPending' = (ackPending /\ version # verOf[o])
    /\ UNCHANGED <<sealed, commit, version, generation, invalidated, voidedOps,
                   barrier, lastGen, flows, connected, tearing, torn, restored, overtaken>>

\* mark_ack_confirmed for an acknowledgement that may be late or repeated; it
\* must match the operation (and so its result) and the version.
MarkAckConfirmed(o) ==
    /\ flow[o] = "done"
    /\ confirmed' = confirmed \cup {<<o, verOf[o]>>}
    /\ ackPending' = (ackPending /\ ~(commit = o /\ version = verOf[o]))
    /\ UNCHANGED <<sealed, commit, version, generation, invalidated, voidedOps,
                   barrier, lastGen, flows, connected, tearing, torn, restored, overtaken>>

\* void_generation: the barrier only rises.
VoidGeneration(g) ==
    /\ barrier' = Larger(barrier, g)
    /\ overtaken' = overtaken \cup {o \in Ops : flow[o] = "flying" /\ genOf[o] <= g}
    /\ UNCHANGED <<sealed, record, voidedOps, lastGen>>

\* Mutant: Disconnect goes on to clear without raising the barrier.
DisconnectUnbarred ==
    /\ tearing = "no" /\ connected
    /\ torn' = torn \cup {generation}
    /\ tearing' = "clear" /\ connected' = FALSE
    /\ UNCHANGED <<row, flows, restored, overtaken, confirmed>>

\* Disconnect raises the barrier first, for the connection it tears down.
DisconnectVoid ==
    /\ tearing = "no" /\ connected
    /\ VoidGeneration(generation)
    /\ torn' = torn \cup {generation}
    /\ tearing' = "clear" /\ connected' = FALSE
    /\ UNCHANGED <<flows, restored, confirmed>>

\* clear_credentials destroys the sealed credentials and nothing else.
DisconnectClear ==
    /\ tearing = "clear"
    /\ sealed' = NoOp
    /\ tearing' = "flag"
    /\ UNCHANGED <<record, voidedOps, barrier, lastGen, flows, connected, history>>

DisconnectFlag ==
    /\ tearing = "flag"
    /\ InvalidateCommit(commit)
    /\ tearing' = "no"
    /\ UNCHANGED <<flows, connected, history>>

\* The daemon dies; what was in flight outside may still come back.
Crash ==
    /\ connected \/ tearing # "no"
    /\ connected' = FALSE /\ tearing' = "no"
    /\ UNCHANGED <<row, flows, history>>

Recover ==
    /\ ~connected /\ tearing = "no"
    /\ Recoverable
    /\ connected' = TRUE
    /\ UNCHANGED <<row, flows, tearing, history>>

\* A restored library brings a barrier of generations never reserved here.
RestoreBarrier(g) ==
    /\ ~connected /\ tearing = "no"
    /\ VoidGeneration(g)
    /\ restored' = Larger(restored, g)
    /\ UNCHANGED <<flows, connected, tearing, torn, confirmed>>

Next ==
    \/ \E o \in Ops :
        \/ StartConnect(o) \/ StartRefresh(o)
        \/ \E ack \in BOOLEAN : SaveCommit(o, ack)
        \/ SaveRefused(o) \/ Cancel(o) \/ MarkAckConfirmed(o)
    \/ DisconnectVoid \/ DisconnectClear \/ DisconnectFlag
    \/ Crash \/ Recover
    \/ \E g \in 1..MaxGen : RestoreBarrier(g)

Spec == Init /\ [][Next]_vars

-----------------------------------------------------------------------------
\* A connection the user disconnected is never served again: neither a refresh
\* still in flight nor a crash between Disconnect's calls brings it back
\* (save_commit's barrier check, recovery's gate; token_store.py rule 4).
DisconnectedStaysDown == connected => generation \notin torn

\* A cancelled operation never ends as a live commit, whether the cancel comes
\* before the commit, after it or across a restart (invalidate_commit).
CancelledNeverLives == commit \in voidedOps => invalidated

\* A commit that recovery would take up still has its own credentials, wherever
\* a Disconnect was cut off (the barrier is raised before the clear).
RecoverableHasCredentials == Recoverable => sealed = commit

\* A flow is void only if the barrier was raised while it flew: no Connect is
\* handed a generation that is already covered, "a permanent, silent void".
FreshFlowNotDoomed ==
    \A o \in Ops : flow[o] = "flying" /\ o \notin overtaken => genOf[o] > barrier

\* The ack_pending of a commit that asks for an acknowledgement is cleared only by
\* that of this very commit, never by a late one for an operation it superseded
\* (mark_ack_confirmed).
AckIsExact == commit # NoOp /\ ~ackPending => <<commit, version>> \in confirmed

\* A recoverable connection is lost only to its own Disconnect, its own Cancel
\* or a restored barrier; cancelling another flow "must leave an existing
\* connection recoverable" (token_store.py, void_generation).
OnlyItsOwnVoid ==
    [][Recoverable /\ ~Recoverable' =>
        commit \in voidedOps' \/ generation \in torn' \/ generation <= restored']_vars

\* Where operation o is in its life: one in flight is over as soon as its commit
\* will be refused, and one that is committed lives as long as recovery would take
\* it up.
FateOf(o) ==
    IF flow[o] = "idle" THEN "new"
    ELSE IF flow[o] = "flying" /\ o \notin voidedOps /\ genOf[o] > barrier THEN "open"
    ELSE IF flow[o] = "done" /\ commit = o /\ Recoverable THEN "live"
    ELSE "over"

Fates == [o \in Ops |-> FateOf(o)]

\* The two scopes of a void, the barrier, the invalidated bit and the counter make
\* one promise, across restarts and half-done Disconnects: an operation that was
\* cancelled, torn down or superseded is over for good, one that is not lives on,
\* and a new connection is never covered by the end of an old one.
Living == INSTANCE ConnectionLife WITH fate <- Fates, conn <- genOf, up <- connected

ImplementsConnectionLife == Living!Spec
=============================================================================
