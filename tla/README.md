# A TLA+ model of gmail-b1-gateway

The gateway lets an agent propose mails and sends one only after a human, or a
certificate the human signed, has approved it. Its promises are about state that
outlives a process: one mail per request, no mail without an approval and an
audit row, no outcome reported that is not the real one, no connection that
comes back after it was disconnected. The modules here state those promises,
check them with TLC on small instances and, liveness apart, prove them with TLAPS
for all values of the constants. Paths are relative to the repository.

## The system

| part | state | operations | what is hard |
| --- | --- | --- | --- |
| proposal store and ledger (`store/`) | records, the `idem:<key>` index, audit rows | create, get, find, set_status, record | every operation is one database commit; nothing spans two |
| proposal intake (`gateway/proposal_api.py`, `seed_proposal.py`) | frozen payloads | propose, status, confirm route | concurrent handlers of one key, death between two commits, clean-up after a lost claim |
| send machine (`sendfsm/fsm.py`) | status of a proposal, ledger | confirm, dispatch, expire | check and write are apart, no lock, crash around the one irreversible call |
| send path (`gateway/send_path.py`, `send_cli.py`, `gmail_sender.py`) | sealed OAuth token | confirm_and_dispatch, the Gmail call | an answer that says nothing about what Gmail did |
| authorization gate (`authz/gate.py`, `state.py`, `service.py`, `decision_policy.py`) | high-water mark, two single-use consumers | authorize; revoke, supersede, add | a relay that withholds and replays, a cloud that signs anything twice, calls of several threads |
| authorized send (`authz/orchestrator.py`, `dispatch_record.py`) | dispatch records | authorize_and_send | two-phase record around the send |
| sealed token store (`gateway/sealed_token_store.py`, `token_store.py`) | one row: credentials, commit, voids, barrier, counter | reserve, void, save_commit, ack, invalidate, clear | results that arrive after Cancel or Disconnect, crashes inside Disconnect |
| persistence (`gateway/persistence.py`) | two SQLite files, one connection each per process | put, claim, delete, update; append | failed writes in an open transaction, eviction |
| token refresh (`gateway/token_refresh.py`, `authorize.py`) | the sealed token row | access_token, run_authorize | read, call Google, read, write; several processes |
| supervisor (`gateway/supervisor.py`, `entrypoint.py`) | one child process | start, health, stop | late, silent and crashing children |
| OAuth loopback flow (`gateway/oauth_listener.py`, `oauth/`) | one captured callback, a port, a server thread | run, do_GET | stray and late callbacks, reused ports, silent clients, timeout |
| connect entry points (`gateway/local_connect.py`, `trigger.py`, `bundle.py`, `authorize.py`) and key (`keystore/providers.py`, `aead.py`) | client file, keychain entry, sealed row | run_gui, handle_authorize_trigger, run_authorize; get_dek, provision | the file is replaced while it is checked, a keychain that does not answer, two first connects |
| disconnect revocation (`gateway/token_revoke.py`, `oauth/revoke_request.py`) | none of its own | make_disconnect_revoker, revoke | answers that are late or lost |
| action set, canonicalizer, egress, certificate parsing, tree pin | none, or the operating system's | pure functions and glue | - |

An agent posts to intake, which freezes the payload and creates a record. A
human (the confirm route, `gmail-gateway send`) or the orchestrator calls the send
machine on it, whose sender asks the refreshing provider for a token and posts to
Gmail. The orchestrator asks the gate first. All of it lives on `SqliteKV` files
shared by several processes. The daemon's token store is a second, independent
path, driven by a daemon outside this repository; its Disconnect also asks Google
to revoke the grant. An account is connected by a process that checks the client
file, sends the user to Google's consent page, receives the redirect on a loopback
port and seals the token under a key of the keychain, which the gateway's processes
then read and refresh.

What makes each part correct: a key names one proposal with its bytes (intake);
at most one request per proposal, approved and logged first, settled truthfully
and for good (send machine); one use per request and decision, no rollback behind
an accepted head (gate); every request attributable, no clean outcome without a
completed record (authorized send); what was cancelled or torn down stays so, and
nothing else does (token store); a reported revocation is real (revocation); what
raised leaves no row (persistence); token and authority stay together (refresh); a
flow redeems its own consent, with the pinned client, under a key that stays
(connect); no stray gateway (supervisor).

## The modules

| module | models | how state and actions correspond |
| --- | --- | --- |
| `ProposalStore` | `store/proposals.py` and the clock | a record by columns `status`, `keyOf`, `expires`; `idem` is the index; `payloads` the frozen content. Digest and creation time decide nothing and are left out |
| `ProposalIntake` | `propose` over `create` | `tpc[t]` is the next database call of a handler, one action per call; `Die` is a kill, or a call that raises, at any of them. `abandoned` and `answers` are history |
| `IdempotentIntake` | the abstract promise | a key's owner is decided once, and answers repeat it |
| `SendFSM` | `confirm`, `dispatch`, `expire`, the sender | one action per database call and one each for the request and the answer; `wire` and `delivered` count what reached and what was taken by Gmail. `Overlap` says whether two callers of one proposal may be between a check of its status and the write that relies on it (callers of one proposal may always be called, and run, together), `Mortal` which of them may be killed or lose a database |
| `OneMail` | the abstract promise | a proposal is approved once, put to Gmail at most once and only then, and settled once, as something true of that one request |
| `Gateway` | intake and send machine on one store | only ids that `propose` has answered can be named in a call |
| `AuthzGate` | `authorize`, `HeadState`, relay and cloud | a head body is its state_version. The cloud is not trusted: its answer is any decision at all, of any id, request, payload, head, grant and disposition, and `Bound` is what decision_policy keeps of it. The pure checks (signature, scope, window, subject proof) may fail for any request and any answer (`LocalDenial`, `DecideFails`); `_deny` is one action per reason that depends on shared state |
| `Admission` | the abstract promise | a call is admitted in one step, on a request and a decision that admit nobody else and on a head that is not behind the mark it began with |
| `AuthorizedSend` | `authorize_and_send` | composes `AuthzGate` and `SendFSM`: a caller is a call of one and a worker of the other, and goes on by the disposition of the decision it was admitted on |
| `SealedTokenStore` | the daemon's token store | one action per method, since each is one transaction; the daemon's flows are those `token_store.py` prescribes |
| `ConnectionLife` | the abstract promise | each operation is opened, committed and ended once; a new connection outlives the end of an old one; only a living commit is served. No voids, barrier or counter |
| `Disconnect` | `make_disconnect_revoker` and `TokenRevoker` around the store's tear-down | extends `SealedTokenStore`; `request` is what becomes of the POST at Google, whose side is external, `reported` what revoke returns |
| `SqliteKV` | `SqliteKV` and `SqliteAppendLog` | enter, execute, commit, rollback and eviction apart; `txn` is the connection's open transaction. The lock is that of one process; SQLite's write lock is external |
| `AtomicStore` | the abstract promise | rows, a log and calls: each takes effect at one instant and returns, or raises without effect. No lock, transaction or connection |
| `LoopbackFlow` | `LoopbackOAuthFlow.run` and its server | `step` is where `run` is, `serving` the one connection its server thread has; browser, user and local clients are external |
| `Connect` | the entry points, the client file, the key and the sealed row | extends `LoopbackFlow`: one process per flow. A key is known by the flow that provisioned it. `Overlap` says whether two of them may be between `provision`'s look and its write at a time |
| `TokenRefresh` | the provider, `replace_access_token`, `run_authorize` | a token is known by the consent (grant) it came from; Google's endpoint is external |
| `Supervisor` | `GatewaySupervisor` and its child | waits are control points of their own; a SIGKILL takes effect later |

`AuthorizedSend`, `Gateway`, `Disconnect` and `Connect` compose; the other modules
stand alone. The MC
modules only give constants their values. Definitions called mutants
in comments change one definition as a plausible bug would; they are no part of
any specification and exist to show that each property can fail.

## The runs

| run | question | result |
| --- | --- | --- |
| `send_overlap` | two callers overlap on one proposal, auto-send on, one of them may be killed | still approved and audited; SENT is true; what a live caller dispatches settles |
| `send_double` | the same, one proposal, is it sent once? | violated: both pass confirm's check, both dispatch |
| `gateway` | two handlers that may die and two callers, on the same proposals, one key, two ids, expiry; no two callers between a check and its write | intake resolves every claimed key to one proposal, leaves no orphan and refines `IdempotentIntake`; the send path refines `OneMail`: one send per proposal, true outcomes, honest ledger, settled for good; one mail per key, payload always found |
| `token` | three operations, commits that await an acknowledgement and commits that do not, three generations, a revocation at Google | cancelled and disconnected stay so, recovery finds credentials, acks are exact; the store refines `ConnectionLife`, so nothing is ended by another's cancel; a reported revocation is real |
| `gate_regress` | is a head below the mark always refused? | violated: the mark rises between comparison and raise |
| `authsend` | two authorized sends, two proposals with different payloads, two requests, a grant whose first version is auto and whose second is not, two heads, two decision ids that the cloud gives to whatever it likes, a clock, kills anywhere | the gate refines `Admission`; single use, no rollback, the mark covers; every request attributed, clean outcomes recorded |
| `kv` | two processes; three threads on a private and a shared row, one of each on the log | the store refines `AtomicStore`; no ghost writes, one log row per append |
| `refresh` | two threads of one process and one of another, processes taking turns | tokens stay with their consent, no rotation lost, no double refresh |
| `refresh_mixed` | the same, processes overlap | violated: a refresh overwrites a new consent |
| `supervisor` | four children | no stray child, right bearers, stop ends the child |
| `connect` | two connects on one port, not inside `provision` together, strays, reloads, silent clients, kills, a client file that changes, a keychain that fails | own consents, the pinned client, a token that opens; every flow ends and gives its port back |
| `dek_race` | the same, both inside `provision` at once | violated: each provisions, and the sealed token does not open |

### Bounds

Two actors of a kind are enough for every race here: each races over one row or
one variable, and what holds is proved for any number of them. `TTL = 1` and
`MaxClock = 1` put every call on either side of the expiry. `MaxHeads = 2` is
a head and its revocation or successor, which is all that one mark and two calls can
disagree about; two decision ids are one to
reuse and one to spare; `MaxGrants`,
`MaxRotations`, `MaxGen`, `MaxCalls` and `MaxChildren` bound counters that grow by
one and are compared only with their own earlier values: three calls of each thread
in `kv` are a failed write, the write that might carry it, and a look at the result.
The callers of `gateway` are not killed, to keep its state space small: those of
`send_overlap` and `authsend` are, and the theorems hold for any `Mortal`. `connect` has one port, so that the second flow is bound to
the port of the first, where its late redirects still arrive. `authsend` starts with
every proposal stored (a call for another returns at once) and its payload frozen
(`ClaimedKeyResolves`, `SenderFindsPayload`). Symmetry is used only in runs without
liveness properties.

Deadlock is not checked where the instance really stops: the gate's, the
orchestrator's and the connecting processes' calls are finite, and in `kv`,
`refresh` and the runs that look for one violation the bounds run out.

### Fairness

`SendFSM!Fairness`: a caller that was called keeps running unless killed. It is
one synchronous call chain without a lock or an unbounded wait (the Gmail request
has a timeout), so weak fairness of its steps is what the operating system gives;
`ApprovedSettles` speaks of the callers that are not killed (those outside
`Mortal`), since of a killed one the code promises nothing. `SupSpec`: the supervisor's waits are all bounded by a timeout, and a
SIGKILL takes effect; nothing is assumed of SIGTERM. `ConnectFairness`: a
connecting process and its server thread keep running, and a client that connects
and says nothing hangs up in the end (the code gives the connection no timeout, so
without this `run` may wait for ever, see below). The user is never assumed to
answer the consent page: the wait has a deadline.

## Proofs

All are for arbitrary constants under the named assumptions, which only say
that sentinels are outside their sets, bounds are numbers and the set of callers
is finite.

- `SendFSMProofs`. `SendTypeInv` adds to `TypeOK` what locals hold at each step.
  With `ASSUME ~Overlap`, which only keeps two callers of one proposal from being
  between a check and its write, not from running together, `SendInv` says what a
  caller may still
  believe of its proposal between a check and the write that relies on it (at
  `confirm_set` it is pending, from there to the request it is confirmed and
  unsent, and so on): no property about outcomes is inductive without it.
  `NeverASecondSend`, `TrueOutcomes`, `LedgerInStep` and `TerminalIsFinal` follow.
  `SendsRefine` says all of that at once: under `standing <- status`,
  `posted <- wire`, `taken <- delivered` every step is a step of `OneMail` or
  leaves its variables alone, for which `SendInv` also bounds `wire` and
  `delivered` by one.
  With overlap, `ApprovalInv`, `AuditInv` (requests made plus callers about to
  make one are at most the attempt rows) and `SentInv` stay inductive and give
  `SendsAudited` and `SentMeansTaken`.
- `GatewayProofs`. First intake on its own: `IntakeInv` says what a handler owns at
  each step: its id is its own, its record and payload are there exactly between
  their writes, and it holds no claim until it won. `KeysResolve`, `OneProposal` and
  `OrphansOnlyByDeath` follow, and `IntakeRefines` shows that every step is the
  abstract decision, an abstract answer or a stutter. Then the composition:
  `OnlyKnown` says that nobody has touched a proposal no caller was told of, so
  each side leaves alone what the other relies on. All that is proved of the two
  sides holds in it (`IntakeHoldsInGateway`, `SendsHoldInGateway`,
  `SettledInGateway`, `ApprovalsHoldInGateway`, `GatewayRefines`,
  `GatewaySendsRefine`: intake stores and withdraws, the machine does the rest),
  with `PayloadsAreThere`, and `OneKeyOneMail` under `~Overlap`.
- `SealedTokenStoreProofs`. `SafetyInv` collects the six state properties with the
  daemon's invariant that a torn-down generation is under the barrier.
  `OneLife` reads an operation's fate off the row (`FateOf`): void or superseded is
  over, whatever the daemon still holds. A `Disconnect` ends its connection at the
  instant the barrier is raised; its two later steps are stutters, as are late
  results that are refused. `LifeInv` adds what that needs: no generation is
  beyond the counter, the record is that of an operation that has returned, and only
  what was started can be cancelled. `CancelSparesOthers` says the part about cancels
  on its own; it has no run, since `OneLife` and the run `token` cover it.
  `RevocationSparesStore` shows that `DisconnectSpec` implies the store's own `Spec`,
  so the same theorems hold beside a revocation; `RemoteInv` relates the request at
  Google to what revoke reports, for `RevocationIsTrue`.
- `AuthzGateProofs`. `GInv` says what a call knows at each step: its request
  is burned by it alone, its decision is bound, and from the consumer on is its own
  alone, its head is covered by the mark. That no decision is used twice
  (`UsedOnce`) rests on the decision consumer and on nothing the cloud does: two
  calls may hold decisions of one id until they come to it.
  `AuthorizeIsOneStep` puts the instant of an admission at the answer: nothing shows
  before it but the mark, and at it everything `GInv` says
  the call has checked on its way still holds together. `Admission` lets the head be
  behind the mark of that instant, though not behind that of the call's beginning:
  that is all the code achieves (`gate_regress`). `SendsAreAdmitted` is the same
  behind the orchestrator.
  For the authorized send, every step is a step of the machine and one of the gate,
  or leaves them alone (`MachineShape`, `GateShape`), so their invariants hold
  underneath (`Below`, `GateHoldsBehindSends`). `Control` ties the stage of a call to
  both; `Recorded` says that the writer of a started row still stands by it;
  `Covered` counts: requests made plus callers that may still post are at most the
  started rows, because a decision is one caller's alone (`SendsAreAttributed`);
  `Told` carries the settled result to the caller (`OutcomesAreRecorded`). None of
  this asks callers not to overlap, nor does `SendsHoldBehindGate`;
  `AuthorizedSendsRefine` does.
- `SqliteKVProofs`. `KVInv`: calls are numbered apart, a process's lock and SQLite's
  write lock each have one holder, an open transaction is that of the call at its
  commit or its rollback, an update at its commit still sees what it read, and what
  is committed has returned. The safety properties are read off it, with two that
  have no run (`ClaimsAreTestAndSet`, `UpdatesAreAtomic`). `StoreIsAtomic` puts the
  instant of a call at its commit: entering begins the abstract call, a commit is
  its return, a rollback, an eviction or the end of a process raises it (or all of
  the process's), and everything else is a stutter.
- `TokenRefreshProofs`. `AuthorityIsKept` lets processes overlap and asks only that
  no consent is given in the middle of a refresh (`ConsentWaits`): then all who are
  under way read, refresh and write back tokens of the one consent that is sealed
  (`OneConsent`), in whatever order they write. A consent in between breaks it
  (`refresh_mixed`). That the refresh token written last is the living one needs
  processes that take turns (`ASSUME ~Overlap`): a thread at its write then knows
  the row's consent (`Current`), and the answer of Google it holds is of that
  consent (`Answered`).
- `ConnectProofs`. `ConsentInv`: a captured redirect that carries a flow's state
  carries its code, whichever port it came by. `ClientInv`: what was verified is what
  is used. `KeyInv` (with `~Overlap`): there is no key
  while a flow is about to write one, only one flow is, and what is sealed is sealed
  with the key that stays.
- `SupervisorProofs`. The supervisor waits for a child only when it holds none that
  runs, and the bearer it keeps is that of the child it keeps.

Only model-checked: `ApprovedSettles`, `StopEndsIt` and `EveryFlowEnds` (liveness,
which is out of the prover's reach). The properties of the four runs that expect a
violation are not theorems, or are theorems only under `~Overlap`.

## Where code and words disagree

Four have a run (see `findings` in `PROJECT.json`): overlapping confirms send
twice (`sendfsm/fsm.py:110`), a head below the mark is accepted
(`authz/gate.py:327`), a refresh overwrites a newer consent
(`gateway/send_path.py:115`), and two first connects provision the key over each
other (`keystore/providers.py:111`). Met on the way, without a run of their own:

- Under overlap a settled status is overwritten too: `set_status`
  (`store/proposals.py:150`) checks nothing, while `sendfsm/fsm.py:23` calls an
  indeterminate send terminal.
- `propose` answers a replay with an expired proposal; `gateway/proposal_api.py:162`
  says "live-or-settled".
- `create` writes the record before the index; `store/README.md:43` says the index
  comes first. The code's order is the one `KeysResolve` needs.
- When the started record cannot be written, `confirm` has already stored
  CONFIRMED (`authz/orchestrator.py:92`) although the refusal is "before any side
  effect", and the status returned is the earlier one.
- Two processes that refresh at once can write a refresh token over its successor
  (`gateway/send_path.py:116`).
- `start` kills a child whose ready line has no port in it, but not one whose line
  makes the parser raise something else, as `int` of `Infinity` does
  (`gateway/supervisor.py:157`). Its child, the entrypoint, prints no such line.
- `run` promises to end within its timeout, but its clean-up waits for the handler,
  which reads from a silent client without one (`gateway/oauth_listener.py:223`).
- When the answer page cannot be written, the callback is captured but `run` is not
  woken, and goes on waiting until its deadline (`gateway/oauth_listener.py:124`).
- `revoke` "never raises for a network or status outcome", but an answer that breaks
  off raises `http.client.HTTPException` (`gateway/token_revoke.py:98`).

## Not modelled

Canonicalizer, action set, certificate parsing, clocks and tree pin are pure or
belong to the operating system: they appear as steps that may refuse or raise, and
so does the egress guard. Of the keystore, AES-GCM and the record format are left
out; which key seals what is not. HTTP routing and bearer checks decide only whether
a call happens. A restart of the gate is not modelled: its mark and consumers are in
memory and the wiring that would persist them is not in the repository. MIME
composition, URLs, form bodies and all wording are left out.

## Plan

What is left is (1) the ledger's and
the dispatch record's writes through `SqliteAppendLog`, with an append that fails in
the middle of a send as a step of its own rather than a kill; (2) the token row of
`Connect` and `TokenRefresh` in one module, with connects and refreshes around one
keychain.
