---------------------------- MODULE TokenRefresh ----------------------------
(***************************************************************************)
(* The sealed OAuth token of gateway/send_path.py and the provider of      *)
(* gateway/token_refresh.py that renews it.  Each process has its own      *)
(* provider, whose lock serialises the threads of that process; authorize  *)
(* is a process of its own that replaces the record outright.  The token   *)
(* is one row, so a read and a write of it are atomic, but a refresh reads *)
(* it, calls Google, reads it again and only then writes.                  *)
(*                                                                         *)
(* A token is known by the grant (the user's consent) it was issued under; *)
(* refresh tokens of one grant are numbered, and Google (external) accepts *)
(* the last one it issued.                                                 *)
(***************************************************************************)
EXTENDS Integers

CONSTANTS
    Threads,    \* threads that ask for an access token
    Procs,      \* their processes
    ProcOf,     \* ProcOf[t]: the process of t
    NoThread,
    Overlap,    \* whether processes run at the same time
    MaxGrants,  \* bound on authorizations, for model checking only
    MaxRotations \* bound on refresh token rotations, for model checking only

ASSUME RefreshAssumption ==
    /\ ProcOf \in [Threads -> Procs]
    /\ NoThread \notin Threads
    /\ Overlap \in BOOLEAN
    /\ MaxGrants \in Nat /\ MaxRotations \in Nat \ {0}

VARIABLES
    sealed,     \* the row: access and refresh token, and whether it is fresh
    latest,     \* latest[g]: the refresh token of g that Google accepts, or 0
    authorized, \* how many grants the user has given
    owner,      \* owner[n]: the thread that holds the lock of process n
    rpc,        \* rpc[t]: the next step of t
    record,     \* record[t]: the record t read under the lock
    answer,     \* answer[t]: what Google answered t
    current,    \* current[t]: what replace_access_token read back
    lostAnswer  \* grants for which an answer of Google never arrived (history)

vars == <<sealed, latest, authorized, owner, rpc, record, answer, current,
          lostAnswer>>

Grants == 1..MaxGrants

\* access: the grant of the access token; grant and refresh: whose refresh
\* token is sealed, and which (0: none); fresh: expires_at is known and
\* now < expires_at - skew.
Sealed == [access : Grants, grant : Grants, refresh : 0..MaxRotations, fresh : BOOLEAN]

\* No record: a grant no user has given.
Nothing == [access |-> 0, grant |-> 0, refresh |-> 0, fresh |-> FALSE]

\* rotated = 0: the answer holds no new refresh token; timed: it says how long
\* the access token lives.
Answer == [access : Grants \cup {0}, rotated : 0..MaxRotations, timed : BOOLEAN]

NoAnswer == [access |-> 0, rotated |-> 0, timed |-> FALSE]

RefreshTypeOK ==
    /\ sealed \in Sealed \cup {Nothing}
    /\ latest \in [Grants -> 0..MaxRotations]
    /\ authorized \in 0..MaxGrants
    /\ owner \in [Procs -> Threads \cup {NoThread}]
    /\ rpc \in [Threads -> {"idle", "check", "post", "reopen", "reseal"}]
    /\ record \in [Threads -> Sealed \cup {Nothing}]
    /\ \A t \in Threads : rpc[t] # "idle" => record[t] \in Sealed
    /\ answer \in [Threads -> Answer]
    /\ current \in [Threads -> Sealed \cup {Nothing}]
    /\ lostAnswer \in SUBSET Grants

RefreshInit ==
    /\ sealed = Nothing
    /\ latest = [g \in Grants |-> 0]
    /\ authorized = 0
    /\ owner = [n \in Procs |-> NoThread]
    /\ rpc = [t \in Threads |-> "idle"]
    /\ record = [t \in Threads |-> Nothing]
    /\ answer = [t \in Threads |-> NoAnswer]
    /\ current = [t \in Threads |-> Nothing]
    /\ lostAnswer = {}

-----------------------------------------------------------------------------
Step(t, here, there) ==
    /\ rpc[t] = here
    /\ rpc' = [rpc EXCEPT ![t] = there]

\* access_token returns or raises: the lock is released.
Leave(t) ==
    /\ rpc' = [rpc EXCEPT ![t] = "idle"]
    /\ owner' = [owner EXCEPT ![ProcOf[t]] = NoThread]
    /\ record' = [record EXCEPT ![t] = Nothing]
    /\ answer' = [answer EXCEPT ![t] = NoAnswer]
    /\ current' = [current EXCEPT ![t] = Nothing]

Quiet(n) == \A t \in Threads : ProcOf[t] # n => rpc[t] = "idle"

\* Mutant of Authorize: a new consent is sealed beside the refresh token that
\* is already there.
AuthorizeKeepingRefresh(refresh, timed) ==
    /\ authorized < MaxGrants
    /\ Overlap \/ \A t \in Threads : rpc[t] = "idle"
    /\ authorized' = authorized + 1
    /\ latest' = [latest EXCEPT ![authorized'] = refresh]
    /\ sealed' = IF sealed = Nothing
                 THEN [access |-> authorized', grant |-> authorized',
                       refresh |-> refresh, fresh |-> timed]
                 ELSE [sealed EXCEPT !.access = authorized', !.fresh = timed]
    /\ UNCHANGED <<owner, rpc, record, answer, current, lostAnswer>>

\* The consent flow has finished: authorize seals what it was given, with or
\* without a refresh token and a lifetime.
Authorize(refresh, timed) ==
    /\ authorized < MaxGrants
    /\ Overlap \/ \A t \in Threads : rpc[t] = "idle"
    /\ authorized' = authorized + 1
    /\ latest' = [latest EXCEPT ![authorized'] = refresh]
    /\ sealed' = [access |-> authorized', grant |-> authorized',
                  refresh |-> refresh, fresh |-> timed]
    /\ UNCHANGED <<owner, rpc, record, answer, current, lostAnswer>>

\* The sealed access token comes within the skew of its expiry.
Expire ==
    /\ sealed.fresh
    /\ sealed' = [sealed EXCEPT !.fresh = FALSE]
    /\ UNCHANGED <<latest, authorized, owner, rpc, record, answer, current, lostAnswer>>

\* Mutant of ReadRecord: the record is read before the lock is taken.
ReadUnlocked(t) ==
    /\ Step(t, "idle", "check")
    /\ Overlap \/ Quiet(ProcOf[t])
    /\ sealed # Nothing
    /\ owner' = [owner EXCEPT ![ProcOf[t]] = t]
    /\ record' = [record EXCEPT ![t] = sealed]
    /\ UNCHANGED <<sealed, latest, authorized, answer, current, lostAnswer>>

\* The lock is taken and the record opened; without one _open raises, and the
\* call ends where it began.
ReadRecord(t) ==
    /\ Step(t, "idle", "check")
    /\ Overlap \/ Quiet(ProcOf[t])
    /\ sealed # Nothing
    /\ owner[ProcOf[t]] = NoThread
    /\ owner' = [owner EXCEPT ![ProcOf[t]] = t]
    /\ record' = [record EXCEPT ![t] = sealed]
    /\ UNCHANGED <<sealed, latest, authorized, answer, current, lostAnswer>>

\* A fresh token is handed out as it is.
ServeFresh(t) ==
    /\ rpc[t] = "check"
    /\ record[t].fresh
    /\ Leave(t)
    /\ UNCHANGED <<sealed, latest, authorized, lostAnswer>>

\* Without a refresh token only a new consent helps.
NeedsReauthorization(t) ==
    /\ rpc[t] = "check"
    /\ ~record[t].fresh /\ record[t].refresh = 0
    /\ Leave(t)
    /\ UNCHANGED <<sealed, latest, authorized, lostAnswer>>

StartRefresh(t) ==
    /\ Step(t, "check", "post")
    /\ ~record[t].fresh /\ record[t].refresh # 0
    /\ UNCHANGED <<sealed, latest, authorized, owner, record, answer, current, lostAnswer>>

Accepted(t) == latest[record[t].grant] = record[t].refresh

\* Google accepts the refresh token, and may issue its successor.
Granted(t, rotate, timed) ==
    /\ Step(t, "post", "reopen")
    /\ Accepted(t)
    /\ rotate => latest[record[t].grant] < MaxRotations
    /\ latest' = IF rotate THEN [latest EXCEPT ![record[t].grant] = @ + 1] ELSE latest
    /\ answer' = [answer EXCEPT ![t] =
                    [access |-> record[t].grant,
                     rotated |-> IF rotate THEN latest'[record[t].grant] ELSE 0,
                     timed |-> timed]]
    /\ UNCHANGED <<sealed, authorized, owner, record, current, lostAnswer>>

\* The request or its answer is lost, or the answer cannot be used: Google may
\* have rotated the token all the same.
AnswerLost(t, rotate) ==
    /\ rpc[t] = "post"
    /\ rotate => Accepted(t) /\ latest[record[t].grant] < MaxRotations
    /\ latest' = IF rotate THEN [latest EXCEPT ![record[t].grant] = @ + 1] ELSE latest
    /\ lostAnswer' = lostAnswer \cup {record[t].grant}
    /\ Leave(t)
    /\ UNCHANGED <<sealed, authorized>>

\* 400: the refresh token is not, or no longer, valid.
Rejected(t) ==
    /\ rpc[t] = "post"
    /\ ~Accepted(t)
    /\ Leave(t)
    /\ UNCHANGED <<sealed, latest, authorized, lostAnswer>>

\* replace_access_token reads the record back ...
Reopen(t) ==
    /\ Step(t, "reopen", "reseal")
    /\ current' = [current EXCEPT ![t] = sealed]
    /\ UNCHANGED <<sealed, latest, authorized, owner, record, answer, lostAnswer>>

\* Mutant of Replacement: the answer's refresh token is ignored.
ReplacementKeepsOld(t) ==
    [current[t] EXCEPT !.access = answer[t].access, !.fresh = answer[t].timed]

\* The record replace_access_token composes: the new access token, and the
\* refresh token of the answer or else the one it read back.
Replacement(t) ==
    [current[t] EXCEPT
        !.access = answer[t].access,
        !.grant = IF answer[t].rotated = 0 THEN @ ELSE answer[t].access,
        !.refresh = IF answer[t].rotated = 0 THEN @ ELSE answer[t].rotated,
        !.fresh = answer[t].timed]

\* ... and writes the new one, and the token is handed out.
Reseal(t) ==
    /\ rpc[t] = "reseal"
    /\ sealed' = Replacement(t)
    /\ Leave(t)
    /\ UNCHANGED <<latest, authorized, lostAnswer>>

\* The row cannot be read back, or not written: the answer is lost.
ResealFails(t) ==
    /\ rpc[t] \in {"reopen", "reseal"}
    /\ lostAnswer' = lostAnswer \cup {record[t].grant}
    /\ Leave(t)
    /\ UNCHANGED <<sealed, latest, authorized>>

\* The process is killed while it refreshes; its answer, if any, is lost.
Killed(n) ==
    /\ \E t \in Threads : ProcOf[t] = n /\ rpc[t] # "idle"
    /\ owner' = [owner EXCEPT ![n] = NoThread]
    /\ rpc' = [t \in Threads |-> IF ProcOf[t] = n THEN "idle" ELSE rpc[t]]
    /\ record' = [t \in Threads |-> IF ProcOf[t] = n THEN Nothing ELSE record[t]]
    /\ answer' = [t \in Threads |-> IF ProcOf[t] = n THEN NoAnswer ELSE answer[t]]
    /\ current' = [t \in Threads |-> IF ProcOf[t] = n THEN Nothing ELSE current[t]]
    /\ lostAnswer' = lostAnswer \cup
          {record[t].grant : t \in {s \in Threads : ProcOf[s] = n /\ rpc[s] \in {"reopen", "reseal"}}}
    /\ UNCHANGED <<sealed, latest, authorized>>

RefreshStep(t) ==
    \/ ReadRecord(t) \/ ServeFresh(t) \/ NeedsReauthorization(t) \/ StartRefresh(t)
    \/ \E rotate, timed \in BOOLEAN : Granted(t, rotate, timed)
    \/ \E rotate \in BOOLEAN : AnswerLost(t, rotate)
    \/ Rejected(t) \/ Reopen(t) \/ Reseal(t) \/ ResealFails(t)

RefreshNext ==
    \/ \E refresh \in {0, 1}, timed \in BOOLEAN : Authorize(refresh, timed)
    \/ Expire
    \/ \E t \in Threads : RefreshStep(t)
    \/ \E n \in Procs : Killed(n)

RefreshSpec == RefreshInit /\ [][RefreshNext]_vars

-----------------------------------------------------------------------------
\* The sealed access token and the sealed refresh token belong to one grant,
\* also when the user authorizes anew: "Refresh changes credentials, not
\* authority or content" (gateway/README.md:153).
OneAuthority == sealed.access = sealed.grant

\* The sealed refresh token is one Google accepts unless an answer that may
\* have carried its successor was lost: a rotated token is never overwritten
\* by its predecessor ("preserving the refresh token", gateway/README.md:157).
StillRefreshable ==
    sealed # Nothing /\ sealed.grant \notin lostAnswer =>
        \/ sealed.refresh = latest[sealed.grant]
        \/ \E t \in Threads : rpc[t] \in {"reopen", "reseal"} /\ record[t].grant = sealed.grant

\* Only a stale token is ever being refreshed: a caller that waited for the
\* lock looks at the record again and does not refresh what another thread has
\* just renewed (gateway/README.md:155, "serializes concurrent callers").
OnlyStaleIsRefreshed ==
    \A t \in Threads : rpc[t] \in {"post", "reopen", "reseal"} => ~sealed.fresh
=============================================================================
