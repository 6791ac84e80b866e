----------------------------- MODULE Disconnect -----------------------------
(***************************************************************************)
(* Disconnect with its remote leg: while the daemon tears a connection     *)
(* down in its token store, gateway/token_revoke.py asks Google to revoke  *)
(* the token that was read into memory beforehand, and reports what became *)
(* of that as one of three outcomes.  Neither leg waits for the other.     *)
(*                                                                         *)
(* What Google does with a request, and when, is external.  The variables  *)
(* are about the last Disconnect; a daemon that has died waits no longer.  *)
(***************************************************************************)
EXTENDS SealedTokenStore

VARIABLES
    leg,        \* the revocation: "off", "ready" or "posted"
    held,       \* the tokens in the record of the connection torn down
    request,    \* its request: "none", "flying", "carried" out or "refused"
    reported    \* the RevokeOutcome

remoteVars == <<leg, held, request, reported>>
disconnectVars == <<vars, remoteVars>>

Tokens == {"refresh_token", "access_token"}

\* "raised" is none of the three: revoke has not returned.
Outcomes == {"none", "confirmed", "failed", "unknown", "raised"}

RemoteTypeOK ==
    /\ leg \in {"off", "ready", "posted"}
    /\ held \in SUBSET Tokens
    /\ request \in {"none", "flying", "carried", "refused"}
    /\ reported \in Outcomes

DisconnectInit ==
    /\ Init
    /\ leg = "off" /\ held = {} /\ request = "none" /\ reported = "none"

-----------------------------------------------------------------------------
\* Disconnect begins: the record is in memory before anything is cleared.
TearDown(tokens) ==
    /\ leg = "off"
    /\ DisconnectVoid
    /\ leg' = "ready" /\ held' = tokens
    /\ request' = "none" /\ reported' = "none"

\* The refresh token, which takes the whole grant with it, or else the access
\* token.
TokenToRevoke == IF "refresh_token" \in held THEN "refresh_token" ELSE "access_token"

Report(outcome) ==
    /\ leg' = "off" /\ reported' = outcome
    /\ UNCHANGED <<vars, held, request>>

\* There is no token, or the egress guard keeps the request in.
NeverSent == leg = "ready" /\ Report("unknown")

Post ==
    /\ leg = "ready" /\ held # {}
    /\ leg' = "posted" /\ request' = "flying"
    /\ UNCHANGED <<vars, held, reported>>

\* Google carries the request out or refuses it, be it that nobody waits for
\* the answer any more.
Decide(what) ==
    /\ request = "flying"
    /\ request' = what
    /\ UNCHANGED <<vars, leg, held, reported>>

\* The tokens that no longer work at Google.
Dead ==
    IF request # "carried" THEN {}
    ELSE IF TokenToRevoke = "refresh_token" THEN Tokens ELSE {TokenToRevoke}

\* Mutant: silence is taken for a refusal.
ClassifiedHasty(status) ==
    CASE status = "2xx" -> "confirmed" [] status = "5xx" -> "unknown" [] OTHER -> "failed"

\* _classify, and the exceptions of the request itself: "none" is a timeout or
\* a failed transport.
Classified(status) ==
    CASE status = "2xx" -> "confirmed" [] status = "4xx" -> "failed" [] OTHER -> "unknown"

\* A success or a refusal is Google's word; any other answer, a redirect or a
\* server error, and silence come whatever Google did or is yet to do.
Answer(status) ==
    /\ leg = "posted"
    /\ status = "2xx" => request = "carried"
    /\ status = "4xx" => request = "refused"
    /\ Report(Classified(status))

\* An answer that breaks off raises http.client.HTTPException, which is none of
\* the exceptions revoke handles.
AnswerBreaksOff == leg = "posted" /\ Report("raised")

\* The daemon dies, and the thread that waits with it, be it that the row is
\* already flagged.
DieWaiting ==
    /\ \/ Crash
       \/ leg # "off" /\ ~connected /\ tearing = "no" /\ UNCHANGED vars
    /\ leg' = "off"
    /\ UNCHANGED <<held, request, reported>>

\* What else goes on in the store: of its actions only a disconnect and a crash
\* touch the remote leg.
StoreStep ==
    \/ \E o \in Ops :
        \/ StartConnect(o) \/ StartRefresh(o)
        \/ \E ack \in BOOLEAN : SaveCommit(o, ack)
        \/ SaveRefused(o) \/ Cancel(o) \/ MarkAckConfirmed(o)
    \/ DisconnectClear \/ DisconnectFlag \/ Recover
    \/ \E g \in 1..MaxGen : RestoreBarrier(g)

RemoteStep ==
    \/ \E tokens \in SUBSET Tokens : TearDown(tokens)
    \/ NeverSent \/ Post \/ AnswerBreaksOff
    \/ \E status \in {"2xx", "4xx", "5xx", "none"} : Answer(status)
    \/ \E what \in {"carried", "refused"} : Decide(what)

DisconnectNext ==
    \/ StoreStep /\ UNCHANGED remoteVars
    \/ RemoteStep
    \/ DieWaiting

DisconnectSpec == DisconnectInit /\ [][DisconnectNext]_disconnectVars

-----------------------------------------------------------------------------
\* A revocation reported as confirmed leaves no token of the connection that
\* works, and one reported as failed was not and will not be carried out: a
\* timeout "is NOT proof the server did not process the revocation"
\* (token_revoke.py:20-22), however late Google gets to it.
RevokeOutcomeIsTrue ==
    /\ reported = "confirmed" => held \subseteq Dead
    /\ reported = "failed" => request = "refused"
=============================================================================
