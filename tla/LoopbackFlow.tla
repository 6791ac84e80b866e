---------------------------- MODULE LoopbackFlow ----------------------------
(***************************************************************************)
(* The browser consent of gateway/oauth_listener.py: LoopbackOAuthFlow.run *)
(* waits while a listener on an ephemeral port of the local machine serves *)
(* one connection at a time, and takes from it the callback that Google's  *)
(* redirect carries.  Several flows may run, each in a process of its own; *)
(* a port that one has given back may be bound by the next.                *)
(*                                                                         *)
(* A flow's state, PKCE verifier and authorization code are known by the   *)
(* flow itself.  Browser, user and Google are external.                    *)
(***************************************************************************)
CONSTANTS
    Flows,      \* calls of run
    NoFlow,     \* the parameter is absent, or names no flow
    Ports,      \* ephemeral ports
    NoPort

ASSUME LoopbackAssumption == NoFlow \notin Flows /\ NoPort \notin Ports

VARIABLES
    step,       \* step[f]: the next step of flow f
    port,       \* port[f]: the port its server is bound to, or NoPort
    serving,    \* serving[f]: the connection the server is busy with
    captured,   \* captured[f]: server.captured
    done,       \* done[f]: server.done is set
    page,       \* page[f]: the port in the redirect URI of f's consent page
    answer,     \* answer[f]: what the user said on that page
    posted,     \* posted[f]: the code f sent to the token endpoint
    tokens      \* tokens[f]: run has a TokenResult to return

serverVars == <<port, serving, captured, done>>
userVars == <<page, answer>>
flowVars == <<step, serverVars, userVars, posted, tokens>>

\* The first value of each parameter of a callback.
Query == [state : Flows \cup {NoFlow}, code : Flows \cup {NoFlow}, error : BOOLEAN]

NoQuery == [state |-> NoFlow, code |-> NoFlow, error |-> FALSE]

\* at: "none", or "silent" (a client that connects and sends nothing, as
\* browsers do ahead of time), "other" (not the callback path), "callback", or
\* "reply" (captured, the answer not written yet).
Connection == [at : {"none", "silent", "other", "callback", "reply"}, query : Query]

Free == [at |-> "none", query |-> NoQuery]

FlowSteps == {"bind", "open", "wait", "exchange", "close"}

LoopbackTypeOK ==
    /\ port \in [Flows -> Ports \cup {NoPort}]
    /\ serving \in [Flows -> Connection]
    /\ captured \in [Flows -> Query]
    /\ done \in [Flows -> BOOLEAN]
    /\ page \in [Flows -> Ports \cup {NoPort}]
    /\ answer \in [Flows -> {"none", "granted", "denied"}]
    /\ posted \in [Flows -> Flows \cup {NoFlow}]
    /\ tokens \in [Flows -> BOOLEAN]

LoopbackInit ==
    /\ port = [f \in Flows |-> NoPort]
    /\ serving = [f \in Flows |-> Free]
    /\ captured = [f \in Flows |-> NoQuery]
    /\ done = [f \in Flows |-> FALSE]
    /\ page = [f \in Flows |-> NoPort]
    /\ answer = [f \in Flows |-> "none"]
    /\ posted = [f \in Flows |-> NoFlow]
    /\ tokens = [f \in Flows |-> FALSE]

-----------------------------------------------------------------------------
Go(f, here, there) ==
    /\ step[f] = here
    /\ step' = [step EXCEPT ![f] = there]

\* The process of f ends, or gives up: its socket is closed with it.
Release(f) ==
    /\ port' = [port EXCEPT ![f] = NoPort]
    /\ serving' = [serving EXCEPT ![f] = Free]
    /\ captured' = [captured EXCEPT ![f] = NoQuery]
    /\ done' = [done EXCEPT ![f] = FALSE]

\* Port 0 is bound, and the thread that serves it started.
Bind(f, q) ==
    /\ Go(f, "bind", "open")
    /\ \A g \in Flows : port[g] # q
    /\ port' = [port EXCEPT ![f] = q]
    /\ UNCHANGED <<serving, captured, done, userVars, posted, tokens>>

BindFails(f) ==
    /\ Go(f, "bind", "failed")
    /\ UNCHANGED <<serverVars, userVars, posted, tokens>>

\* The redirect URI is announced and the consent page opened.  A browser that
\* does not come up is not noticed: its page is never answered.
OpenBrowser(f) ==
    /\ Go(f, "open", "wait")
    /\ page' = [page EXCEPT ![f] = port[f]]
    /\ UNCHANGED <<serverVars, answer, posted, tokens>>

\* Announcing or opening raises, and the finally clause runs.
OpenFails(f) ==
    /\ Go(f, "open", "close")
    /\ UNCHANGED <<serverVars, userVars, posted, tokens>>

\* Mutant: the timeout leaves without the finally clause.
TimeoutLeaves(f) ==
    /\ Go(f, "wait", "failed")
    /\ ~done[f]
    /\ UNCHANGED <<serverVars, userVars, posted, tokens>>

\* OAuthTimeoutError
Timeout(f) ==
    /\ Go(f, "wait", "close")
    /\ ~done[f]
    /\ UNCHANGED <<serverVars, userVars, posted, tokens>>

\* Mutant: the state of the callback is not compared.
HoldsAnyCode(f) == ~captured[f].error /\ captured[f].code # NoFlow

\* extract_authorization_code returns the code: the state is the flow's own,
\* there is no error and there is a code.
HoldsCode(f) ==
    /\ captured[f].state = f
    /\ ~captured[f].error /\ captured[f].code # NoFlow

\* The callback is looked at once run has woken up, so a later one may have
\* replaced the one that woke it.
Extract(f) ==
    /\ Go(f, "wait", "exchange")
    /\ done[f] /\ HoldsCode(f)
    /\ posted' = [posted EXCEPT ![f] = captured[f].code]
    /\ UNCHANGED <<serverVars, userVars, tokens>>

\* StateMismatchError, AuthorizationError or MissingCodeError
ExtractFails(f) ==
    /\ Go(f, "wait", "close")
    /\ done[f] /\ ~HoldsCode(f)
    /\ UNCHANGED <<serverVars, userVars, posted, tokens>>

\* Google redeems a code for the verifier it was asked for with.
Exchange(f) ==
    /\ Go(f, "exchange", "close")
    /\ posted[f] = f
    /\ tokens' = [tokens EXCEPT ![f] = TRUE]
    /\ UNCHANGED <<serverVars, userVars, posted>>

\* The code is refused, or the answer is lost or holds no access token.
ExchangeFails(f) ==
    /\ Go(f, "exchange", "close")
    /\ UNCHANGED <<serverVars, userVars, posted, tokens>>

\* shutdown waits until the server has done with its connection.
Close(f) ==
    /\ Go(f, "close", IF tokens[f] THEN "tokens" ELSE "failed")
    /\ serving[f] = Free
    /\ Release(f)
    /\ UNCHANGED <<userVars, posted, tokens>>

-----------------------------------------------------------------------------
(* The server thread, and its clients. *)

\* No connection is taken once shutdown has been called.
Listening(f) == port[f] # NoPort /\ step[f] \in {"open", "wait", "exchange"}

Accept(f, c) ==
    /\ Listening(f) /\ serving[f] = Free
    /\ serving' = [serving EXCEPT ![f] = c]
    /\ UNCHANGED <<step, port, captured, done, userVars, posted, tokens>>

\* The user answers the consent page of g, at any time after it came up.
AnswerPage(g, given) ==
    /\ page[g] # NoPort /\ answer[g] = "none"
    /\ answer' = [answer EXCEPT ![g] = given]
    /\ UNCHANGED <<step, serverVars, page, posted, tokens>>

RedirectOf(g) ==
    [state |-> g, code |-> IF answer[g] = "granted" THEN g ELSE NoFlow,
     error |-> answer[g] = "denied"]

\* The browser follows the redirect, and does so again if the page is reloaded.
\* It reaches whoever has that port, which may be another flow by now.
Redirect(f, g) ==
    /\ answer[g] # "none" /\ port[f] = page[g]
    /\ Accept(f, [at |-> "callback", query |-> RedirectOf(g)])

\* A request of no flow for the callback path or another one, or a client that
\* only connects.
Stray(f, kind) == Accept(f, [at |-> kind, query |-> NoQuery])

Capture(f) ==
    /\ serving[f].at = "callback"
    /\ captured' = [captured EXCEPT ![f] = serving[f].query]
    /\ serving' = [serving EXCEPT ![f].at = "reply"]
    /\ UNCHANGED <<step, port, done, userVars, posted, tokens>>

Reply(f) ==
    /\ serving[f].at = "reply"
    /\ done' = [done EXCEPT ![f] = TRUE]
    /\ serving' = [serving EXCEPT ![f] = Free]
    /\ UNCHANGED <<step, port, captured, userVars, posted, tokens>>

\* The client is gone before the answer is written: done is not set.
ReplyFails(f) ==
    /\ serving[f].at = "reply"
    /\ serving' = [serving EXCEPT ![f] = Free]
    /\ UNCHANGED <<step, port, captured, done, userVars, posted, tokens>>

NotFound(f) ==
    /\ serving[f].at = "other"
    /\ serving' = [serving EXCEPT ![f] = Free]
    /\ UNCHANGED <<step, port, captured, done, userVars, posted, tokens>>

\* The handler of a silent client reads without a timeout until it hangs up.
HangUp(f) ==
    /\ serving[f].at = "silent"
    /\ serving' = [serving EXCEPT ![f] = Free]
    /\ UNCHANGED <<step, port, captured, done, userVars, posted, tokens>>

-----------------------------------------------------------------------------
RunStep(f) ==
    \/ \E q \in Ports : Bind(f, q)
    \/ BindFails(f) \/ OpenBrowser(f) \/ OpenFails(f) \/ Timeout(f)
    \/ Extract(f) \/ ExtractFails(f) \/ Exchange(f) \/ ExchangeFails(f) \/ Close(f)

Serve(f) == Capture(f) \/ Reply(f) \/ ReplyFails(f) \/ NotFound(f)

Outside(f) ==
    \/ \E given \in {"granted", "denied"} : AnswerPage(f, given)
    \/ \E g \in Flows : Redirect(f, g)
    \/ \E kind \in {"silent", "other", "callback"} : Stray(f, kind)

-----------------------------------------------------------------------------
\* A flow sends the token endpoint only a code that its own user granted it,
\* also when strays arrive, a callback replaces another or the port was the
\* port of an earlier flow ("state before the code", oauth_listener.py:14-15).
CodeIsOwn ==
    \A f \in Flows : posted[f] # NoFlow => posted[f] = f /\ answer[f] = "granted"
=============================================================================
