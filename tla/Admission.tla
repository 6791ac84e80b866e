------------------------------ MODULE Admission ------------------------------
(***************************************************************************)
(* What the authorization gate promises: a call is admitted in one step,   *)
(* on a request and a decision that admit nobody else, and on a head that  *)
(* is no older than what the gate had accepted when it was asked.          *)
(***************************************************************************)
EXTENDS Naturals, Sequences

CONSTANTS
    Calls, Requests, Digests, Heads, Decisions,
    Auto,       \* the <<grant, version>> that need no approval per call
    None        \* nothing asked, no decision

VARIABLES
    published,  \* the heads the operator signed, in order
    mark,       \* the highest version accepted
    state,      \* state[c]: "new", "asked", "denied" or "admitted"
    asked,      \* asked[c]: the request, the payload and the mark of that moment
    warrant     \* warrant[c]: the decision that c was admitted on

vars == <<published, mark, state, asked, warrant>>

Init ==
    /\ \E h \in Heads : published = <<h>>
    /\ mark = 0
    /\ state = [c \in Calls |-> "new"]
    /\ asked = [c \in Calls |-> None]
    /\ warrant = [c \in Calls |-> None]

Publish(h) ==
    /\ published' = Append(published, h)
    /\ UNCHANGED <<mark, state, asked, warrant>>

\* The mark only ever rises, to a version that was signed.
Accept(v) ==
    /\ v > mark
    /\ mark' = v
    /\ UNCHANGED <<published, state, asked, warrant>>

Ask(c) ==
    /\ state[c] = "new"
    /\ state' = [state EXCEPT ![c] = "asked"]
    /\ \E r \in Requests, d \in Digests :
          asked' = [asked EXCEPT ![c] = [request |-> r, digest |-> d, since |-> mark]]
    /\ UNCHANGED <<published, mark, warrant>>

Deny(c) ==
    /\ state[c] = "asked"
    /\ state' = [state EXCEPT ![c] = "denied"]
    /\ asked' = [asked EXCEPT ![c] = None]
    /\ UNCHANGED <<published, mark, warrant>>

\* The decision, whatever else the cloud may have signed, is for this request and
\* this payload, and says of an approval what the grant says, ...
Fits(r, digest, d) ==
    /\ d.rid = r.rid /\ d.grant = r.grant /\ d.gver = r.gver
    /\ d.digest = digest
    /\ d.disposition = "authorized" <=> <<r.grant, r.gver>> \in Auto

\* ... and under a head that has the grant, that the mark has reached, and
\* that is not behind the mark the call began with.
Stands(r, since, v) ==
    /\ v \in since .. mark
    /\ published[v].active[r.grant] = r.gver

\* Neither has admitted another call.
Unused(r, d) ==
    \A b \in Calls : state[b] = "admitted" =>
        /\ <<asked[b].request.grant, asked[b].request.rid>> # <<r.grant, r.rid>>
        /\ warrant[b].id # d.id

Admit(c) ==
    /\ state[c] = "asked"
    /\ state' = [state EXCEPT ![c] = "admitted"]
    /\ \E d \in Decisions :
          /\ Fits(asked[c].request, asked[c].digest, d)
          /\ Stands(asked[c].request, asked[c].since, d.version)
          /\ Unused(asked[c].request, d)
          /\ warrant' = [warrant EXCEPT ![c] = d]
    /\ UNCHANGED <<published, mark, asked>>

Next ==
    \/ \E h \in Heads : Publish(h)
    \/ \E v \in DOMAIN published : Accept(v)
    \/ \E c \in Calls : Ask(c) \/ Deny(c) \/ Admit(c)

Spec == Init /\ [][Next]_vars
=============================================================================
