------------------------------- MODULE OneMail -------------------------------
(***************************************************************************)
(* What the send machine promises about a proposal, whoever calls it and   *)
(* however often: approved once, put to Gmail at most once and only while  *)
(* approved, and settled once, as something that may be said of what Gmail *)
(* did.                                                                    *)
(***************************************************************************)
EXTENDS Naturals

CONSTANT Ids

VARIABLES
    standing,   \* standing[p]: what the store says of proposal p
    posted,     \* posted[p]: the requests made for it
    taken       \* taken[p]: how many of those Gmail accepted

vars == <<standing, posted, taken>>

Init ==
    /\ standing \in [Ids -> {"absent", "pending"}]
    /\ posted = [p \in Ids |-> 0]
    /\ taken = [p \in Ids |-> 0]

Becomes(p, old, new) ==
    /\ standing[p] = old
    /\ standing' = [standing EXCEPT ![p] = new]
    /\ UNCHANGED <<posted, taken>>

\* A proposal is stored, or taken back before anybody was told of it.
Store(p) == Becomes(p, "absent", "pending")

Withdraw(p) == Becomes(p, "pending", "absent")

Approve(p) == Becomes(p, "pending", "confirmed")

Expire(p) == Becomes(p, "pending", "failed")

\* The one request, which Gmail accepts or not.
Mail(p, accepted) ==
    /\ standing[p] = "confirmed" /\ posted[p] = 0
    /\ posted' = [posted EXCEPT ![p] = 1]
    /\ taken' = IF accepted THEN [taken EXCEPT ![p] = 1] ELSE taken
    /\ UNCHANGED standing

\* What may be said of the mail: "outcome_unknown" at any time.
IsTrue(p, s) ==
    /\ s = "sent" => taken[p] = 1
    /\ s = "failed" => taken[p] = 0

Settle(p, s) == IsTrue(p, s) /\ Becomes(p, "confirmed", s)

Next ==
    \E p \in Ids :
        \/ Store(p) \/ Withdraw(p) \/ Approve(p) \/ Expire(p)
        \/ \E accepted \in BOOLEAN : Mail(p, accepted)
        \/ \E s \in {"sent", "failed", "outcome_unknown"} : Settle(p, s)

Spec == Init /\ [][Next]_vars
=============================================================================
