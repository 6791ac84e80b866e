-------------------------- MODULE MCAuthorizedSend --------------------------
(* A small instance of the authorized send, and with it of the gate. *)
EXTENDS AuthorizedSend, TLC

CONSTANTS d1, d2

\* Two proposals with different payloads.
TwoPayloads == [p \in Ids |-> IF p = (CHOOSE q \in Ids : TRUE) THEN d1 ELSE d2]

\* The first version of a grant is auto, its successor asks per call.
FirstVersions == Grants \X {1}

Symmetry ==
    Permutations(Workers) \cup Permutations(RequestIds) \cup Permutations(DecisionIds)

\* Every proposal is stored with its payload, as intake guarantees; a call for
\* one that is not stored ends where it begins.
StoredInit == OrchInit /\ (\A p \in Ids : status[p] # "absent") /\ payloads = Ids

StoredSpec == StoredInit /\ [][OrchNext]_allVars
=============================================================================
