------------------------------ MODULE Gateway ------------------------------
(***************************************************************************)
(* The gateway from a request to a mail: proposal intake and the send path *)
(* over one store.  An agent proposes, is answered with a proposal id, and *)
(* only an id that was answered can be named in a confirm or expire call.  *)
(***************************************************************************)
EXTENDS ProposalIntake, SendFSM

\* The ids some caller knows: what propose has returned.
Known == {a[2] : a \in answers}

GatewayInit == StoreInit /\ IntakeInit /\ SendInit

Intake == IntakeNext /\ UNCHANGED sendVars

Sending == SendNext(Known) /\ UNCHANGED intakeVars

GatewayNext ==
    \/ Intake
    \/ Sending
    \/ Tick /\ UNCHANGED <<intakeVars, sendVars>>

gatewayVars == <<storeVars, intakeVars, sendVars>>

GatewaySpec == GatewayInit /\ [][GatewayNext]_gatewayVars

-----------------------------------------------------------------------------
GatewayTypeOK == StoreTypeOK /\ IntakeTypeOK /\ SendTypeOK

\* One idempotency key leads to at most one request to Gmail, however often
\* and however concurrently the key is proposed, retried or abandoned, as long
\* as no two callers of a proposal are between a check and its write ("a retry
\* cannot fork a second send", store/proposals.py:38-39).
OneMailPerKey ==
    \A p, q \in Ids :
        /\ wire[p] > 0 /\ wire[q] > 0 /\ keyOf[p] = keyOf[q] /\ keyOf[p] # NoKey
        => p = q /\ wire[p] = 1

\* The sender always finds the frozen bytes of the proposal it sends: intake's
\* clean-up of a lost claim never reaches a proposal a caller was told of.
SenderFindsPayload ==
    \A w \in Workers : target[w] # NoId =>
        status[target[w]] # "absent" /\ target[w] \in payloads
=============================================================================
