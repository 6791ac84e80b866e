------------------------------- MODULE Connect -------------------------------
(***************************************************************************)
(* Connecting an account: the entry points (the button of                  *)
(* gateway/local_connect.py, a deep link through gateway/trigger.py, the   *)
(* authorize command), the client file of gateway/bundle.py, the consent   *)
(* flow, and then the key of keystore/providers.py under which the token   *)
(* is sealed.  Every flow is one process; what they share is the client    *)
(* bundle, the keychain entry with the data-encryption key and the token   *)
(* row.  A key is known by the flow that provisioned it.                   *)
(***************************************************************************)
EXTENDS LoopbackFlow

CONSTANT Overlap    \* whether two flows may be inside provision at once, past its look

ASSUME ConnectAssumption == Overlap \in BOOLEAN

VARIABLES
    entry,      \* entry[f]: how f was started
    bundle,     \* the bundled client file
    raw,        \* raw[f]: the bytes f read of it
    client,     \* client[f]: the OAuth client f runs with
    dek,        \* the keychain entry: the flow whose key it is, or NoFlow
    sealKey,    \* sealKey[f]: the key f sealed its token with
    row         \* the token row

clientVars == <<entry, bundle, raw, client>>
keyVars == <<dek, sealKey, row>>
connectVars == <<flowVars, clientVars, keyVars>>

\* "click" asks the user first and is bundled; "bundled" is authorize --bundled;
\* "file" is authorize --client-secret-file.
Entries == {"click", "bundled", "file"}

Files == {"pinned", "changed"}

Clients == Files \cup {"none", "own"}

Row == [by : Flows, key : Flows, client : Clients]

NoRow == [by |-> NoFlow, key |-> NoFlow, client |-> "none"]

Ended == {"done", "failed"}

KeySteps == {"tokens", "provision", "set", "seal", "put"}

ConnectSteps == {"idle", "confirm", "read", "verify"} \cup FlowSteps \cup KeySteps \cup Ended

ConnectTypeOK ==
    /\ LoopbackTypeOK
    /\ step \in [Flows -> ConnectSteps]
    /\ entry \in [Flows -> Entries \cup {"none"}]
    /\ bundle \in Files
    /\ raw \in [Flows -> Files \cup {"none"}]
    /\ client \in [Flows -> Clients]
    /\ dek \in Flows \cup {NoFlow}
    /\ sealKey \in [Flows -> Flows \cup {NoFlow}]
    /\ row \in Row \cup {NoRow}

ConnectInit ==
    /\ LoopbackInit
    /\ step = [f \in Flows |-> "idle"]
    /\ entry = [f \in Flows |-> "none"]
    /\ bundle \in Files
    /\ raw = [f \in Flows |-> "none"]
    /\ client = [f \in Flows |-> "none"]
    /\ dek = NoFlow
    /\ sealKey = [f \in Flows |-> NoFlow]
    /\ row = NoRow

-----------------------------------------------------------------------------
(* The entry points and the client. *)

Start(f, e) ==
    /\ Go(f, "idle", IF e = "click" THEN "confirm" ELSE "read")
    /\ entry' = [entry EXCEPT ![f] = e]
    /\ UNCHANGED <<serverVars, userVars, posted, tokens, bundle, raw, client, keyVars>>

\* connect_once and handle_authorize_trigger: nothing happens before the yes.
Confirm(f) ==
    /\ Go(f, "confirm", "read")
    /\ UNCHANGED <<serverVars, userVars, posted, tokens, clientVars, keyVars>>

\* The user says no; a URI that is no authorize trigger ends the same way, before
\* anybody is asked.
Decline(f) ==
    /\ Go(f, "confirm", "failed")
    /\ UNCHANGED <<serverVars, userVars, posted, tokens, clientVars, keyVars>>

\* An update or the user writes the bundled client file.
ReplaceBundle(x) ==
    /\ bundle # x
    /\ bundle' = x
    /\ UNCHANGED <<flowVars, entry, raw, client, keyVars>>

\* The operator's own client-secret file is taken as it is.
ReadClientFile(f) ==
    /\ Go(f, "read", "bind")
    /\ entry[f] = "file"
    /\ client' = [client EXCEPT ![f] = "own"]
    /\ UNCHANGED <<serverVars, userVars, posted, tokens, entry, bundle, raw, keyVars>>

\* The pin is injected by local_connect's configuration; the constant that the
\* command uses is not set in this repository.
HasPin(f) == entry[f] = "click"

\* load_bundled_client reads the file once ...
ReadBundle(f) ==
    /\ Go(f, "read", "verify")
    /\ HasPin(f)
    /\ raw' = [raw EXCEPT ![f] = bundle]
    /\ UNCHANGED <<serverVars, userVars, posted, tokens, entry, bundle, client, keyVars>>

\* Mutant: the file is opened again to parse it.
ReopenBundle(f) ==
    /\ Go(f, "verify", "bind")
    /\ raw[f] = "pinned"
    /\ client' = [client EXCEPT ![f] = bundle]
    /\ UNCHANGED <<serverVars, userVars, posted, tokens, entry, bundle, raw, keyVars>>

\* ... compares the hash of those bytes with the pin and parses those bytes.
VerifyBundle(f) ==
    /\ Go(f, "verify", "bind")
    /\ raw[f] = "pinned"
    /\ client' = [client EXCEPT ![f] = raw[f]]
    /\ UNCHANGED <<serverVars, userVars, posted, tokens, entry, bundle, raw, keyVars>>

\* No usable pin, or a file that is absent, unreadable or malformed.
ReadFails(f) ==
    /\ Go(f, "read", "failed")
    /\ UNCHANGED <<serverVars, userVars, posted, tokens, clientVars, keyVars>>

\* The bytes are not the pinned ones.
VerifyFails(f) ==
    /\ Go(f, "verify", "failed")
    /\ raw[f] # "pinned"
    /\ UNCHANGED <<serverVars, userVars, posted, tokens, clientVars, keyVars>>

-----------------------------------------------------------------------------
(* The key and the row, once run has returned the tokens. *)

OthersKeepOff(f) == Overlap \/ \A g \in Flows \ {f} : step[g] # "set"

\* Mutant: a keychain that does not answer has no entry.
NoneOrOutage == TRUE

\* get_password returns None, which alone means that there is no key.
NoEntry == dek = NoFlow

\* _ensure_dek: an existing key is used ...
FindDek(f) ==
    /\ Go(f, "tokens", "seal")
    /\ ~NoEntry
    /\ UNCHANGED <<serverVars, userVars, posted, tokens, clientVars, keyVars>>

\* ... and only a missing one is provisioned.
NeedDek(f) ==
    /\ Go(f, "tokens", "provision")
    /\ NoEntry
    /\ UNCHANGED <<serverVars, userVars, posted, tokens, clientVars, keyVars>>

\* provision looks again, and refuses to overwrite what it finds ...
CheckAbsent(f) ==
    /\ Go(f, "provision", "set")
    /\ OthersKeepOff(f)
    /\ NoEntry
    /\ UNCHANGED <<serverVars, userVars, posted, tokens, clientVars, keyVars>>

RefuseOverwrite(f) ==
    /\ Go(f, "provision", "failed")
    /\ ~NoEntry
    /\ UNCHANGED <<serverVars, userVars, posted, tokens, clientVars, keyVars>>

\* ... but writes in a second call to the keychain.
SetDek(f) ==
    /\ Go(f, "set", "seal")
    /\ dek' = f
    /\ UNCHANGED <<serverVars, userVars, posted, tokens, clientVars, sealKey, row>>

\* AEADCipher.seal asks the keychain for the key once more.
Seal(f) ==
    /\ Go(f, "seal", "put")
    /\ sealKey' = [sealKey EXCEPT ![f] = dek]
    /\ UNCHANGED <<serverVars, userVars, posted, tokens, clientVars, dek, row>>

\* SealedTokenStore.store replaces the row.
PutRow(f) ==
    /\ Go(f, "put", "done")
    /\ row' = [by |-> f, key |-> sealKey[f], client |-> client[f]]
    /\ UNCHANGED <<serverVars, userVars, posted, tokens, clientVars, dek, sealKey>>

\* The keychain is locked or its entry invalid, or the database fails.
KeyStepFails(f) ==
    /\ step[f] \in KeySteps
    /\ step' = [step EXCEPT ![f] = "failed"]
    /\ UNCHANGED <<serverVars, userVars, posted, tokens, clientVars, keyVars>>

\* The process is killed, its listener with it.
Killed(f) ==
    /\ step[f] \notin {"idle"} \cup Ended
    /\ step' = [step EXCEPT ![f] = "failed"]
    /\ Release(f)
    /\ UNCHANGED <<userVars, posted, tokens, clientVars, keyVars>>

-----------------------------------------------------------------------------
ClientStep(f) ==
    ReadClientFile(f) \/ ReadBundle(f) \/ ReadFails(f) \/ VerifyBundle(f) \/ VerifyFails(f)

KeyStep(f) ==
    \/ FindDek(f) \/ NeedDek(f) \/ CheckAbsent(f) \/ RefuseOverwrite(f)
    \/ SetDek(f) \/ Seal(f) \/ PutRow(f) \/ KeyStepFails(f)

Consenting(f) == RunStep(f) /\ UNCHANGED <<clientVars, keyVars>>

Serving(f) == Serve(f) /\ UNCHANGED <<clientVars, keyVars>>

ClientHangsUp(f) == HangUp(f) /\ UNCHANGED <<clientVars, keyVars>>

OutsideStep(f) == Outside(f) /\ UNCHANGED <<clientVars, keyVars>>

ConnectNext ==
    \/ \E f \in Flows :
          \/ \E e \in Entries : Start(f, e)
          \/ Confirm(f) \/ Decline(f) \/ ClientStep(f) \/ Consenting(f)
          \/ Serving(f) \/ ClientHangsUp(f) \/ OutsideStep(f)
          \/ KeyStep(f) \/ Killed(f)
    \/ \E x \in Files : ReplaceBundle(x)

\* A process that runs goes on, its server thread too, and a client that says
\* nothing hangs up in the end; the user need not do anything.
ConnectFairness ==
    \A f \in Flows :
        /\ WF_connectVars(ClientStep(f) \/ Consenting(f) \/ KeyStep(f))
        /\ WF_connectVars(Serving(f)) /\ WF_connectVars(ClientHangsUp(f))

ConnectSpec == ConnectInit /\ [][ConnectNext]_connectVars /\ ConnectFairness

-----------------------------------------------------------------------------
\* A click connects with no other client than the pinned one, however the file
\* is replaced while it is being checked ("never re-read the path", bundle.py:18).
OnlyPinnedClient ==
    \A f \in Flows : entry[f] = "click" /\ page[f] # NoPort => client[f] = "pinned"

\* The sealed token can be opened with the key in the keychain: connecting again
\* does not replace the key "out from under sealed data" (providers.py:70-72).
TokenOpens == row # NoRow => row.key = dek

\* A flow that has bound its listener ends and gives the port back, whether or not
\* the user answers and whatever comes to the port, as long as a client that
\* connects and says nothing hangs up in the end: run has a timeout, but its
\* finally clause waits for the connection being served, which has none (the
\* fairness of ClientHangsUp).
EveryFlowEnds ==
    \A f \in Flows : step[f] \in FlowSteps ~> step[f] \in Ended /\ port[f] = NoPort
=============================================================================
