---------------------------- MODULE ConnectProofs ----------------------------
(***************************************************************************)
(* Proofs about Connect for every set of flows and ports.                  *)
(***************************************************************************)
EXTENDS Connect, TLAPS

\* A callback that carries a code names the flow that the code was granted to.
OwnQuery(q) == q.code # NoFlow => q.state = q.code /\ answer[q.code] = "granted"

ConsentInv ==
    /\ \A f \in Flows : OwnQuery(captured[f]) /\ OwnQuery(serving[f].query)
    /\ CodeIsOwn

\* A flow has a client before it opens a page, and that of a click is pinned.
ClientInv ==
    \A f \in Flows :
        /\ step[f] \in {"idle", "confirm", "read", "verify"} => client[f] = "none" /\ page[f] = NoPort
        /\ step[f] \in FlowSteps => client[f] # "none"
        /\ entry[f] = "click" => client[f] \in {"none", "pinned"}
        /\ page[f] # NoPort => client[f] # "none"

\* One flow at a time is between provision's look and its write; it writes a key
\* only where there is none, and what is sealed is sealed with that key.
AtKey(f) == step[f] = "set"

KeyInv ==
    /\ \A f, g \in Flows : AtKey(f) /\ AtKey(g) => f = g
    /\ row # NoRow => row.key = dek /\ dek # NoFlow
    /\ \A f \in Flows :
          /\ step[f] = "set" => dek = NoFlow
          /\ step[f] = "put" => sealKey[f] = dek

\* Overlapping or not, a flow that seals finds a key in the keychain.
KeyThere ==
    \A f \in Flows :
        /\ step[f] \in {"seal", "put"} => dek # NoFlow
        /\ step[f] = "put" => sealKey[f] # NoFlow

-----------------------------------------------------------------------------
\* A step of the flow, its server or its clients.
LEMMA LoopbackTypeStep ==
    ASSUME LoopbackTypeOK, NEW f \in Flows,
           RunStep(f) \/ Serve(f) \/ HangUp(f) \/ Outside(f)
    PROVE  LoopbackTypeOK'
<1>. USE LoopbackAssumption DEF LoopbackTypeOK, serverVars, userVars, Connection, Query, NoQuery, Free
<1>1. ASSUME NEW q \in Ports, Bind(f, q)
      PROVE  LoopbackTypeOK'
  BY <1>1 DEF Bind
<1>2. ASSUME BindFails(f)
      PROVE  LoopbackTypeOK'
  BY <1>2 DEF BindFails
<1>3. ASSUME OpenBrowser(f)
      PROVE  LoopbackTypeOK'
  BY <1>3 DEF OpenBrowser
<1>4. ASSUME OpenFails(f)
      PROVE  LoopbackTypeOK'
  BY <1>4 DEF OpenFails
<1>5. ASSUME Timeout(f)
      PROVE  LoopbackTypeOK'
  BY <1>5 DEF Timeout
<1>6. ASSUME Extract(f)
      PROVE  LoopbackTypeOK'
  BY <1>6 DEF Extract
<1>7. ASSUME ExtractFails(f)
      PROVE  LoopbackTypeOK'
  BY <1>7 DEF ExtractFails
<1>8. ASSUME Exchange(f)
      PROVE  LoopbackTypeOK'
  BY <1>8 DEF Exchange
<1>9. ASSUME ExchangeFails(f)
      PROVE  LoopbackTypeOK'
  BY <1>9 DEF ExchangeFails
<1>10. ASSUME Close(f)
      PROVE  LoopbackTypeOK'
  BY <1>10 DEF Close, Release
<1>11. ASSUME Capture(f)
      PROVE  LoopbackTypeOK'
  BY <1>11 DEF Capture
<1>12. ASSUME Reply(f)
      PROVE  LoopbackTypeOK'
  BY <1>12 DEF Reply
<1>13. ASSUME ReplyFails(f)
      PROVE  LoopbackTypeOK'
  BY <1>13 DEF ReplyFails
<1>14. ASSUME NotFound(f)
      PROVE  LoopbackTypeOK'
  BY <1>14 DEF NotFound
<1>15. ASSUME HangUp(f)
      PROVE  LoopbackTypeOK'
  BY <1>15 DEF HangUp
<1>16. ASSUME NEW given \in {"granted", "denied"}, AnswerPage(f, given)
      PROVE  LoopbackTypeOK'
  BY <1>16 DEF AnswerPage
<1>17. ASSUME NEW g \in Flows, Redirect(f, g)
      PROVE  LoopbackTypeOK'
  BY <1>17 DEF Redirect, Accept, RedirectOf
<1>18. ASSUME NEW kind \in {"silent", "other", "callback"}, Stray(f, kind)
      PROVE  LoopbackTypeOK'
  BY <1>18 DEF Stray, Accept
<1>. HIDE DEF LoopbackTypeOK
<1>. QED
  BY <1>1, <1>2, <1>3, <1>4, <1>5, <1>6, <1>7, <1>8, <1>9,
     <1>10, <1>11, <1>12, <1>13, <1>14, <1>15, <1>16, <1>17, <1>18
  DEF RunStep, Serve, Outside

\* The browser consent leaves the rest of a connection alone.
LEMMA StepTypeStep ==
    ASSUME ConnectTypeOK, [ConnectNext]_connectVars
    PROVE  step' \in [Flows -> ConnectSteps]
<1>. USE DEF ConnectTypeOK, Go, ConnectSteps, FlowSteps, KeySteps, Ended, serverVars, userVars, flowVars
<1>1. ASSUME NEW f \in Flows, NEW e \in Entries, Start(f, e)
      PROVE  step' \in [Flows -> ConnectSteps]
  BY <1>1 DEF Start
<1>2. ASSUME NEW f \in Flows, Confirm(f)
      PROVE  step' \in [Flows -> ConnectSteps]
  BY <1>2 DEF Confirm
<1>3. ASSUME NEW f \in Flows, Decline(f)
      PROVE  step' \in [Flows -> ConnectSteps]
  BY <1>3 DEF Decline
<1>4. ASSUME NEW f \in Flows, ReadClientFile(f)
      PROVE  step' \in [Flows -> ConnectSteps]
  BY <1>4 DEF ReadClientFile
<1>5. ASSUME NEW f \in Flows, ReadBundle(f)
      PROVE  step' \in [Flows -> ConnectSteps]
  BY <1>5 DEF ReadBundle
<1>6. ASSUME NEW f \in Flows, ReadFails(f)
      PROVE  step' \in [Flows -> ConnectSteps]
  BY <1>6 DEF ReadFails
<1>7. ASSUME NEW f \in Flows, VerifyBundle(f)
      PROVE  step' \in [Flows -> ConnectSteps]
  BY <1>7 DEF VerifyBundle
<1>8. ASSUME NEW f \in Flows, VerifyFails(f)
      PROVE  step' \in [Flows -> ConnectSteps]
  BY <1>8 DEF VerifyFails
<1>9. ASSUME NEW f \in Flows, NEW q \in Ports, Bind(f, q)
      PROVE  step' \in [Flows -> ConnectSteps]
  BY <1>9 DEF Bind
<1>10. ASSUME NEW f \in Flows, BindFails(f)
      PROVE  step' \in [Flows -> ConnectSteps]
  BY <1>10 DEF BindFails
<1>11. ASSUME NEW f \in Flows, OpenBrowser(f)
      PROVE  step' \in [Flows -> ConnectSteps]
  BY <1>11 DEF OpenBrowser
<1>12. ASSUME NEW f \in Flows, OpenFails(f)
      PROVE  step' \in [Flows -> ConnectSteps]
  BY <1>12 DEF OpenFails
<1>13. ASSUME NEW f \in Flows, Timeout(f)
      PROVE  step' \in [Flows -> ConnectSteps]
  BY <1>13 DEF Timeout
<1>14. ASSUME NEW f \in Flows, Extract(f)
      PROVE  step' \in [Flows -> ConnectSteps]
  BY <1>14 DEF Extract
<1>15. ASSUME NEW f \in Flows, ExtractFails(f)
      PROVE  step' \in [Flows -> ConnectSteps]
  BY <1>15 DEF ExtractFails
<1>16. ASSUME NEW f \in Flows, Exchange(f)
      PROVE  step' \in [Flows -> ConnectSteps]
  BY <1>16 DEF Exchange
<1>17. ASSUME NEW f \in Flows, ExchangeFails(f)
      PROVE  step' \in [Flows -> ConnectSteps]
  BY <1>17 DEF ExchangeFails
<1>18. ASSUME NEW f \in Flows, Close(f)
      PROVE  step' \in [Flows -> ConnectSteps]
  BY <1>18 DEF Close, Release
<1>19. ASSUME NEW f \in Flows, Capture(f)
      PROVE  step' \in [Flows -> ConnectSteps]
  BY <1>19 DEF Capture
<1>20. ASSUME NEW f \in Flows, Reply(f)
      PROVE  step' \in [Flows -> ConnectSteps]
  BY <1>20 DEF Reply
<1>21. ASSUME NEW f \in Flows, ReplyFails(f)
      PROVE  step' \in [Flows -> ConnectSteps]
  BY <1>21 DEF ReplyFails
<1>22. ASSUME NEW f \in Flows, NotFound(f)
      PROVE  step' \in [Flows -> ConnectSteps]
  BY <1>22 DEF NotFound
<1>23. ASSUME NEW f \in Flows, HangUp(f)
      PROVE  step' \in [Flows -> ConnectSteps]
  BY <1>23 DEF HangUp
<1>24. ASSUME NEW f \in Flows, NEW given \in {"granted", "denied"}, AnswerPage(f, given)
      PROVE  step' \in [Flows -> ConnectSteps]
  BY <1>24 DEF AnswerPage
<1>25. ASSUME NEW f \in Flows, NEW g \in Flows, Redirect(f, g)
      PROVE  step' \in [Flows -> ConnectSteps]
  BY <1>25 DEF Redirect, Accept, RedirectOf
<1>26. ASSUME NEW f \in Flows, NEW kind \in {"silent", "other", "callback"}, Stray(f, kind)
      PROVE  step' \in [Flows -> ConnectSteps]
  BY <1>26 DEF Stray, Accept
<1>27. ASSUME NEW f \in Flows, FindDek(f)
      PROVE  step' \in [Flows -> ConnectSteps]
  BY <1>27 DEF FindDek
<1>28. ASSUME NEW f \in Flows, NeedDek(f)
      PROVE  step' \in [Flows -> ConnectSteps]
  BY <1>28 DEF NeedDek
<1>29. ASSUME NEW f \in Flows, CheckAbsent(f)
      PROVE  step' \in [Flows -> ConnectSteps]
  BY <1>29 DEF CheckAbsent
<1>30. ASSUME NEW f \in Flows, RefuseOverwrite(f)
      PROVE  step' \in [Flows -> ConnectSteps]
  BY <1>30 DEF RefuseOverwrite
<1>31. ASSUME NEW f \in Flows, SetDek(f)
      PROVE  step' \in [Flows -> ConnectSteps]
  BY <1>31 DEF SetDek
<1>32. ASSUME NEW f \in Flows, Seal(f)
      PROVE  step' \in [Flows -> ConnectSteps]
  BY <1>32 DEF Seal
<1>33. ASSUME NEW f \in Flows, PutRow(f)
      PROVE  step' \in [Flows -> ConnectSteps]
  BY <1>33 DEF PutRow
<1>34. ASSUME NEW f \in Flows, KeyStepFails(f)
      PROVE  step' \in [Flows -> ConnectSteps]
  BY <1>34 DEF KeyStepFails
<1>35. ASSUME NEW f \in Flows, Killed(f)
      PROVE  step' \in [Flows -> ConnectSteps]
  BY <1>35 DEF Killed
<1>36. ASSUME NEW x \in Files, ReplaceBundle(x)
      PROVE  step' \in [Flows -> ConnectSteps]
  BY <1>36 DEF ReplaceBundle
<1>37. CASE UNCHANGED connectVars
  BY <1>37 DEF connectVars
<1>. HIDE DEF ConnectTypeOK, Go, ConnectSteps, FlowSteps, KeySteps, Ended
<1>. QED
  BY <1>1, <1>2, <1>3, <1>4, <1>5, <1>6, <1>7, <1>8, <1>9,
     <1>10, <1>11, <1>12, <1>13, <1>14, <1>15, <1>16, <1>17, <1>18,
     <1>19, <1>20, <1>21, <1>22, <1>23, <1>24, <1>25, <1>26, <1>27,
     <1>28, <1>29, <1>30, <1>31, <1>32, <1>33, <1>34, <1>35, <1>36,
     <1>37
  DEF ConnectNext, ClientStep, Consenting, RunStep, Serving, Serve, ClientHangsUp,
      OutsideStep, Outside, KeyStep

LEMMA TypeStep ==
    ASSUME ConnectTypeOK, KeyThere, [ConnectNext]_connectVars
    PROVE  ConnectTypeOK'
<1>. USE LoopbackAssumption DEF serverVars, userVars, flowVars, clientVars, keyVars
<1>0. step' \in [Flows -> ConnectSteps]
  BY StepTypeStep
<1>1. ASSUME NEW f \in Flows, RunStep(f) \/ Serve(f) \/ HangUp(f) \/ Outside(f),
             UNCHANGED <<clientVars, keyVars>>
      PROVE  ConnectTypeOK'
  <2>1. LoopbackTypeOK'
    BY <1>1, LoopbackTypeStep DEF ConnectTypeOK
  <2>. QED
    BY <1>0, <1>1, <2>1 DEF ConnectTypeOK
<1>. USE <1>0 DEF ConnectTypeOK, LoopbackTypeOK
<1>2. ASSUME NEW f \in Flows, NEW e \in Entries, Start(f, e)
      PROVE  ConnectTypeOK'
  BY <1>2 DEF Start, Entries
<1>3. ASSUME NEW f \in Flows, Confirm(f)
      PROVE  ConnectTypeOK'
  BY <1>3 DEF Confirm
<1>4. ASSUME NEW f \in Flows, Decline(f)
      PROVE  ConnectTypeOK'
  BY <1>4 DEF Decline
<1>5. ASSUME NEW f \in Flows, ReadClientFile(f)
      PROVE  ConnectTypeOK'
  BY <1>5 DEF ReadClientFile, Clients
<1>6. ASSUME NEW f \in Flows, ReadBundle(f)
      PROVE  ConnectTypeOK'
  BY <1>6 DEF ReadBundle, Files
<1>7. ASSUME NEW f \in Flows, ReadFails(f)
      PROVE  ConnectTypeOK'
  BY <1>7 DEF ReadFails
<1>8. ASSUME NEW f \in Flows, VerifyBundle(f)
      PROVE  ConnectTypeOK'
  BY <1>8 DEF VerifyBundle, Clients, Files
<1>9. ASSUME NEW f \in Flows, VerifyFails(f)
      PROVE  ConnectTypeOK'
  BY <1>9 DEF VerifyFails
<1>10. ASSUME NEW f \in Flows, FindDek(f)
      PROVE  ConnectTypeOK'
  BY <1>10 DEF FindDek
<1>11. ASSUME NEW f \in Flows, NeedDek(f)
      PROVE  ConnectTypeOK'
  BY <1>11 DEF NeedDek
<1>12. ASSUME NEW f \in Flows, CheckAbsent(f)
      PROVE  ConnectTypeOK'
  BY <1>12 DEF CheckAbsent
<1>13. ASSUME NEW f \in Flows, RefuseOverwrite(f)
      PROVE  ConnectTypeOK'
  BY <1>13 DEF RefuseOverwrite
<1>14. ASSUME NEW f \in Flows, SetDek(f)
      PROVE  ConnectTypeOK'
  BY <1>14 DEF SetDek
<1>15. ASSUME NEW f \in Flows, Seal(f)
      PROVE  ConnectTypeOK'
  BY <1>15 DEF Seal
<1>16. ASSUME NEW f \in Flows, PutRow(f)
      PROVE  ConnectTypeOK'
  BY <1>16 DEF PutRow, Row, Clients, KeyThere, Go
<1>17. ASSUME NEW f \in Flows, KeyStepFails(f)
      PROVE  ConnectTypeOK'
  BY <1>17 DEF KeyStepFails
<1>18. ASSUME NEW f \in Flows, Killed(f)
      PROVE  ConnectTypeOK'
  BY <1>18 DEF Killed, Release, Free, NoQuery, Connection, Query
<1>19. ASSUME NEW x \in Files, ReplaceBundle(x)
      PROVE  ConnectTypeOK'
  BY <1>19 DEF ReplaceBundle
<1>20. CASE UNCHANGED connectVars
  BY <1>20 DEF connectVars
<1>. HIDE DEF ConnectTypeOK, LoopbackTypeOK
<1>. QED
  BY <1>1, <1>2, <1>3, <1>4, <1>5, <1>6, <1>7, <1>8, <1>9,
     <1>10, <1>11, <1>12, <1>13, <1>14, <1>15, <1>16, <1>17, <1>18,
     <1>19, <1>20
  DEF ConnectNext, ClientStep, Consenting, Serving, ClientHangsUp, OutsideStep, KeyStep

-----------------------------------------------------------------------------
\* The consent moves a flow from one of its own steps on, to the tokens or out.
LEMMA ConsentShape ==
    ASSUME ConnectTypeOK, NEW f \in Flows, RunStep(f) \/ Serve(f) \/ HangUp(f) \/ Outside(f)
    PROVE  /\ \A g \in Flows \ {f} : step'[g] = step[g]
           /\ \/ step'[f] = step[f]
              \/ step[f] \in FlowSteps /\ step'[f] \in FlowSteps \cup {"tokens", "failed"}
<1>. DEFINE Shape == /\ \A g \in Flows \ {f} : step'[g] = step[g]
                    /\ \/ step'[f] = step[f]
                       \/ step[f] \in FlowSteps /\ step'[f] \in FlowSteps \cup {"tokens", "failed"}
<1>. USE DEF ConnectTypeOK, Go, FlowSteps
<1>1. ASSUME NEW q \in Ports, Bind(f, q)
      PROVE  Shape
  BY <1>1 DEF Bind
<1>2. ASSUME BindFails(f)
      PROVE  Shape
  BY <1>2 DEF BindFails
<1>3. ASSUME OpenBrowser(f)
      PROVE  Shape
  BY <1>3 DEF OpenBrowser
<1>4. ASSUME OpenFails(f)
      PROVE  Shape
  BY <1>4 DEF OpenFails
<1>5. ASSUME Timeout(f)
      PROVE  Shape
  BY <1>5 DEF Timeout
<1>6. ASSUME Extract(f)
      PROVE  Shape
  BY <1>6 DEF Extract
<1>7. ASSUME ExtractFails(f)
      PROVE  Shape
  BY <1>7 DEF ExtractFails
<1>8. ASSUME Exchange(f)
      PROVE  Shape
  BY <1>8 DEF Exchange
<1>9. ASSUME ExchangeFails(f)
      PROVE  Shape
  BY <1>9 DEF ExchangeFails
<1>10. ASSUME Close(f)
      PROVE  Shape
  BY <1>10 DEF Close, Release
<1>11. ASSUME Capture(f)
      PROVE  Shape
  BY <1>11 DEF Capture
<1>12. ASSUME Reply(f)
      PROVE  Shape
  BY <1>12 DEF Reply
<1>13. ASSUME ReplyFails(f)
      PROVE  Shape
  BY <1>13 DEF ReplyFails
<1>14. ASSUME NotFound(f)
      PROVE  Shape
  BY <1>14 DEF NotFound
<1>15. ASSUME HangUp(f)
      PROVE  Shape
  BY <1>15 DEF HangUp
<1>16. ASSUME NEW given \in {"granted", "denied"}, AnswerPage(f, given)
      PROVE  Shape
  BY <1>16 DEF AnswerPage
<1>17. ASSUME NEW h \in Flows, Redirect(f, h)
      PROVE  Shape
  BY <1>17 DEF Redirect, Accept, RedirectOf
<1>18. ASSUME NEW kind \in {"silent", "other", "callback"}, Stray(f, kind)
      PROVE  Shape
  BY <1>18 DEF Stray, Accept
<1>. HIDE DEF ConnectTypeOK, Go, FlowSteps, Shape
<1>00. Shape
  BY <1>1, <1>2, <1>3, <1>4, <1>5, <1>6, <1>7, <1>8, <1>9,
     <1>10, <1>11, <1>12, <1>13, <1>14, <1>15, <1>16, <1>17, <1>18
  DEF RunStep, Serve, Outside
<1>. QED
  BY <1>00 DEF Shape

\* No server ever holds a code under a state that is not the code's own.
LEMMA ConsentStep ==
    ASSUME ConnectTypeOK, ConsentInv, [ConnectNext]_connectVars
    PROVE  ConsentInv'
<1>. USE LoopbackAssumption DEF ConnectTypeOK, LoopbackTypeOK, Connection, Query, NoQuery, Free,
         serverVars, userVars, ConsentInv, OwnQuery, CodeIsOwn
<1>1. ASSUME NEW f \in Flows, NEW q \in Ports, Bind(f, q)
      PROVE  ConsentInv'
  BY <1>1 DEF Bind
<1>2. ASSUME NEW f \in Flows, BindFails(f)
      PROVE  ConsentInv'
  BY <1>2 DEF BindFails
<1>3. ASSUME NEW f \in Flows, OpenBrowser(f)
      PROVE  ConsentInv'
  BY <1>3 DEF OpenBrowser
<1>4. ASSUME NEW f \in Flows, OpenFails(f)
      PROVE  ConsentInv'
  BY <1>4 DEF OpenFails
<1>5. ASSUME NEW f \in Flows, Timeout(f)
      PROVE  ConsentInv'
  BY <1>5 DEF Timeout
<1>6. ASSUME NEW f \in Flows, Extract(f)
      PROVE  ConsentInv'
  BY <1>6 DEF Extract, HoldsCode
<1>7. ASSUME NEW f \in Flows, ExtractFails(f)
      PROVE  ConsentInv'
  BY <1>7 DEF ExtractFails
<1>8. ASSUME NEW f \in Flows, Exchange(f)
      PROVE  ConsentInv'
  BY <1>8 DEF Exchange
<1>9. ASSUME NEW f \in Flows, ExchangeFails(f)
      PROVE  ConsentInv'
  BY <1>9 DEF ExchangeFails
<1>10. ASSUME NEW f \in Flows, Close(f)
      PROVE  ConsentInv'
  BY <1>10 DEF Close, Release
<1>11. ASSUME NEW f \in Flows, Capture(f)
      PROVE  ConsentInv'
  BY <1>11 DEF Capture
<1>12. ASSUME NEW f \in Flows, Reply(f)
      PROVE  ConsentInv'
  BY <1>12 DEF Reply
<1>13. ASSUME NEW f \in Flows, ReplyFails(f)
      PROVE  ConsentInv'
  BY <1>13 DEF ReplyFails
<1>14. ASSUME NEW f \in Flows, NotFound(f)
      PROVE  ConsentInv'
  BY <1>14 DEF NotFound
<1>15. ASSUME NEW f \in Flows, HangUp(f)
      PROVE  ConsentInv'
  BY <1>15 DEF HangUp
<1>16. ASSUME NEW f \in Flows, NEW given \in {"granted", "denied"}, AnswerPage(f, given)
      PROVE  ConsentInv'
  BY <1>16 DEF AnswerPage
<1>17. ASSUME NEW f \in Flows, NEW g \in Flows, Redirect(f, g)
      PROVE  ConsentInv'
  BY <1>17 DEF Redirect, Accept, RedirectOf
<1>18. ASSUME NEW f \in Flows, NEW kind \in {"silent", "other", "callback"}, Stray(f, kind)
      PROVE  ConsentInv'
  BY <1>18 DEF Stray, Accept
<1>19. CASE UNCHANGED <<captured, serving, answer, posted>>
  BY <1>19
<1>20. ASSUME NEW f \in Flows, Killed(f)
      PROVE  ConsentInv'
  BY <1>20 DEF Killed, Release
<1>. HIDE DEF ConsentInv, ConnectTypeOK, LoopbackTypeOK
<1>21. ASSUME NEW f \in Flows, \/ \E e \in Entries : Start(f, e)
                               \/ Confirm(f) \/ Decline(f) \/ ClientStep(f) \/ KeyStep(f)
      PROVE  UNCHANGED <<captured, serving, answer, posted>>
  BY <1>21 DEF Start, Confirm, Decline, ClientStep, ReadClientFile, ReadBundle, ReadFails, VerifyBundle,
           VerifyFails, KeyStep, FindDek, NeedDek, CheckAbsent, RefuseOverwrite, SetDek, Seal, PutRow,
           KeyStepFails
<1>22. ASSUME (\E x \in Files : ReplaceBundle(x)) \/ UNCHANGED connectVars
      PROVE  UNCHANGED <<captured, serving, answer, posted>>
  BY <1>22 DEF ReplaceBundle, connectVars, flowVars
<1>. QED
  BY <1>1, <1>2, <1>3, <1>4, <1>5, <1>6, <1>7, <1>8, <1>9,
     <1>10, <1>11, <1>12, <1>13, <1>14, <1>15, <1>16, <1>17, <1>18,
     <1>19, <1>20, <1>21, <1>22
  DEF ConnectNext, Consenting, RunStep, Serving, Serve, ClientHangsUp, OutsideStep, Outside

-----------------------------------------------------------------------------
\* Only a flow that has its client reaches the consent page.
LEMMA ClientInvStep ==
    ASSUME ConnectTypeOK, ClientInv, [ConnectNext]_connectVars
    PROVE  ClientInv'
<1>. USE LoopbackAssumption DEF Go, FlowSteps, ClientInv
<1>1. ASSUME NEW f \in Flows, RunStep(f) \/ Serve(f) \/ HangUp(f) \/ Outside(f),
             UNCHANGED <<clientVars, keyVars>>
      PROVE  ClientInv'
  <2>1. /\ \A g \in Flows \ {f} : step'[g] = step[g]
        /\ \/ step'[f] = step[f]
           \/ step[f] \in FlowSteps /\ step'[f] \in FlowSteps \cup {"tokens", "failed"}
    BY <1>1, ConsentShape
  <2>2. page' = page \/ OpenBrowser(f)
    BY <1>1 DEF RunStep, Serve, Outside, Bind, BindFails, OpenFails, Timeout, Extract, ExtractFails,
         Exchange, ExchangeFails, Close, Capture, Reply, ReplyFails, NotFound, HangUp, AnswerPage,
         Redirect, Stray, Accept, serverVars, userVars
  <2>3. CASE page' = page
    BY <1>1, <2>1, <2>3 DEF clientVars
  <2>4. CASE OpenBrowser(f)
    BY <1>1, <2>1, <2>4 DEF OpenBrowser, clientVars, ConnectTypeOK, LoopbackTypeOK
  <2>. QED
    BY <2>2, <2>3, <2>4
<1>. USE DEF ConnectTypeOK, serverVars, userVars, flowVars, clientVars, keyVars
<1>2. ASSUME NEW f \in Flows, NEW e \in Entries, Start(f, e)
      PROVE  ClientInv'
  BY <1>2 DEF Start
<1>3. ASSUME NEW f \in Flows, Confirm(f)
      PROVE  ClientInv'
  BY <1>3 DEF Confirm
<1>4. ASSUME NEW f \in Flows, Decline(f)
      PROVE  ClientInv'
  BY <1>4 DEF Decline
<1>5. ASSUME NEW f \in Flows, ReadClientFile(f)
      PROVE  ClientInv'
  BY <1>5 DEF ReadClientFile
<1>6. ASSUME NEW f \in Flows, ReadBundle(f)
      PROVE  ClientInv'
  BY <1>6 DEF ReadBundle
<1>7. ASSUME NEW f \in Flows, ReadFails(f)
      PROVE  ClientInv'
  BY <1>7 DEF ReadFails
<1>8. ASSUME NEW f \in Flows, VerifyBundle(f)
      PROVE  ClientInv'
  BY <1>8 DEF VerifyBundle, Files
<1>9. ASSUME NEW f \in Flows, VerifyFails(f)
      PROVE  ClientInv'
  BY <1>9 DEF VerifyFails
<1>10. ASSUME NEW f \in Flows, FindDek(f)
      PROVE  ClientInv'
  BY <1>10 DEF FindDek
<1>11. ASSUME NEW f \in Flows, NeedDek(f)
      PROVE  ClientInv'
  BY <1>11 DEF NeedDek
<1>12. ASSUME NEW f \in Flows, CheckAbsent(f)
      PROVE  ClientInv'
  BY <1>12 DEF CheckAbsent
<1>13. ASSUME NEW f \in Flows, RefuseOverwrite(f)
      PROVE  ClientInv'
  BY <1>13 DEF RefuseOverwrite
<1>14. ASSUME NEW f \in Flows, SetDek(f)
      PROVE  ClientInv'
  BY <1>14 DEF SetDek
<1>15. ASSUME NEW f \in Flows, Seal(f)
      PROVE  ClientInv'
  BY <1>15 DEF Seal
<1>16. ASSUME NEW f \in Flows, PutRow(f)
      PROVE  ClientInv'
  BY <1>16 DEF PutRow
<1>17. ASSUME NEW f \in Flows, KeyStepFails(f)
      PROVE  ClientInv'
  BY <1>17 DEF KeyStepFails
<1>18. ASSUME NEW f \in Flows, Killed(f)
      PROVE  ClientInv'
  BY <1>18 DEF Killed, LoopbackTypeOK
<1>19. ASSUME NEW x \in Files, ReplaceBundle(x)
      PROVE  ClientInv'
  BY <1>19 DEF ReplaceBundle
<1>20. CASE UNCHANGED connectVars
  BY <1>20 DEF connectVars
<1>. HIDE DEF ClientInv, ConnectTypeOK
<1>. QED
  BY <1>1, <1>2, <1>3, <1>4, <1>5, <1>6, <1>7, <1>8, <1>9,
     <1>10, <1>11, <1>12, <1>13, <1>14, <1>15, <1>16, <1>17, <1>18,
     <1>19, <1>20
  DEF ConnectNext, ClientStep, Consenting, Serving, ClientHangsUp, OutsideStep, KeyStep

\* No step takes the key out of the keychain.
LEMMA KeyThereStep ==
    ASSUME ConnectTypeOK, KeyThere, [ConnectNext]_connectVars
    PROVE  KeyThere'
<1>. USE LoopbackAssumption DEF Go, FlowSteps, KeyThere
<1>1. ASSUME NEW f \in Flows, RunStep(f) \/ Serve(f) \/ HangUp(f) \/ Outside(f),
             UNCHANGED <<clientVars, keyVars>>
      PROVE  KeyThere'
  <2>1. \A g \in Flows : step'[g] \in {"seal", "put"} => step'[g] = step[g]
    BY <1>1, ConsentShape
  <2>. QED
    BY <1>1, <2>1 DEF keyVars
<1>. USE DEF ConnectTypeOK, serverVars, userVars, flowVars, clientVars, keyVars
<1>2. ASSUME NEW f \in Flows, NEW e \in Entries, Start(f, e)
      PROVE  KeyThere'
  BY <1>2 DEF Start
<1>3. ASSUME NEW f \in Flows, Confirm(f)
      PROVE  KeyThere'
  BY <1>3 DEF Confirm
<1>4. ASSUME NEW f \in Flows, Decline(f)
      PROVE  KeyThere'
  BY <1>4 DEF Decline
<1>5. ASSUME NEW f \in Flows, ReadClientFile(f)
      PROVE  KeyThere'
  BY <1>5 DEF ReadClientFile
<1>6. ASSUME NEW f \in Flows, ReadBundle(f)
      PROVE  KeyThere'
  BY <1>6 DEF ReadBundle
<1>7. ASSUME NEW f \in Flows, ReadFails(f)
      PROVE  KeyThere'
  BY <1>7 DEF ReadFails
<1>8. ASSUME NEW f \in Flows, VerifyBundle(f)
      PROVE  KeyThere'
  BY <1>8 DEF VerifyBundle
<1>9. ASSUME NEW f \in Flows, VerifyFails(f)
      PROVE  KeyThere'
  BY <1>9 DEF VerifyFails
<1>10. ASSUME NEW f \in Flows, FindDek(f)
      PROVE  KeyThere'
  BY <1>10 DEF FindDek, NoEntry
<1>11. ASSUME NEW f \in Flows, NeedDek(f)
      PROVE  KeyThere'
  BY <1>11 DEF NeedDek
<1>12. ASSUME NEW f \in Flows, CheckAbsent(f)
      PROVE  KeyThere'
  BY <1>12 DEF CheckAbsent
<1>13. ASSUME NEW f \in Flows, RefuseOverwrite(f)
      PROVE  KeyThere'
  BY <1>13 DEF RefuseOverwrite
<1>14. ASSUME NEW f \in Flows, SetDek(f)
      PROVE  KeyThere'
  BY <1>14 DEF SetDek
<1>15. ASSUME NEW f \in Flows, Seal(f)
      PROVE  KeyThere'
  BY <1>15 DEF Seal
<1>16. ASSUME NEW f \in Flows, PutRow(f)
      PROVE  KeyThere'
  BY <1>16 DEF PutRow
<1>17. ASSUME NEW f \in Flows, KeyStepFails(f)
      PROVE  KeyThere'
  BY <1>17 DEF KeyStepFails
<1>18. ASSUME NEW f \in Flows, Killed(f)
      PROVE  KeyThere'
  BY <1>18 DEF Killed
<1>19. ASSUME NEW x \in Files, ReplaceBundle(x)
      PROVE  KeyThere'
  BY <1>19 DEF ReplaceBundle
<1>20. CASE UNCHANGED connectVars
  BY <1>20 DEF connectVars
<1>. HIDE DEF KeyThere, ConnectTypeOK
<1>. QED
  BY <1>1, <1>2, <1>3, <1>4, <1>5, <1>6, <1>7, <1>8, <1>9,
     <1>10, <1>11, <1>12, <1>13, <1>14, <1>15, <1>16, <1>17, <1>18,
     <1>19, <1>20
  DEF ConnectNext, ClientStep, Consenting, Serving, ClientHangsUp, OutsideStep, KeyStep

\* The key is provisioned before anything is sealed, and never replaced.
LEMMA KeyInvStep ==
    ASSUME ConnectTypeOK, KeyThere, ~Overlap, KeyInv, [ConnectNext]_connectVars
    PROVE  KeyInv'
<1>. USE LoopbackAssumption DEF Go, FlowSteps, KeyInv, KeyThere, AtKey, KeySteps
<1>1. ASSUME NEW f \in Flows, RunStep(f) \/ Serve(f) \/ HangUp(f) \/ Outside(f),
             UNCHANGED <<clientVars, keyVars>>
      PROVE  KeyInv'
  <2>1. \A g \in Flows : step'[g] \in {"set", "put"} => step'[g] = step[g]
    BY <1>1, ConsentShape
  <2>. QED
    BY <1>1, <2>1 DEF keyVars
<1>. USE DEF ConnectTypeOK, serverVars, userVars, flowVars, clientVars, keyVars
<1>2. ASSUME NEW f \in Flows, NEW e \in Entries, Start(f, e)
      PROVE  KeyInv'
  BY <1>2 DEF Start
<1>3. ASSUME NEW f \in Flows, Confirm(f)
      PROVE  KeyInv'
  BY <1>3 DEF Confirm
<1>4. ASSUME NEW f \in Flows, Decline(f)
      PROVE  KeyInv'
  BY <1>4 DEF Decline
<1>5. ASSUME NEW f \in Flows, ReadClientFile(f)
      PROVE  KeyInv'
  BY <1>5 DEF ReadClientFile
<1>6. ASSUME NEW f \in Flows, ReadBundle(f)
      PROVE  KeyInv'
  BY <1>6 DEF ReadBundle
<1>7. ASSUME NEW f \in Flows, ReadFails(f)
      PROVE  KeyInv'
  BY <1>7 DEF ReadFails
<1>8. ASSUME NEW f \in Flows, VerifyBundle(f)
      PROVE  KeyInv'
  BY <1>8 DEF VerifyBundle
<1>9. ASSUME NEW f \in Flows, VerifyFails(f)
      PROVE  KeyInv'
  BY <1>9 DEF VerifyFails
<1>10. ASSUME NEW f \in Flows, FindDek(f)
      PROVE  KeyInv'
  BY <1>10 DEF FindDek
<1>11. ASSUME NEW f \in Flows, NeedDek(f)
      PROVE  KeyInv'
  BY <1>11 DEF NeedDek
<1>12. ASSUME NEW f \in Flows, CheckAbsent(f)
      PROVE  KeyInv'
  BY <1>12 DEF CheckAbsent, NoEntry, OthersKeepOff
<1>13. ASSUME NEW f \in Flows, RefuseOverwrite(f)
      PROVE  KeyInv'
  BY <1>13 DEF RefuseOverwrite
<1>14. ASSUME NEW f \in Flows, SetDek(f)
      PROVE  KeyInv'
  BY <1>14 DEF SetDek
<1>15. ASSUME NEW f \in Flows, Seal(f)
      PROVE  KeyInv'
  BY <1>15 DEF Seal
<1>16. ASSUME NEW f \in Flows, PutRow(f)
      PROVE  KeyInv'
  BY <1>16 DEF PutRow
<1>17. ASSUME NEW f \in Flows, KeyStepFails(f)
      PROVE  KeyInv'
  BY <1>17 DEF KeyStepFails
<1>18. ASSUME NEW f \in Flows, Killed(f)
      PROVE  KeyInv'
  BY <1>18 DEF Killed
<1>19. ASSUME NEW x \in Files, ReplaceBundle(x)
      PROVE  KeyInv'
  BY <1>19 DEF ReplaceBundle
<1>20. CASE UNCHANGED connectVars
  BY <1>20 DEF connectVars
<1>. HIDE DEF KeyInv, ConnectTypeOK
<1>. QED
  BY <1>1, <1>2, <1>3, <1>4, <1>5, <1>6, <1>7, <1>8, <1>9,
     <1>10, <1>11, <1>12, <1>13, <1>14, <1>15, <1>16, <1>17, <1>18,
     <1>19, <1>20
  DEF ConnectNext, ClientStep, Consenting, Serving, ClientHangsUp, OutsideStep, KeyStep

-----------------------------------------------------------------------------
LEMMA ConnectInvHolds == ConnectSpec => [](ConnectTypeOK /\ ConsentInv /\ ClientInv /\ KeyThere)
<1>1. ConnectInit => ConnectTypeOK /\ ConsentInv /\ ClientInv /\ KeyThere
  <2>. SUFFICES ASSUME ConnectInit PROVE ConnectTypeOK /\ ConsentInv /\ ClientInv /\ KeyThere
    OBVIOUS
  <2>. USE DEF ConnectInit, LoopbackInit, NoQuery, Free
  <2>1. ConnectTypeOK
    BY DEF ConnectTypeOK, LoopbackTypeOK, Connection, Query, ConnectSteps, Files, Clients
  <2>2. ConsentInv
    BY DEF ConsentInv, OwnQuery, CodeIsOwn
  <2>3. ClientInv /\ KeyThere
    BY DEF ClientInv, KeyThere, FlowSteps
  <2>. QED
    BY <2>1, <2>2, <2>3
<1>2. ConnectTypeOK /\ ConsentInv /\ ClientInv /\ KeyThere /\ [ConnectNext]_connectVars
        => ConnectTypeOK' /\ ConsentInv' /\ ClientInv' /\ KeyThere'
  BY TypeStep, ConsentStep, ClientInvStep, KeyThereStep
<1>. QED
  BY <1>1, <1>2, PTL DEF ConnectSpec

\* The connecting processes, the keychain and the row stay well-typed.
THEOREM ConnectTypeCorrect == ConnectSpec => []ConnectTypeOK
BY ConnectInvHolds, PTL

\* For every number of flows and ports, a flow redeems no code but its own.
THEOREM CodesAreOwn == ConnectSpec => []CodeIsOwn
<1>1. ConsentInv => CodeIsOwn
  BY DEF ConsentInv
<1>. QED
  BY <1>1, ConnectInvHolds, PTL

\* A click opens the consent page of the pinned client or of none.
THEOREM ClicksArePinned == ConnectSpec => []OnlyPinnedClient
<1>1. ClientInv => OnlyPinnedClient
  BY DEF ClientInv, OnlyPinnedClient
<1>. QED
  BY <1>1, ConnectInvHolds, PTL

\* The row can be opened with the key in the keychain, if no two flows are
\* inside provision past its look; the run dek_race shows that they must not be.
THEOREM TokenStaysOpen == ASSUME ~Overlap PROVE ConnectSpec => []TokenOpens
<1>1. ConnectInit => KeyInv
  BY DEF ConnectInit, KeyInv, AtKey, KeySteps
<1>2. ConnectTypeOK /\ KeyThere /\ KeyInv /\ [ConnectNext]_connectVars => KeyInv'
  BY KeyInvStep
<1>3. KeyInv => TokenOpens
  BY DEF KeyInv, TokenOpens
<1>. QED
  BY <1>1, <1>2, <1>3, ConnectInvHolds, PTL DEF ConnectSpec
=============================================================================
