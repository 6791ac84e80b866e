---------------------- MODULE SealedTokenStoreProofs ----------------------
(***************************************************************************)
(* Proofs about SealedTokenStore for every set of operations, and about    *)
(* Disconnect, whose steps are steps of the store or leave it alone.       *)
(***************************************************************************)
EXTENDS Disconnect, TLAPS

\* What is served is recoverable; a Disconnect under way has already raised the
\* barrier over its connection; the barrier covers every torn generation.
DaemonInv ==
    /\ connected => Recoverable
    /\ tearing # "no" => commit \in Ops /\ generation <= barrier /\ ~connected
    /\ \A g \in torn : g <= barrier

SafetyInv ==
    /\ DaemonInv
    /\ CancelledNeverLives
    /\ RecoverableHasCredentials
    /\ FreshFlowNotDoomed
    /\ AckIsExact

-----------------------------------------------------------------------------
LEMMA TypeStep ==
    ASSUME TypeOK, DaemonInv, [Next]_vars
    PROVE  TypeOK'
<1>. USE TokenAssumption
     DEF TypeOK, row, record, flows, history, Larger, NextGeneration, Recoverable
<1>. USE DEF DaemonInv
<1>1. ASSUME NEW o \in Ops, StartConnect(o)
      PROVE  TypeOK'
  BY <1>1 DEF StartConnect
<1>2. ASSUME NEW o \in Ops, StartRefresh(o)
      PROVE  TypeOK'
  BY <1>2 DEF StartRefresh
<1>3. ASSUME NEW o \in Ops, NEW ack \in BOOLEAN, SaveCommit(o, ack)
      PROVE  TypeOK'
  <2>1. <<o, verOf[o]>> \in Ops \X Nat
    OBVIOUS
  <2>2. confirmed' \in SUBSET (Ops \X Nat)
    <3>1. CASE ack
      BY <1>3, <3>1 DEF SaveCommit
    <3>2. CASE ~ack
      BY <1>3, <2>1, <3>2 DEF SaveCommit
    <3>3. QED BY <3>1, <3>2
  <2>3. QED BY <1>3, <2>2 DEF SaveCommit, Refused
<1>4. ASSUME NEW o \in Ops, SaveRefused(o)
      PROVE  TypeOK'
  BY <1>4 DEF SaveRefused
<1>5. ASSUME NEW o \in Ops, Cancel(o)
      PROVE  TypeOK'
  BY <1>5 DEF Cancel, InvalidateCommit
<1>6. ASSUME NEW o \in Ops, MarkAckConfirmed(o)
      PROVE  TypeOK'
  BY <1>6 DEF MarkAckConfirmed
<1>7. CASE DisconnectVoid
  BY <1>7 DEF DisconnectVoid, VoidGeneration
<1>8. CASE DisconnectClear
  BY <1>8 DEF DisconnectClear
<1>9. CASE DisconnectFlag
  BY <1>9 DEF DisconnectFlag, InvalidateCommit
<1>10. CASE Crash
  BY <1>10 DEF Crash
<1>11. CASE Recover
  BY <1>11 DEF Recover
<1>12. ASSUME NEW g \in 1..MaxGen, RestoreBarrier(g)
      PROVE  TypeOK'
  BY <1>12 DEF RestoreBarrier, VoidGeneration
<1>13. CASE UNCHANGED vars
  BY <1>13 DEF vars
<1>. HIDE DEF TypeOK, DaemonInv
<1>. QED
  BY <1>1, <1>2, <1>3, <1>4, <1>5, <1>6, <1>7, <1>8, <1>9,
     <1>10, <1>11, <1>12, <1>13 DEF Next

\* Every store transaction and every crash keeps the voids in force.
LEMMA SafetyStep ==
    ASSUME TypeOK, SafetyInv, [Next]_vars
    PROVE  SafetyInv'
<1>. USE TokenAssumption
     DEF TypeOK, row, record, flows, history, Larger, NextGeneration, Recoverable
<1>. USE DEF SafetyInv, DaemonInv, CancelledNeverLives, RecoverableHasCredentials,
             FreshFlowNotDoomed, AckIsExact
<1>1. ASSUME NEW o \in Ops, StartConnect(o)
      PROVE  SafetyInv'
  BY <1>1 DEF StartConnect
<1>2. ASSUME NEW o \in Ops, StartRefresh(o)
      PROVE  SafetyInv'
  BY <1>2 DEF StartRefresh
<1>3. ASSUME NEW o \in Ops, NEW ack \in BOOLEAN, SaveCommit(o, ack)
      PROVE  SafetyInv'
  BY <1>3 DEF SaveCommit, Refused
<1>4. ASSUME NEW o \in Ops, SaveRefused(o)
      PROVE  SafetyInv'
  BY <1>4 DEF SaveRefused
<1>5. ASSUME NEW o \in Ops, Cancel(o)
      PROVE  SafetyInv'
  BY <1>5 DEF Cancel, InvalidateCommit
<1>6. ASSUME NEW o \in Ops, MarkAckConfirmed(o)
      PROVE  SafetyInv'
  BY <1>6 DEF MarkAckConfirmed
<1>7. CASE DisconnectVoid
  BY <1>7 DEF DisconnectVoid, VoidGeneration
<1>8. CASE DisconnectClear
  BY <1>8 DEF DisconnectClear
<1>9. CASE DisconnectFlag
  BY <1>9 DEF DisconnectFlag, InvalidateCommit
<1>10. CASE Crash
  BY <1>10 DEF Crash
<1>11. CASE Recover
  BY <1>11 DEF Recover
<1>12. ASSUME NEW g \in 1..MaxGen, RestoreBarrier(g)
      PROVE  SafetyInv'
  BY <1>12 DEF RestoreBarrier, VoidGeneration
<1>13. CASE UNCHANGED vars
  BY <1>13 DEF vars
<1>. HIDE DEF TypeOK, SafetyInv
<1>. QED
  BY <1>1, <1>2, <1>3, <1>4, <1>5, <1>6, <1>7, <1>8, <1>9,
     <1>10, <1>11, <1>12, <1>13 DEF Next

LEMMA InvariantHolds == Spec => [](TypeOK /\ SafetyInv)
<1>1. Init => TypeOK /\ SafetyInv
  <2>. SUFFICES ASSUME Init PROVE TypeOK /\ SafetyInv
    OBVIOUS
  <2>1. TypeOK
    <3>1. {ackPending, invalidated, connected} \subseteq BOOLEAN
      BY DEF Init
    <3>2. {version, generation, barrier, lastGen, restored} \subseteq Nat
      BY DEF Init
    <3>3. {sealed, commit} \subseteq Ops \cup {NoOp} /\ tearing \in {"no", "clear", "flag"}
      BY DEF Init
    <3>4. /\ voidedOps \in SUBSET Ops /\ overtaken \in SUBSET Ops
          /\ torn \in SUBSET Nat /\ confirmed \in SUBSET (Ops \X Nat)
      BY DEF Init
    <3>5. /\ flow \in [Ops -> {"idle", "flying", "done"}]
          /\ genOf \in [Ops -> Nat] /\ verOf \in [Ops -> Nat]
      BY DEF Init
    <3>. QED
      BY <3>1, <3>2, <3>3, <3>4, <3>5 DEF TypeOK
  <2>2. DaemonInv /\ CancelledNeverLives /\ RecoverableHasCredentials /\ AckIsExact
    BY DEF Init, DaemonInv, CancelledNeverLives, RecoverableHasCredentials, AckIsExact,
       Recoverable
  <2>3. FreshFlowNotDoomed
    BY DEF Init, FreshFlowNotDoomed
  <2>. QED
    BY <2>1, <2>2, <2>3 DEF SafetyInv
<1>2. TypeOK /\ SafetyInv /\ [Next]_vars => TypeOK' /\ SafetyInv'
  BY TypeStep, SafetyStep DEF SafetyInv
<1>. QED
  BY <1>1, <1>2, PTL DEF Spec

\* The row of the store and the daemon's view of it stay well-typed.
THEOREM TokenTypeCorrect == Spec => []TypeOK
BY InvariantHolds, PTL

\* For every number of operations and generations, no refresh in flight and no
\* crash inside a Disconnect brings a disconnected connection back.
THEOREM DisconnectIsFinal == Spec => []DisconnectedStaysDown
<1>1. TypeOK /\ SafetyInv => DisconnectedStaysDown
  BY DEF TypeOK, SafetyInv, DaemonInv, DisconnectedStaysDown, Recoverable
<1>. QED
  BY <1>1, InvariantHolds, PTL

\* A cancelled operation never ends as a live commit.
THEOREM CancelIsFinal == Spec => []CancelledNeverLives
<1>1. SafetyInv => CancelledNeverLives
  BY DEF SafetyInv
<1>. QED
  BY <1>1, InvariantHolds, PTL

\* Wherever a Disconnect is cut off, what recovery takes up has credentials.
THEOREM RecoveryFindsCredentials == Spec => []RecoverableHasCredentials
<1>1. SafetyInv => RecoverableHasCredentials
  BY DEF SafetyInv
<1>. QED
  BY <1>1, InvariantHolds, PTL

\* Only the acknowledgement of the committed result clears its pending flag.
THEOREM AcksAreExact == Spec => []AckIsExact
<1>1. SafetyInv => AckIsExact
  BY DEF SafetyInv
<1>. QED
  BY <1>1, InvariantHolds, PTL

\* No Connect is handed a generation the barrier already covers.
THEOREM FlowsStartFresh == Spec => []FreshFlowNotDoomed
<1>1. SafetyInv => FreshFlowNotDoomed
  BY DEF SafetyInv
<1>. QED
  BY <1>1, InvariantHolds, PTL

-----------------------------------------------------------------------------
KeepsUnlessOwn ==
    Recoverable /\ ~Recoverable' =>
        commit \in voidedOps' \/ generation \in torn' \/ generation <= restored'

LEMMA OwnVoidStep ==
    ASSUME TypeOK, SafetyInv, Next
    PROVE  KeepsUnlessOwn
<1>. USE TokenAssumption
     DEF TypeOK, row, record, flows, history, Larger, NextGeneration, Recoverable
<1>. USE DEF KeepsUnlessOwn, SafetyInv, DaemonInv
<1>1. ASSUME NEW o \in Ops, StartConnect(o)
      PROVE  KeepsUnlessOwn
  BY <1>1 DEF StartConnect
<1>2. ASSUME NEW o \in Ops, StartRefresh(o)
      PROVE  KeepsUnlessOwn
  BY <1>2 DEF StartRefresh
<1>3. ASSUME NEW o \in Ops, NEW ack \in BOOLEAN, SaveCommit(o, ack)
      PROVE  KeepsUnlessOwn
  BY <1>3 DEF SaveCommit, Refused
<1>4. ASSUME NEW o \in Ops, SaveRefused(o)
      PROVE  KeepsUnlessOwn
  BY <1>4 DEF SaveRefused
<1>5. ASSUME NEW o \in Ops, Cancel(o)
      PROVE  KeepsUnlessOwn
  BY <1>5 DEF Cancel, InvalidateCommit
<1>6. ASSUME NEW o \in Ops, MarkAckConfirmed(o)
      PROVE  KeepsUnlessOwn
  BY <1>6 DEF MarkAckConfirmed
<1>7. CASE DisconnectVoid
  BY <1>7 DEF DisconnectVoid, VoidGeneration
<1>8. CASE DisconnectClear
  BY <1>8 DEF DisconnectClear
<1>9. CASE DisconnectFlag
  BY <1>9 DEF DisconnectFlag, InvalidateCommit
<1>10. CASE Crash
  BY <1>10 DEF Crash
<1>11. CASE Recover
  BY <1>11 DEF Recover
<1>12. ASSUME NEW g \in 1..MaxGen, RestoreBarrier(g)
      PROVE  KeepsUnlessOwn
  BY <1>12 DEF RestoreBarrier, VoidGeneration
<1>. HIDE DEF TypeOK, SafetyInv, KeepsUnlessOwn
<1>. QED
  BY <1>1, <1>2, <1>3, <1>4, <1>5, <1>6, <1>7, <1>8, <1>9,
     <1>10, <1>11, <1>12 DEF Next

\* A recoverable connection is lost only to its own Disconnect, its own Cancel
\* or a restored barrier; no other flow's cancel or commit refusal touches it.
THEOREM CancelSparesOthers == Spec => OnlyItsOwnVoid
<1>1. TypeOK /\ SafetyInv /\ [Next]_vars => [KeepsUnlessOwn]_vars
  BY OwnVoidStep
<1>2. Spec => [][KeepsUnlessOwn]_vars
  BY <1>1, InvariantHolds, PTL DEF Spec
<1>. QED
  BY <1>2 DEF OnlyItsOwnVoid, KeepsUnlessOwn

-----------------------------------------------------------------------------
(* The life of an operation. *)

\* Generations come from the counter, the record is that of an operation that has
\* returned, and only what was started can be cancelled.
LifeInv ==
    /\ \A o \in Ops : genOf[o] <= lastGen
    /\ commit \in Ops => generation = genOf[commit] /\ flow[commit] = "done"
    /\ \A o \in voidedOps : flow[o] # "idle"

LEMMA LifeStep ==
    ASSUME TypeOK, SafetyInv, LifeInv, [Next]_vars
    PROVE  LifeInv'
<1>. USE TokenAssumption
     DEF TypeOK, row, record, flows, history, Larger, NextGeneration, Recoverable
<1>. USE DEF SafetyInv, DaemonInv, LifeInv
<1>1. ASSUME NEW o \in Ops, StartConnect(o)
      PROVE  LifeInv'
  BY <1>1 DEF StartConnect
<1>2. ASSUME NEW o \in Ops, StartRefresh(o)
      PROVE  LifeInv'
  BY <1>2 DEF StartRefresh
<1>3. ASSUME NEW o \in Ops, NEW ack \in BOOLEAN, SaveCommit(o, ack)
      PROVE  LifeInv'
  BY <1>3 DEF SaveCommit
<1>4. ASSUME NEW o \in Ops, SaveRefused(o)
      PROVE  LifeInv'
  BY <1>4 DEF SaveRefused
<1>5. ASSUME NEW o \in Ops, Cancel(o)
      PROVE  LifeInv'
  BY <1>5 DEF Cancel, InvalidateCommit
<1>6. ASSUME NEW o \in Ops, MarkAckConfirmed(o)
      PROVE  LifeInv'
  BY <1>6 DEF MarkAckConfirmed
<1>7. CASE DisconnectVoid
  BY <1>7 DEF DisconnectVoid, VoidGeneration
<1>8. CASE DisconnectClear
  BY <1>8 DEF DisconnectClear
<1>9. CASE DisconnectFlag
  BY <1>9 DEF DisconnectFlag, InvalidateCommit
<1>10. CASE Crash
  BY <1>10 DEF Crash
<1>11. CASE Recover
  BY <1>11 DEF Recover
<1>12. ASSUME NEW g \in 1..MaxGen, RestoreBarrier(g)
      PROVE  LifeInv'
  BY <1>12 DEF RestoreBarrier, VoidGeneration
<1>13. CASE UNCHANGED vars
  BY <1>13 DEF vars
<1>. HIDE DEF TypeOK, SafetyInv, LifeInv
<1>. QED
  BY <1>1, <1>2, <1>3, <1>4, <1>5, <1>6, <1>7, <1>8, <1>9,
     <1>10, <1>11, <1>12, <1>13 DEF Next

\* A commit that recovery would take up is the one that lives.
LEMMA TheLiving ==
    ASSUME TypeOK, SafetyInv, LifeInv
    PROVE  /\ \A o \in Ops : Fates[o] = "live" <=> commit = o /\ Recoverable
           /\ connected => commit \in Ops /\ Fates[commit] = "live"
<1>1. \A o \in Ops : Fates[o] = "live" <=> commit = o /\ Recoverable
  BY DEF Fates, FateOf, LifeInv
<1>2. connected => commit \in Ops /\ Recoverable
  BY DEF SafetyInv, DaemonInv, Recoverable, TypeOK
<1>. QED
  BY <1>1, <1>2

LEMMA StartIsOpen ==
    ASSUME TypeOK, SafetyInv, LifeInv, NEW o \in Ops,
           flow[o] = "idle", flow' = [flow EXCEPT ![o] = "flying"],
           NEW g \in Nat, g > barrier, genOf' = [genOf EXCEPT ![o] = g],
           UNCHANGED <<commit, generation, invalidated, voidedOps, barrier>>
    PROVE  Fates[o] = "new" /\ Fates' = [Fates EXCEPT ![o] = "open"]
<1>1. commit # o /\ o \notin voidedOps
  BY DEF LifeInv
<1>2. FateOf(o)' = "open"
  BY <1>1 DEF FateOf, TypeOK
<1>3. \A p \in Ops \ {o} : FateOf(p)' = FateOf(p)
  BY DEF FateOf, TypeOK, Recoverable
<1>. QED
  BY <1>2, <1>3 DEF Fates, FateOf

LEMMA ConnectLives ==
    ASSUME TypeOK, SafetyInv, LifeInv, NEW o \in Ops, StartConnect(o)
    PROVE  Living!Connect(o)
<1>1. NextGeneration \in Nat /\ NextGeneration > barrier /\ NextGeneration > lastGen
  BY DEF NextGeneration, Larger, TypeOK
<1>2. Fates[o] = "new" /\ Fates' = [Fates EXCEPT ![o] = "open"]
  BY <1>1, StartIsOpen DEF StartConnect, record
<1>3. genOf' = [genOf EXCEPT ![o] = genOf'[o]] /\ \A p \in Ops : genOf[p] < genOf'[o]
  BY <1>1 DEF StartConnect, LifeInv, TypeOK
<1>. QED
  BY <1>2, <1>3 DEF Living!Connect, Living!Open, StartConnect

LEMMA RefreshLives ==
    ASSUME TypeOK, SafetyInv, LifeInv, NEW o \in Ops, StartRefresh(o)
    PROVE  Living!Refresh(o)
<1>1. connected /\ commit \in Ops /\ Fates[commit] = "live" /\ generation = genOf[commit]
  BY TheLiving DEF StartRefresh, LifeInv
<1>2. generation \in Nat /\ generation > barrier
  BY <1>1 DEF SafetyInv, DaemonInv, Recoverable, TypeOK
<1>3. Fates[o] = "new" /\ Fates' = [Fates EXCEPT ![o] = "open"]
  BY <1>2, StartIsOpen DEF StartRefresh, row, record
<1>4. genOf' = [genOf EXCEPT ![o] = genOf[commit]] /\ connected' = connected
  BY <1>1 DEF StartRefresh
<1>. QED
  BY <1>1, <1>3, <1>4 DEF Living!Refresh, Living!Open

LEMMA SaveLives ==
    ASSUME TypeOK, SafetyInv, LifeInv, NEW o \in Ops, NEW ack \in BOOLEAN, SaveCommit(o, ack)
    PROVE  Living!Commit(o)
<1>. USE TokenAssumption DEF TypeOK, SaveCommit, Refused, Recoverable
<1>1. FateOf(o) = "open"
  BY DEF FateOf
<1>2. FateOf(o)' = "live"
  BY DEF FateOf
<1>3. \A p \in Ops \ {o} : FateOf(p)' = IF FateOf(p) = "live" THEN "over" ELSE FateOf(p)
  BY DEF FateOf
<1>. QED
  BY <1>1, <1>2, <1>3 DEF Fates, Living!Commit

LEMMA RefusedIsOver ==
    ASSUME TypeOK, SafetyInv, LifeInv, NEW o \in Ops, SaveRefused(o)
    PROVE  UNCHANGED <<Fates, genOf, connected>>
<1>. USE DEF TypeOK, SaveRefused, Refused, Recoverable, row, record, LifeInv
<1>1. FateOf(o)' = FateOf(o)
  BY DEF FateOf
<1>2. \A p \in Ops \ {o} : FateOf(p)' = FateOf(p)
  BY DEF FateOf
<1>. QED
  BY <1>1, <1>2 DEF Fates

LEMMA CancelLives ==
    ASSUME TypeOK, SafetyInv, LifeInv, NEW o \in Ops, Cancel(o)
    PROVE  Living!Cancel(o) \/ UNCHANGED <<Fates, genOf, connected>>
<1>. USE DEF TypeOK, Cancel, InvalidateCommit, Recoverable, flows, LifeInv
<1>1. FateOf(o) \in {"open", "live", "over"} /\ FateOf(o)' = "over"
  BY DEF FateOf
<1>2. \A p \in Ops \ {o} : FateOf(p)' = FateOf(p)
  BY DEF FateOf
<1>3. connected' = (connected /\ FateOf(o) # "live")
  <2>1. connected /\ commit = o => FateOf(o) = "live"
    BY TheLiving DEF Fates
  <2>2. FateOf(o) = "live" => commit = o
    BY TheLiving DEF Fates
  <2>3. connected' = (connected /\ commit # o)
    OBVIOUS
  <2>. QED
    BY <2>1, <2>2, <2>3, Zenon
<1>4. Fates' = [p \in Ops |-> IF p \in {o} /\ Fates[p] # "new" THEN "over" ELSE Fates[p]]
  BY <1>1, <1>2 DEF Fates
<1>5. CASE FateOf(o) = "over"
  BY <1>1, <1>2, <1>3, <1>5 DEF Fates
<1>6. CASE FateOf(o) \in {"open", "live"}
  BY <1>3, <1>4, <1>6 DEF Fates, Living!Cancel, Living!End
<1>. QED
  BY <1>1, <1>5, <1>6

\* The barrier rises over everything of generation g and before.
LEMMA BarrierEnds ==
    ASSUME TypeOK, LifeInv, NEW g \in Nat, VoidGeneration(g), UNCHANGED flows
    PROVE  Living!End({o \in Ops : genOf[o] <= g})
<1>. USE DEF TypeOK, VoidGeneration, Larger, Recoverable, record, flows, LifeInv
<1>1. ASSUME NEW o \in Ops, genOf[o] <= g
      PROVE  FateOf(o)' = IF FateOf(o) # "new" THEN "over" ELSE FateOf(o)
  BY <1>1 DEF FateOf
<1>2. ASSUME NEW o \in Ops, ~(genOf[o] <= g)
      PROVE  FateOf(o)' = FateOf(o)
  BY <1>2 DEF FateOf
<1>. QED
  BY <1>1, <1>2 DEF Fates, Living!End

LEMMA DisconnectLives ==
    ASSUME TypeOK, SafetyInv, LifeInv, DisconnectVoid
    PROVE  commit \in Ops /\ Living!Disconnect(commit)
<1>1. connected /\ commit \in Ops /\ Fates[commit] = "live" /\ generation = genOf[commit]
  BY TheLiving DEF DisconnectVoid, LifeInv
<1>2. Living!End({o \in Ops : genOf[o] <= genOf[commit]})
  BY <1>1, BarrierEnds DEF DisconnectVoid, TypeOK
<1>. QED
  BY <1>1, <1>2 DEF Living!Disconnect, DisconnectVoid, flows

LEMMA RestoreLives ==
    ASSUME TypeOK, LifeInv, NEW g \in 1 .. MaxGen, RestoreBarrier(g)
    PROVE  Living!Restore
<1>. DEFINE S == {o \in Ops : genOf[o] <= g}
<1>1. g \in Nat
  BY TokenAssumption
<1>2. Living!End(S)
  BY <1>1, BarrierEnds DEF RestoreBarrier
<1>3. \A o \in S, p \in Ops : genOf[p] <= genOf[o] => p \in S
  BY <1>1 DEF TypeOK
<1>4. S \in SUBSET Ops
  OBVIOUS
<1>. HIDE DEF S
<1>. QED
  BY <1>2, <1>3, <1>4 DEF Living!Restore, RestoreBarrier, flows

\* The rest of a Disconnect and the acknowledgements show nothing.
LEMMA NothingSeen ==
    ASSUME TypeOK, SafetyInv, LifeInv,
           DisconnectClear \/ DisconnectFlag \/ \E o \in Ops : MarkAckConfirmed(o)
    PROVE  UNCHANGED <<Fates, genOf, connected>>
<1>. USE DEF TypeOK, Recoverable, record, flows, Fates, FateOf
<1>1. CASE DisconnectClear
  BY <1>1 DEF DisconnectClear
<1>2. CASE DisconnectFlag
  BY <1>2 DEF DisconnectFlag, InvalidateCommit, SafetyInv, DaemonInv, LifeInv
<1>3. CASE \E o \in Ops : MarkAckConfirmed(o)
  BY <1>3 DEF MarkAckConfirmed
<1>. QED
  BY <1>1, <1>2, <1>3

LEMMA DaemonLives ==
    ASSUME TypeOK, SafetyInv, LifeInv, Crash \/ Recover
    PROVE  Living!Crash \/ Living!Recover
<1>1. Fates' = Fates /\ genOf' = genOf
  BY DEF Crash, Recover, row, record, flows, Fates, FateOf, Recoverable
<1>2. Recover => commit \in Ops /\ Fates[commit] = "live"
  BY TheLiving DEF Recover, Recoverable, TypeOK
<1>. QED
  BY <1>1, <1>2 DEF Crash, Recover, Living!Crash, Living!Recover

\* However late results come in and wherever the daemon dies, the row makes one
\* life of every operation: opened, committed and ended once each, ended only by
\* its own Cancel or Disconnect, a restored barrier or its successor, and served
\* only while it lives.
THEOREM OneLife == Spec => ImplementsConnectionLife
<1>1. Init => LifeInv /\ Living!Init
  <2>. SUFFICES ASSUME Init PROVE LifeInv /\ Living!Init
    OBVIOUS
  <2>1. LifeInv
    BY TokenAssumption DEF Init, LifeInv
  <2>2. Fates = [o \in Ops |-> "new"]
    BY DEF Init, Fates, FateOf
  <2>. QED
    BY <2>1, <2>2 DEF Init, Living!Init
<1>2. TypeOK /\ SafetyInv /\ LifeInv /\ [Next]_vars => LifeInv' /\ [Living!Next]_(Living!vars)
  <2>. SUFFICES ASSUME TypeOK, SafetyInv, LifeInv, [Next]_vars
                PROVE  [Living!Next]_(Living!vars)
    BY LifeStep
  <2>1. ASSUME NEW o \in Ops,
             StartConnect(o) \/ StartRefresh(o) \/ \E ack \in BOOLEAN : SaveCommit(o, ack)
        PROVE  Living!Next
    BY <2>1, ConnectLives, RefreshLives, SaveLives DEF Living!Next
  <2>2. ASSUME NEW o \in Ops, SaveRefused(o) \/ Cancel(o) \/ MarkAckConfirmed(o)
        PROVE  [Living!Next]_(Living!vars)
    BY <2>2, RefusedIsOver, CancelLives, NothingSeen DEF Living!Next, Living!vars
  <2>3. CASE DisconnectVoid
    BY <2>3, DisconnectLives DEF Living!Next
  <2>4. CASE DisconnectClear \/ DisconnectFlag
    BY <2>4, NothingSeen DEF Living!vars
  <2>5. CASE Crash \/ Recover
    BY <2>5, DaemonLives DEF Living!Next
  <2>6. ASSUME NEW g \in 1 .. MaxGen, RestoreBarrier(g)
        PROVE  Living!Next
    BY <2>6, RestoreLives DEF Living!Next
  <2>7. CASE UNCHANGED vars
    BY <2>7 DEF vars, row, record, flows, Living!vars, Fates, FateOf, Recoverable
  <2>. QED
    BY <2>1, <2>2, <2>3, <2>4, <2>5, <2>6, <2>7 DEF Next
<1>. QED
  BY <1>1, <1>2, InvariantHolds, PTL DEF Spec, ImplementsConnectionLife, Living!Spec

-----------------------------------------------------------------------------
\* With its remote leg the daemon is still a daemon of the store: what is proved
\* about the store's transactions holds while a revocation is under way.
THEOREM RevocationSparesStore == DisconnectSpec => Spec
<1>1. DisconnectInit => Init
  BY DEF DisconnectInit
<1>2. [DisconnectNext]_disconnectVars => [Next]_vars
  <2>1. CASE StoreStep /\ UNCHANGED remoteVars
    BY <2>1 DEF StoreStep, Next
  <2>2. ASSUME RemoteStep PROVE Next \/ UNCHANGED vars
    BY <2>2 DEF RemoteStep, TearDown, NeverSent, Post, AnswerBreaksOff, Answer, Decide,
                Report, Next
  <2>3. ASSUME DieWaiting PROVE Next \/ UNCHANGED vars
    BY <2>3 DEF DieWaiting, Next
  <2>4. CASE UNCHANGED disconnectVars
    BY <2>4 DEF disconnectVars
  <2>. QED
    BY <2>1, <2>2, <2>3, <2>4 DEF DisconnectNext
<1>. QED
  BY <1>1, <1>2, PTL DEF DisconnectSpec, Spec

\* Nor does the revocation, whenever it is answered, give an operation a second
\* life: a connection's end is the store's alone.
THEOREM OneLifeBesideRevocation == DisconnectSpec => ImplementsConnectionLife
BY RevocationSparesStore, OneLife

\* A request that Google carried out cannot have been refused, and an outcome is
\* reported by a call that is over; only then may it speak for Google.
RemoteInv ==
    /\ RemoteTypeOK
    /\ leg # "off" => reported = "none"
    /\ leg = "ready" => request = "none"
    /\ leg = "posted" => held # {}
    /\ request # "none" => held # {}
    /\ reported = "confirmed" => request = "carried"
    /\ reported = "failed" => request = "refused"

LEMMA RemoteStepKeeps ==
    ASSUME RemoteInv, [DisconnectNext]_disconnectVars
    PROVE  RemoteInv'
<1>. USE DEF RemoteInv, RemoteTypeOK, remoteVars, Outcomes
<1>1. CASE StoreStep /\ UNCHANGED remoteVars
  BY <1>1
<1>2. ASSUME NEW tokens \in SUBSET Tokens, TearDown(tokens)
      PROVE  RemoteInv'
  BY <1>2 DEF TearDown
<1>3. CASE NeverSent
  BY <1>3 DEF NeverSent, Report
<1>4. CASE Post
  BY <1>4 DEF Post
<1>5. CASE AnswerBreaksOff
  BY <1>5 DEF AnswerBreaksOff, Report
<1>6. ASSUME NEW status \in {"2xx", "4xx", "5xx", "none"}, Answer(status)
      PROVE  RemoteInv'
  BY <1>6 DEF Answer, Report, Classified
<1>7. ASSUME NEW what \in {"carried", "refused"}, Decide(what)
      PROVE  RemoteInv'
  BY <1>7 DEF Decide
<1>8. CASE DieWaiting
  BY <1>8 DEF DieWaiting
<1>9. CASE UNCHANGED disconnectVars
  BY <1>9 DEF disconnectVars
<1>. HIDE DEF RemoteInv
<1>. QED
  BY <1>1, <1>2, <1>3, <1>4, <1>5, <1>6, <1>7, <1>8, <1>9 DEF DisconnectNext, RemoteStep

LEMMA RemoteInvHolds == DisconnectSpec => []RemoteInv
<1>1. DisconnectInit => RemoteInv
  BY DEF DisconnectInit, RemoteInv, RemoteTypeOK, Outcomes
<1>. QED
  BY <1>1, RemoteStepKeeps, PTL DEF DisconnectSpec

\* A revocation reported as confirmed left no token that works, and one reported
\* as failed never will be carried out, whenever Google gets to the request.
THEOREM RevocationIsTrue == DisconnectSpec => []RevokeOutcomeIsTrue
<1>1. RemoteInv => RevokeOutcomeIsTrue
  BY DEF RemoteInv, RemoteTypeOK, RevokeOutcomeIsTrue, Dead, TokenToRevoke, Tokens
<1>. QED
  BY <1>1, RemoteInvHolds, PTL
=============================================================================
