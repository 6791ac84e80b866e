-------------------------- MODULE SupervisorProofs --------------------------
(***************************************************************************)
(* Proofs about Supervisor for any number of children.                     *)
(***************************************************************************)
EXTENDS Supervisor, TLAPS

\* A child that was started has the bearer it was started with.
Started == \A c \in Children : life[c] # "unborn" => env[c] = c

\* The supervisor waits for a child only when it holds no other that runs, and
\* the bearer it keeps is that of the child it keeps.
Held ==
    /\ pending # None => spc \in {"await", "kill", "reap"} /\ life[pending] # "unborn"
    /\ spc \in {"await", "kill", "reap"} => pending # None /\ ~Running(proc)
    /\ proc # None => life[proc] # "unborn" /\ env[proc] = bearer /\ bearer \in Children

Told ==
    \A c, b \in Children : <<c, b>> \in given => life[c] # "unborn" /\ env[c] = b

SupInv == SupTypeOK /\ Started /\ Held /\ Told /\ NoStrayGateway

LEMMA NoneIsNoChild == None \notin Children
BY SupervisorAssumption DEF None, Children

LEMMA PairAdded ==
    ASSUME NEW S, NEW G \in SUBSET (S \X S), NEW x \in S, NEW y \in S
    PROVE  G \cup {<<x, y>>} \in SUBSET (S \X S)
OBVIOUS

LEMMA SupInitInv == SupInit => SupInv
BY NoneIsNoChild
   DEF SupInit, SupInv, SupTypeOK, Started, Held, Told, NoStrayGateway, Running

\* What the supervisor does.
LEMMA SupervisorStep ==
    ASSUME SupInv, Reuse \/ Terminate \/ Forget \/ Progress
    PROVE  SupInv'
<1>. USE NoneIsNoChild
     DEF SupInv, SupTypeOK, Started, Held, Told, NoStrayGateway, Running, Goto
<1>1. CASE Reuse
  <2>1. /\ proc \in Children /\ bearer \in Children /\ given' = given \cup {<<proc, bearer>>}
        /\ life[proc] # "unborn" /\ env[proc] = bearer
        /\ UNCHANGED <<life, stdout, env, spc, pending, proc, bearer>>
    BY <1>1 DEF Reuse
  <2>2. Told'
    BY <2>1 DEF Told
  <2>3. given' \in SUBSET (Children \X Children)
    <3>1. given \in SUBSET (Children \X Children)
      BY DEF SupInv, SupTypeOK
    <3>. HIDE DEF SupInv, SupTypeOK, Started, Held, Told, NoStrayGateway
    <3>. QED
      BY <2>1, <3>1, PairAdded
  <2>. QED
    BY <2>1, <2>2, <2>3
<1>2. CASE Ready
  <2>1. /\ spc = "await" /\ spc' = "idle" /\ pending' = None
        /\ proc' = pending /\ bearer' = env[pending]
        /\ given' = given \cup {<<pending, env[pending]>>}
        /\ UNCHANGED <<life, stdout, env>>
    BY <1>2 DEF Ready
  <2>2. pending \in Children /\ life[pending] # "unborn" /\ env[pending] \in Children
    BY <2>1
  <2>3. Told' /\ given' \in SUBSET (Children \X Children)
    <3>1. Told'
      BY <2>1, <2>2
    <3>2. given \in SUBSET (Children \X Children)
      BY DEF SupInv, SupTypeOK
    <3>3. given' \in SUBSET (Children \X Children)
      <4>. HIDE DEF SupInv, SupTypeOK, Started, Held, Told, NoStrayGateway
      <4>. QED
        BY <2>1, <2>2, <3>2, PairAdded
    <3>. QED
      BY <3>1, <3>3
  <2>4. SupTypeOK' /\ Started' /\ Held'
    BY <2>1, <2>2, <2>3
  <2>5. NoStrayGateway'
    <3>1. ASSUME NEW c \in Children, life[c] = "alive"
          PROVE  c = pending
      BY <2>1, <3>1
    <3>. QED
      BY <2>1, <3>1
  <2>. QED
    BY <2>3, <2>4, <2>5
<1>3. CASE NotReady
  BY <1>3 DEF NotReady
<1>4. CASE KillQuietly
  BY <1>4 DEF KillQuietly
<1>5. CASE StartFails
  BY <1>5 DEF StartFails
<1>6. CASE Forget
  BY <1>6 DEF Forget
<1>7. CASE Terminate
  BY <1>7 DEF Terminate
<1>8. CASE TerminateTimesOut
  BY <1>8 DEF TerminateTimesOut
<1>9. CASE StopRaises
  BY <1>9 DEF StopRaises
<1>. QED
  BY <1>1, <1>2, <1>3, <1>4, <1>5, <1>6, <1>7, <1>8, <1>9 DEF Progress

\* What a child does, or the kernel to it.
LEMMA ChildStep ==
    ASSUME SupInv, NEW c \in Children, Spawn(c) \/ Announce(c) \/ Exit(c) \/ Die(c)
    PROVE  SupInv'
<1>. USE NoneIsNoChild
     DEF SupInv, SupTypeOK, Started, Held, Told, NoStrayGateway, Running, Goto
<1>1. CASE Spawn(c)
  <2>1. SupTypeOK' /\ Started' /\ Held'
    BY <1>1 DEF Spawn
  <2>2. Told'
    BY <1>1 DEF Spawn
  <2>3. NoStrayGateway'
    BY <1>1 DEF Spawn
  <2>. QED
    BY <2>1, <2>2, <2>3
<1>2. CASE Announce(c)
  <2>1. stdout' \in [Children -> {"", "ready", "other"}]
    BY <1>2 DEF Announce
  <2>2. UNCHANGED <<life, env, spc, pending, proc, bearer, given>>
    BY <1>2 DEF Announce
  <2>. QED
    BY <2>1, <2>2
<1>3. CASE Exit(c)
  BY <1>3 DEF Exit
<1>4. CASE Die(c)
  BY <1>4 DEF Die
<1>. QED
  BY <1>1, <1>2, <1>3, <1>4

LEMMA SupInvariant == SupSpec => []SupInv
<1>1. SupInv /\ [SupNext]_supVars => SupInv'
  <2>1. ASSUME SupInv, UNCHANGED supVars
        PROVE  SupInv'
    <3>1. SupTypeOK' /\ Started' /\ Told'
      BY <2>1 DEF SupInv, SupTypeOK, Started, Told, supVars
    <3>2. Held' /\ NoStrayGateway'
      BY <2>1 DEF SupInv, Held, NoStrayGateway, Running, supVars
    <3>. QED
      BY <3>1, <3>2 DEF SupInv
  <2>. QED
    BY <2>1, SupervisorStep, ChildStep DEF SupNext
<1>. QED
  BY <1>1, SupInitInv, PTL DEF SupSpec

\* The children's lives and the supervisor's locals stay in their closed sets.
THEOREM SupTypeCorrect == SupSpec => []SupTypeOK
<1>1. SupInv => SupTypeOK
  BY DEF SupInv
<1>. QED
  BY <1>1, SupInvariant, PTL

\* However late, silent or stubborn the children are and however calls of start
\* and stop fail, no Gateway lives that the supervisor neither holds nor waits
\* for: it waits for a child only when it holds none that runs.
THEOREM NoneStrays == SupSpec => []NoStrayGateway
<1>1. SupInv => NoStrayGateway
  BY DEF SupInv
<1>. QED
  BY <1>1, SupInvariant, PTL

\* Every descriptor start has returned names its child's own bearer, for good.
THEOREM DescriptorsAreRight == SupSpec => []BearerOpensItsChild
<1>1. SupInv => BearerOpensItsChild
  <2>. SUFFICES ASSUME SupTypeOK, Told, NEW d \in given
                PROVE  env[d[1]] = d[2]
    BY DEF SupInv, BearerOpensItsChild
  <2>1. d \in Children \X Children
    BY DEF SupTypeOK
  <2>2. d[1] \in Children /\ d[2] \in Children /\ d = <<d[1], d[2]>>
    BY <2>1
  <2>. QED
    BY <2>2 DEF Told
<1>. QED
  BY <1>1, SupInvariant, PTL
=============================================================================
