------------------------------ MODULE Supervisor ------------------------------
(***************************************************************************)
(* gateway/supervisor.py: the process that summons the Gateway.  It spawns *)
(* gateway.entrypoint with a bearer in its environment, waits a bounded    *)
(* time for one line on its stdout, reuses a child that lives and stops it *)
(* with SIGTERM and then SIGKILL.  The child runs on its own: it announces *)
(* itself late or never, prints something else, and dies at any moment.    *)
(*                                                                         *)
(* The supervisor's calls come one after another.  health only polls, and  *)
(* has no step of its own.                                                 *)
(***************************************************************************)
EXTENDS Integers

CONSTANT MaxChildren   \* bound on spawned children, for model checking only

ASSUME SupervisorAssumption == MaxChildren \in Nat

VARIABLES
    life,     \* life[c]: "unborn", "alive", "doomed" (SIGKILL sent) or "dead"
    stdout,   \* stdout[c]: what c has printed: "", "ready" or, without a port, "other"
    env,      \* env[c]: the bearer c was started with
    spc,      \* what the supervisor is doing
    pending,  \* the child that start is waiting for
    proc,     \* self._proc, None when there is none
    bearer,   \* self._bearer
    given     \* <<child, bearer>> descriptors returned by start (history)

supVars == <<life, stdout, env, spc, pending, proc, bearer, given>>

Children == 1..MaxChildren

None == 0

SupTypeOK ==
    /\ life \in [Children -> {"unborn", "alive", "doomed", "dead"}]
    /\ stdout \in [Children -> {"", "ready", "other"}]
    /\ env \in [Children -> Children \cup {None}]
    /\ spc \in {"idle", "await", "kill", "reap", "term", "stopkill"}
    /\ pending \in Children \cup {None}
    /\ proc \in Children \cup {None}
    /\ bearer \in Children \cup {None}
    /\ given \in SUBSET (Children \X Children)

SupInit ==
    /\ life = [c \in Children |-> "unborn"]
    /\ stdout = [c \in Children |-> ""]
    /\ env = [c \in Children |-> None]
    /\ spc = "idle"
    /\ pending = None /\ proc = None /\ bearer = None
    /\ given = {}

-----------------------------------------------------------------------------
\* poll() is None.
Running(c) == c # None /\ life[c] \in {"alive", "doomed"}

Goto(here, there) == spc = here /\ spc' = there

\* start, with a child that lives: it is reused.
Reuse ==
    /\ spc = "idle" /\ Running(proc)
    /\ given' = given \cup {<<proc, bearer>>}
    /\ UNCHANGED <<life, stdout, env, spc, pending, proc, bearer>>

\* start, without one: a new child with a new bearer, both known only to this
\* call until the child is ready.
Spawn(c) ==
    /\ Goto("idle", "await")
    /\ ~Running(proc)
    /\ life[c] = "unborn" /\ \A d \in 1..(c - 1) : life[d] # "unborn"
    /\ life' = [life EXCEPT ![c] = "alive"]
    /\ env' = [env EXCEPT ![c] = c]
    /\ pending' = c
    /\ UNCHANGED <<stdout, proc, bearer, given>>

\* Mutant of Ready: the bearer of an earlier child is kept.
ReadyOldBearer ==
    /\ Goto("await", "idle")
    /\ stdout[pending] = "ready"
    /\ proc' = pending /\ bearer' = (IF bearer = None THEN env[pending] ELSE bearer)
    /\ pending' = None
    /\ given' = given \cup {<<proc', bearer'>>}
    /\ UNCHANGED <<life, stdout, env>>

\* The child's line arrives and holds a port: it is ours, dead or alive.
Ready ==
    /\ Goto("await", "idle")
    /\ stdout[pending] = "ready"
    /\ proc' = pending /\ bearer' = env[pending] /\ pending' = None
    /\ given' = given \cup {<<proc', bearer'>>}
    /\ UNCHANGED <<life, stdout, env>>

\* Mutant of NotReady: a child that is merely late is not killed.
NotReadyLeft ==
    /\ Goto("await", "idle")
    /\ stdout[pending] # "ready"
    /\ pending' = None
    /\ UNCHANGED <<life, stdout, env, proc, bearer, given>>

\* The deadline passes, the child's stdout ends, or _await_ready finds no port in
\* its line and raises.
NotReady ==
    /\ Goto("await", "kill")
    /\ stdout[pending] # "ready"
    /\ UNCHANGED <<life, stdout, env, pending, proc, bearer, given>>

\* _kill_quietly kills a child that still runs, and waits for it ...
KillQuietly ==
    /\ Goto("kill", "reap")
    /\ life' = [life EXCEPT ![pending] = IF @ = "alive" THEN "doomed" ELSE @]
    /\ UNCHANGED <<stdout, env, pending, proc, bearer, given>>

\* ... in vain, perhaps; start raises either way.
StartFails ==
    /\ Goto("reap", "idle")
    /\ pending' = None
    /\ UNCHANGED <<life, stdout, env, proc, bearer, given>>

-----------------------------------------------------------------------------
\* stop forgets the child: there is none, or it has exited.
Forget ==
    /\ spc \in {"idle", "term", "stopkill"}
    /\ ~Running(proc)
    /\ spc' = "idle"
    /\ proc' = None /\ bearer' = None
    /\ UNCHANGED <<life, stdout, env, pending, given>>

\* stop sends SIGTERM and waits; the child may exit on it or not.
Terminate ==
    /\ Goto("idle", "term")
    /\ Running(proc)
    /\ UNCHANGED <<life, stdout, env, pending, proc, bearer, given>>

\* Mutant of TerminateTimesOut: stop raises when a child ignores SIGTERM.
TerminateRaises ==
    /\ Goto("term", "idle")
    /\ Running(proc)
    /\ UNCHANGED <<life, stdout, env, pending, proc, bearer, given>>

\* It did not: SIGKILL.
TerminateTimesOut ==
    /\ Goto("term", "stopkill")
    /\ Running(proc)
    /\ life' = [life EXCEPT ![proc] = "doomed"]
    /\ UNCHANGED <<stdout, env, pending, proc, bearer, given>>

\* The second wait times out too: stop raises and keeps the child.
StopRaises ==
    /\ Goto("stopkill", "idle")
    /\ Running(proc)
    /\ UNCHANGED <<life, stdout, env, pending, proc, bearer, given>>

-----------------------------------------------------------------------------
\* The child prints its one line once it serves, or something else before.
Announce(c) ==
    /\ life[c] = "alive" /\ stdout[c] = ""
    /\ \E line \in {"ready", "other"} : stdout' = [stdout EXCEPT ![c] = line]
    /\ UNCHANGED <<life, env, spc, pending, proc, bearer, given>>

\* It crashes, or exits on SIGTERM.
Exit(c) ==
    /\ life[c] = "alive"
    /\ life' = [life EXCEPT ![c] = "dead"]
    /\ UNCHANGED <<stdout, env, spc, pending, proc, bearer, given>>

\* The kernel carries out a SIGKILL.
Die(c) ==
    /\ life[c] = "doomed"
    /\ life' = [life EXCEPT ![c] = "dead"]
    /\ UNCHANGED <<stdout, env, spc, pending, proc, bearer, given>>

\* What the supervisor does once it has started a call: every wait is bounded.
Progress ==
    \/ Ready \/ NotReady \/ KillQuietly \/ StartFails
    \/ spc # "idle" /\ Forget
    \/ TerminateTimesOut \/ StopRaises

SupNext ==
    \/ Reuse \/ Terminate \/ Forget
    \/ \E c \in Children : Spawn(c) \/ Announce(c) \/ Exit(c) \/ Die(c)
    \/ Progress

SupSpec ==
    /\ SupInit /\ [][SupNext]_supVars
    /\ WF_supVars(Progress)
    /\ \A c \in Children : WF_supVars(Die(c))

-----------------------------------------------------------------------------
\* No Gateway runs that the supervisor does not hold, except one it has already
\* sent SIGKILL: a start that fails leaves none behind, a start that follows a
\* crash or a failed stop adds none ("a still-live child is reused, not
\* re-spawned", gateway/supervisor.py:94), and stop forgets none that lives.
NoStrayGateway ==
    \A c \in Children : life[c] = "alive" =>
        c = proc \/ (c = pending /\ spc \in {"await", "kill"} /\ ~Running(proc))

\* The bearer start returns is the one the child it names was started with, also
\* after crashes, failed starts and restarts.
BearerOpensItsChild == \A d \in given : env[d[1]] = d[2]

\* Once stop has been called the child dies, whether or not it heeds SIGTERM.
StopEndsIt ==
    \A c \in Children : (spc = "term" /\ proc = c) ~> (life[c] = "dead")
===============================================================================
