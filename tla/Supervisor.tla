----------------------------- MODULE Supervisor -----------------------------
(***************************************************************************)
(* The process manager of the root agent (internal/agent/manager.go): the  *)
(* map from a node to its protocol process, the goroutine that waits for a *)
(* process, automatic restarts with back-off, the SIGKILL timer of Stop,   *)
(* Restart and Apply (which release the lock between their parts), the     *)
(* periodic Reconcile, Shutdown, and a crash of the agent.                 *)
(*                                                                         *)
(* An action is one critical section of Manager.mu, one database write of  *)
(* the web process, or one event of the operating system.  A request of    *)
(* the API is several actions: it writes the desired state first and calls *)
(* the agent afterwards.                                                   *)
(*                                                                         *)
(* Time is abstracted: a back-off delay, the 8 s kill timer and the 9 s    *)
(* deadline of Restart may each elapse at any moment.                      *)
(***************************************************************************)
EXTENDS Naturals, FiniteSets

CONSTANTS
    Node,         \* the nodes of the database
    NoNode,
    BackendOf,    \* [Node -> Node \cup {NoNode}]: a ShadowTLS node's backend
    AnyConnect,   \* the nodes that run ocserv
    Pid,          \* process identities; one is reused once nothing refers to it
    NoPid,
    Caller,       \* concurrent API requests
    Ticker,       \* the agent's periodic goroutine, which runs Reconcile
    Requests,     \* the kinds of API request that may arrive
    Breakable,    \* the nodes whose binary may go missing
    MaxRestarts,  \* 6 in the code
    MaxCrashes    \* bound: how often the agent crashes or is shut down

\* "lost": a request may end before it has called the agent.
RequestKind == {"start", "stop", "restart", "apply", "lost"}

\* A backend is a plain Snell or SS-2022 node: it has no backend of its own.
ASSUME SupervisorAssumption ==
    /\ NoNode \notin Node /\ NoPid \notin Pid /\ Ticker \notin Caller
    /\ BackendOf \in [Node -> Node \cup {NoNode}]
    /\ \A n \in Node : BackendOf[n] # NoNode => BackendOf[BackendOf[n]] = NoNode
    /\ AnyConnect \subseteq Node
    /\ Requests \subseteq RequestKind /\ Breakable \subseteq Node
    /\ MaxRestarts \in Nat \ {0} /\ MaxCrashes \in Nat

VARIABLES
    desired,    \* nodes.desired_state, written by the web process
    runtime,    \* the state column UpdateRuntime writes
    broken,     \* nodes whose binary is missing; Apply may fail for them even earlier
    procs,      \* every process the agent started and still refers to
    managed,    \* Manager.processes
    mode,       \* "closing" once Manager.closed is set, "down" after exit
    signalled,  \* nodes Shutdown has called Stop for
    op,         \* what each caller is in the middle of
    queue,      \* nodes Reconcile has still to look at
    crashes

vars == <<desired, runtime, broken, procs, managed, mode, signalled, op, queue, crashes>>

agentVars == <<runtime, procs, managed>>

Actor == Caller \cup {Ticker}

\* os: "live", "killed" (SIGKILL sent), "dead" (exited, Wait has not taken the
\* lock yet), "exited" (process.exited).  state is process.state; until the
\* process exits it is "stopping" exactly when process.stopping is set.
\* backoff: a goroutine sleeps before restarting this process's node.
Proc == {q \in [node: Node \cup {NoNode},
                os: {"none", "live", "killed", "dead", "exited"},
                state: {"running", "stopping", "stopped", "failed"},
                restarts: 0..MaxRestarts, backoff: BOOLEAN] :
           /\ q.os # "none" => q.node \in Node
           /\ q.backoff => q.os = "exited" /\ q.state = "stopped"}

NoProc == [node |-> NoNode, os |-> "none", state |-> "stopped", restarts |-> 0, backoff |-> FALSE]

\* pc: "start" and "stop" have written the desired state and not yet called the
\* agent; "apply", "restart", "poll" and "launch" are the parts of Apply and
\* Restart, "record" is the end of a failed Apply of an AnyConnect node, "report" that
\* of a failed Reconcile.  by: a Restart is one of its own, the first of Apply, or that
\* of Apply with its last-good configuration.
Op == {o \in [pc: {"idle", "start", "stop", "apply", "restart", "poll", "launch", "record", "report"},
              node: Node \cup {NoNode}, by: {"restart", "apply", "fallback"}] :
         o.pc # "idle" => o.node \in Node}

Idle == [pc |-> "idle", node |-> NoNode, by |-> "restart"]

TypeOK ==
    /\ desired \in [Node -> {"running", "stopped"}]
    /\ runtime \in [Node -> {"running", "stopped", "failed"}]
    /\ broken \in SUBSET Node
    /\ procs \in [Pid -> Proc]
    /\ managed \in [Node -> Pid \cup {NoPid}]
    /\ mode \in {"up", "closing", "down"}
    /\ signalled \in SUBSET Node
    /\ op \in [Actor -> Op]
    /\ queue \in SUBSET Node
    /\ crashes \in 0..MaxCrashes

Init ==
    /\ desired \in [Node -> {"running", "stopped"}]
    /\ runtime = [n \in Node |-> "stopped"]
    /\ broken = {}
    /\ procs = [p \in Pid |-> NoProc]
    /\ managed = [n \in Node |-> NoPid]
    /\ mode = "up"
    /\ signalled = {}
    /\ op = [c \in Actor |-> Idle]
    /\ queue = {}
    /\ crashes = 0

-----------------------------------------------------------------------------
(* Starting a process.  The code does it under one lock, the backend first, *)
(* so it is a function of the manager's state: m holds procs, managed,      *)
(* runtime and whether the last start succeeded.                            *)

Manager == [procs |-> procs, managed |-> managed, runtime |-> runtime, ok |-> TRUE]

\* The entry of n, if its process has not been seen to exit.
Attached(m, n) == m.managed[n] # NoPid /\ m.procs[m.managed[n]].os # "exited"

\* Nothing refers to a process any more once it has exited, is in no entry of
\* the map and has no restart pending.
Forget(m, p) ==
    IF p # NoPid /\ m.procs[p].os = "exited" /\ ~m.procs[p].backoff
    THEN [m EXCEPT !.procs[p] = NoProc]
    ELSE m

Free(m) == {q \in Pid : m.procs[q].os = "none"}

\* The new process takes the place of an exited one in the map.
Spawn(m, n, restarts) ==
    LET f == Forget(m, m.managed[n])
        p == CHOOSE q \in Free(f) : TRUE
    IN  [f EXCEPT
           !.procs[p] = [node |-> n, os |-> "live", state |-> "running",
                         restarts |-> restarts, backoff |-> FALSE],
           !.managed[n] = p,
           !.runtime[n] = "running"]

\* One level of startLockedWithRestarts: a missing binary is recorded, a failed
\* fork (here: no process identity left) is only returned.
StartOne(m, n, restarts) ==
    IF Attached(m, n) THEN m
    ELSE IF n \in broken THEN [m EXCEPT !.runtime[n] = "failed", !.ok = FALSE]
    ELSE IF Free(Forget(m, m.managed[n])) = {} THEN [m EXCEPT !.ok = FALSE]
    ELSE Spawn(m, n, restarts)

\* Mutant: starts although the manager is closed.
StartLockedOpen(m, n, restarts) ==
    IF Attached(m, n) \/ BackendOf[n] = NoNode THEN StartOne(m, n, restarts)
    ELSE LET b == StartOne(m, BackendOf[n], 0)
         IN  IF b.ok THEN StartOne(b, n, restarts) ELSE b

\* Mutant: leaves the backend to somebody else.
StartLockedAlone(m, n, restarts) ==
    IF mode # "up" THEN [m EXCEPT !.ok = FALSE] ELSE StartOne(m, n, restarts)

StartLocked(m, n, restarts) ==
    IF mode # "up" THEN [m EXCEPT !.ok = FALSE]
    ELSE IF Attached(m, n) \/ BackendOf[n] = NoNode THEN StartOne(m, n, restarts)
    ELSE LET b == StartOne(m, BackendOf[n], 0)
         IN  IF b.ok THEN StartOne(b, n, restarts) ELSE b

Become(m) ==
    /\ procs' = m.procs
    /\ managed' = m.managed
    /\ runtime' = m.runtime

\* Stop: SIGTERM and a kill timer for an attached process, otherwise the state
\* column alone.  It does not wait for the exit.
Stop(n) ==
    IF Attached(Manager, n)
    THEN /\ procs' = [procs EXCEPT ![managed[n]].state = "stopping"]
         /\ UNCHANGED <<runtime, managed>>
    ELSE /\ runtime' = [runtime EXCEPT ![n] = "stopped"]
         /\ UNCHANGED <<procs, managed>>

-----------------------------------------------------------------------------
(* API requests: the web process writes the desired state, then calls.      *)

SetOp(c, o) == op' = [op EXCEPT ![c] = o]

At(c, pc) == op[c].pc = pc

ReqStart(c, n) ==
    /\ "start" \in Requests /\ At(c, "idle")
    /\ desired' = [desired EXCEPT ![n] = "running"]
    /\ SetOp(c, [pc |-> "start", node |-> n, by |-> "restart"])
    /\ UNCHANGED <<agentVars, broken, mode, signalled, queue, crashes>>

ReqStop(c, n) ==
    /\ "stop" \in Requests /\ At(c, "idle")
    /\ desired' = [desired EXCEPT ![n] = "stopped"]
    /\ SetOp(c, [pc |-> "stop", node |-> n, by |-> "restart"])
    /\ UNCHANGED <<agentVars, broken, mode, signalled, queue, crashes>>

ReqRestart(c, n) ==
    /\ "restart" \in Requests /\ At(c, "idle")
    /\ SetOp(c, [pc |-> "restart", node |-> n, by |-> "restart"])
    /\ UNCHANGED <<desired, agentVars, broken, mode, signalled, queue, crashes>>

\* A node was edited: the new configuration is stored and has to be applied.
ReqApply(c, n) ==
    /\ "apply" \in Requests /\ At(c, "idle")
    /\ SetOp(c, [pc |-> "apply", node |-> n, by |-> "restart"])
    /\ UNCHANGED <<desired, agentVars, broken, mode, signalled, queue, crashes>>

\* The web process dies, or the agent does not answer, before the call.
RpcLost(c) ==
    /\ "lost" \in Requests /\ op[c].pc \in {"start", "stop", "apply"}
    /\ SetOp(c, Idle)
    /\ UNCHANGED <<desired, agentVars, broken, mode, signalled, queue, crashes>>

RpcStart(c) ==
    /\ mode # "down" /\ At(c, "start")
    /\ Become(StartLocked(Manager, op[c].node, 0))
    /\ SetOp(c, Idle)
    /\ UNCHANGED <<desired, broken, mode, signalled, queue, crashes>>

RpcStop(c) ==
    /\ mode # "down" /\ At(c, "stop")
    /\ Stop(op[c].node)
    /\ SetOp(c, Idle)
    /\ UNCHANGED <<desired, broken, mode, signalled, queue, crashes>>

-----------------------------------------------------------------------------
(* Apply and Restart, on behalf of a request or of Reconcile.               *)

\* Whether it fell back or not, Apply returns the error and Reconcile records it;
\* that of an AnyConnect node records it as well.
Returned(c) == IF c = Ticker THEN [op[c] EXCEPT !.pc = "report"] ELSE Idle

Failed(c) == IF op[c].node \in AnyConnect THEN [op[c] EXCEPT !.pc = "record"] ELSE Returned(c)

\* Apply restarts a node that is to run; it reads the desired state once.  An
\* AnyConnect node that is not to run is recorded as stopped, whatever it does.
Apply(c) ==
    /\ mode # "down" /\ At(c, "apply")
    /\ LET n == op[c].node
           run == desired[n] = "running"
       IN  /\ SetOp(c, IF run THEN [op[c] EXCEPT !.pc = "restart", !.by = "apply"] ELSE Idle)
           /\ runtime' = IF n \in AnyConnect /\ ~run THEN [runtime EXCEPT ![n] = "stopped"] ELSE runtime
    /\ UNCHANGED <<desired, procs, managed, broken, mode, signalled, queue, crashes>>

\* Outside the lock.
ApplyRecord(c) ==
    /\ At(c, "record")
    /\ runtime' = [runtime EXCEPT ![op[c].node] = "failed"]
    /\ SetOp(c, Returned(c))
    /\ UNCHANGED <<desired, procs, managed, broken, mode, signalled, queue, crashes>>

\* No configuration could be made: nothing is restarted.
ApplyFails(c) ==
    /\ mode # "down" /\ At(c, "apply") /\ op[c].node \in broken
    /\ SetOp(c, Failed(c))
    /\ UNCHANGED <<desired, agentVars, broken, mode, signalled, queue, crashes>>

RestartStop(c) ==
    /\ mode # "down" /\ At(c, "restart")
    /\ Stop(op[c].node)
    /\ SetOp(c, [op[c] EXCEPT !.pc = "poll"])
    /\ UNCHANGED <<desired, broken, mode, signalled, queue, crashes>>

\* The poll of Restart ends when the process has exited or the deadline passes.
RestartPoll(c) ==
    /\ At(c, "poll")
    /\ SetOp(c, [op[c] EXCEPT !.pc = "launch"])
    /\ UNCHANGED <<desired, agentVars, broken, mode, signalled, queue, crashes>>

\* Mutant: every failure falls back to the last-good configuration again.
RestartLaunchForever(c) ==
    /\ At(c, "launch")
    /\ LET m == StartLocked(Manager, op[c].node, 0)
       IN  /\ Become(m)
           /\ SetOp(c, IF m.ok THEN Idle ELSE [op[c] EXCEPT !.pc = "restart"])
    /\ UNCHANGED <<desired, broken, mode, signalled, queue, crashes>>

\* When the first restart of Apply fails there may be a last-good configuration
\* to fall back to; after that Apply has failed, however the second one went.
RestartLaunch(c) ==
    /\ At(c, "launch")
    /\ LET m == StartLocked(Manager, op[c].node, 0)
       IN  /\ Become(m)
           /\ IF op[c].by = "restart" \/ (op[c].by = "apply" /\ m.ok) THEN SetOp(c, Idle)
              ELSE \/ SetOp(c, Failed(c))
                   \/ op[c].by = "apply" /\ SetOp(c, [op[c] EXCEPT !.pc = "restart", !.by = "fallback"])
    /\ UNCHANGED <<desired, broken, mode, signalled, queue, crashes>>

\* Mutant of ReconcileNode: an entry whose process has exited counts as none.
ReconcileExited(n) ==
    /\ mode # "down" /\ At(Ticker, "idle") /\ n \in queue
    /\ BackendOf[n] # NoNode => \A k \in queue : BackendOf[k] # NoNode
    /\ queue' = queue \ {n}
    /\ SetOp(Ticker, IF Attached(Manager, n) THEN Idle
                     ELSE [pc |-> "apply", node |-> n, by |-> "restart"])
    /\ UNCHANGED <<desired, agentVars, broken, mode, signalled, crashes>>

\* Reconcile looks at the nodes that were to run when it listed them, backends
\* before ShadowTLS nodes, and applies each one the map has no entry for.
ReconcileList ==
    /\ mode # "down" /\ At(Ticker, "idle") /\ queue = {}
    /\ queue' = {n \in Node : desired[n] = "running"}
    /\ UNCHANGED <<desired, agentVars, broken, mode, signalled, op, crashes>>

ReconcileNode(n) ==
    /\ mode # "down" /\ At(Ticker, "idle") /\ n \in queue
    /\ BackendOf[n] # NoNode => \A k \in queue : BackendOf[k] # NoNode
    /\ queue' = queue \ {n}
    /\ SetOp(Ticker, IF managed[n] # NoPid THEN Idle
                     ELSE [pc |-> "apply", node |-> n, by |-> "restart"])
    /\ UNCHANGED <<desired, agentVars, broken, mode, signalled, crashes>>

\* Apply failed: Reconcile records it, outside the lock.
ReconcileReport ==
    /\ At(Ticker, "report")
    /\ runtime' = [runtime EXCEPT ![op[Ticker].node] = "failed"]
    /\ SetOp(Ticker, Idle)
    /\ UNCHANGED <<desired, procs, managed, broken, mode, signalled, queue, crashes>>

-----------------------------------------------------------------------------
(* Processes: exits, the goroutine of wait, kill timers and back-off.       *)

Exit(p) ==
    /\ procs[p].os \in {"live", "killed"}
    /\ procs' = [procs EXCEPT ![p].os = "dead"]
    /\ UNCHANGED <<desired, runtime, broken, managed, mode, signalled, op, queue, crashes>>

\* Mutant: the timer takes a process Stop has marked for one already stopped.
KillTimerRunning(p) ==
    /\ procs[p].os = "live" /\ procs[p].state = "running"
    /\ procs' = [procs EXCEPT ![p].os = "killed"]
    /\ UNCHANGED <<desired, runtime, broken, managed, mode, signalled, op, queue, crashes>>

\* The SIGKILL that Stop scheduled.
KillTimer(p) ==
    /\ procs[p].os = "live" /\ procs[p].state = "stopping"
    /\ procs' = [procs EXCEPT ![p].os = "killed"]
    /\ UNCHANGED <<desired, runtime, broken, managed, mode, signalled, op, queue, crashes>>

\* Mutants of Settled: one restart too many; no restart at all.
SettledOneMore(p, stable) ==
    LET r == IF stable THEN 0 ELSE procs[p].restarts
        gone == [procs[p] EXCEPT !.os = "exited", !.state = "stopped"]
    IN  IF procs[p].state = "stopping" \/ mode # "up" \/ desired[procs[p].node] # "running" THEN gone
        ELSE IF r > MaxRestarts THEN [gone EXCEPT !.state = "failed", !.restarts = r]
        ELSE [gone EXCEPT !.restarts = r + 1, !.backoff = TRUE]

SettledForGood(p, stable) == [procs[p] EXCEPT !.os = "exited", !.state = "stopped"]

\* What wait leaves behind for the current process of its node.  stable: it ran
\* for at least stableRuntimeWindow.
Settled(p, stable) ==
    LET n == procs[p].node
        r == IF stable THEN 0 ELSE procs[p].restarts
        gone == [procs[p] EXCEPT !.os = "exited", !.state = "stopped"]
    IN  IF procs[p].state = "stopping" \/ mode # "up" \/ desired[n] # "running" THEN gone
        ELSE IF r >= MaxRestarts THEN [gone EXCEPT !.state = "failed", !.restarts = r]
        ELSE [gone EXCEPT !.restarts = r + 1, !.backoff = TRUE]

\* Mutant: does not write the state column.
WaitSilently(p) ==
    /\ procs[p].os = "dead"
    /\ \E stable \in BOOLEAN :
         procs' = [procs EXCEPT ![p] = IF managed[procs[p].node] = p THEN Settled(p, stable) ELSE NoProc]
    /\ UNCHANGED <<desired, runtime, broken, managed, mode, signalled, op, queue, crashes>>

Wait(p) ==
    /\ procs[p].os = "dead"
    /\ LET n == procs[p].node
       IN  IF managed[n] # p
           THEN procs' = [procs EXCEPT ![p] = NoProc] /\ UNCHANGED runtime
           ELSE \E stable \in BOOLEAN :
                /\ procs' = [procs EXCEPT ![p] = Settled(p, stable)]
                /\ runtime' = [runtime EXCEPT ![n] =
                                 IF Settled(p, stable).state = "failed" THEN "failed" ELSE "stopped"]
    /\ UNCHANGED <<desired, broken, managed, mode, signalled, op, queue, crashes>>

\* The back-off goroutine wakes up: it deletes whatever entry its node has by
\* now and starts the node, without looking at the desired state.
BackoffFire(p) ==
    /\ procs[p].backoff
    /\ LET n == procs[p].node
           m == [Manager EXCEPT !.procs[p].backoff = FALSE, !.managed[n] = NoPid]
           deleted == Forget(Forget(m, p), managed[n])
       IN  IF mode = "up"
           THEN Become(StartLocked(deleted, n, procs[p].restarts))
           ELSE Become([Manager EXCEPT !.procs[p].backoff = FALSE])
    /\ UNCHANGED <<desired, broken, mode, signalled, op, queue, crashes>>

Break(n) ==
    /\ n \in Breakable \ broken
    /\ broken' = broken \cup {n}
    /\ UNCHANGED <<desired, agentVars, mode, signalled, op, queue, crashes>>

Repair(n) ==
    /\ n \in broken
    /\ broken' = broken \ {n}
    /\ UNCHANGED <<desired, agentVars, mode, signalled, op, queue, crashes>>

-----------------------------------------------------------------------------
(* The end of the agent and its restart.                                    *)

ShutdownBegin ==
    /\ mode = "up" /\ crashes < MaxCrashes
    /\ mode' = "closing"
    /\ signalled' = {}
    /\ crashes' = crashes + 1
    /\ UNCHANGED <<desired, agentVars, broken, op, queue>>

\* Mutant of ShutdownStop: backends first.
ShutdownStopBackendsFirst(n) ==
    /\ mode = "closing" /\ n \notin signalled
    /\ BackendOf[n] # NoNode => \A k \in Node : BackendOf[k] = NoNode => k \in signalled
    /\ Stop(n)
    /\ signalled' = signalled \cup {n}
    /\ UNCHANGED <<desired, broken, mode, op, queue, crashes>>

\* Shutdown calls Stop for every node, ShadowTLS nodes first.
ShutdownStop(n) ==
    /\ mode = "closing" /\ n \notin signalled
    /\ BackendOf[n] = NoNode => \A k \in Node : BackendOf[k] # NoNode => k \in signalled
    /\ Stop(n)
    /\ signalled' = signalled \cup {n}
    /\ UNCHANGED <<desired, broken, mode, op, queue, crashes>>

\* The agent is gone, its goroutines and kill timers with it; the kernel sends its
\* children SIGTERM (Pdeathsig).  How long they take to obey is left out: no agent
\* refers to them any more.  The database stays as it was.
Down ==
    /\ mode' = "down"
    /\ procs' = [p \in Pid |-> NoProc]
    /\ managed' = [n \in Node |-> NoPid]
    /\ op' = [c \in Actor |-> Idle]
    /\ queue' = {}
    /\ signalled' = {}
    /\ UNCHANGED <<desired, runtime, broken>>

ShutdownExit ==
    /\ mode = "closing" /\ signalled = Node
    /\ Down
    /\ UNCHANGED crashes

Crash ==
    /\ mode # "down" /\ crashes < MaxCrashes
    /\ Down
    /\ crashes' = crashes + 1

Boot ==
    /\ mode = "down"
    /\ mode' = "up"
    /\ UNCHANGED <<desired, agentVars, broken, signalled, op, queue, crashes>>

-----------------------------------------------------------------------------
Request == \E c \in Caller, n \in Node :
    ReqStart(c, n) \/ ReqStop(c, n) \/ ReqRestart(c, n) \/ ReqApply(c, n)

Call(c) ==
    \/ RpcStart(c) \/ RpcStop(c) \/ Apply(c) \/ ApplyFails(c) \/ ApplyRecord(c)
    \/ RestartStop(c) \/ RestartPoll(c) \/ RestartLaunch(c)

Reconcile == ReconcileList \/ ReconcileReport \/ \E n \in Node : ReconcileNode(n)

Shutdown == ShutdownExit \/ \E n \in Node : ShutdownStop(n)

Next ==
    \/ Request
    \/ \E c \in Caller : RpcLost(c)
    \/ \E c \in Actor : Call(c)
    \/ Reconcile
    \/ \E p \in Pid : Exit(p) \/ KillTimer(p) \/ Wait(p) \/ BackoffFire(p)
    \/ \E n \in Node : Break(n) \/ Repair(n)
    \/ ShutdownBegin \/ Shutdown \/ Crash \/ Boot

Spec == Init /\ [][Next]_vars

\* Goroutines and timers run, a killed process dies, the container restarts the
\* agent.  Requests, crashes, exits and missing binaries are not owed.
Fairness ==
    /\ \A c \in Actor : WF_vars(Call(c))
    /\ WF_vars(Reconcile)
    /\ WF_vars(Shutdown)
    /\ WF_vars(Boot)
    /\ \A p \in Pid : /\ WF_vars(procs[p].os = "killed" /\ Exit(p))
                      /\ WF_vars(KillTimer(p))
                      /\ WF_vars(Wait(p))
                      /\ WF_vars(BackoffFire(p))

FairSpec == Spec /\ Fairness

-----------------------------------------------------------------------------
(* Properties.                                                              *)

Running(n) == {p \in Pid : procs[p].node = n /\ procs[p].os \in {"live", "killed"}}

GaveUp(n) == managed[n] # NoPid /\ procs[managed[n]].state = "failed"

\* One run of the agent never has two processes of one node: starts, restarts,
\* back-off and Reconcile leave none alive outside the map, which would compete
\* for the port and could no longer be stopped.  Holds of plain nodes while
\* nobody starts or restarts them by hand.
AtMostOneProcess == \A n \in Node : \A p, q \in Running(n) : p = q

\* The state column says "running" only of a node the manager has a process
\* for, as long as the agent has not died under it.
RuntimeHonest ==
    crashes = 0 => \A n \in Node : runtime[n] = "running" => Attached(Manager, n)

\* "After the threshold it is marked failed and waits for manual operation"
\* (DEVELOPMENT_SPEC.md:730): nothing automatic, short of a new agent, starts a
\* node that has given up.
FailedWaits ==
    [][\A n \in Node : GaveUp(n) => GaveUp(n)' \/ mode' = "down"]_vars

\* "Start/stop: changes the desired state, the Agent starts and stops the
\* process" (USER_GUIDE.md:314): a node that stays stopped ends up without one.
StopTakesEffect ==
    \A n \in Node : <>[](desired[n] = "stopped") => <>[](Running(n) = {})

\* The other half of the same line: a node that stays desired running, and
\* whose binary is there, keeps coming back up unless it has given up.  Back-off
\* sees to it, or Reconcile for a node without an entry.
StartTakesEffect ==
    \A n \in Node :
        <>[](desired[n] = "running" /\ n \notin broken)
            => []<>(Running(n) # {} \/ GaveUp(n))

\* Stop ends a process even when it ignores SIGTERM: the kill timer follows it.
StopTerminates ==
    \A p \in Pid : procs[p].state = "stopping" ~> procs[p].os \in {"none", "exited"}

\* Every call of Apply, Start, Stop and Restart returns, Reconcile's included.
CallsReturn == \A c \in Actor : ~At(c, "idle") ~> At(c, "idle")

\* From m to s process p was started.
Started(m, s, p) == m.procs[p].os # "live" /\ s.procs[p].os = "live"

\* "ShadowTLS starts after its backend" (DEVELOPMENT_SPEC.md:523): whatever starts a
\* ShadowTLS process, the first one of its node or one after an exit, a restart or a
\* back-off, leaves the node's backend attached in the same step.
BackendFirst ==
    [][\A p \in Pid :
         Started(Manager, Manager', p) /\ BackendOf[procs'[p].node] # NoNode
            => Attached(Manager', BackendOf[procs'[p].node])]_vars

\* When Shutdown has gone through the nodes no process of the map is left that
\* was not asked to stop, although requests and restarts go on meanwhile.
Stopped(n) == Attached(Manager, n) => procs[managed[n]].state = "stopping"

ShutdownStopsAll == mode = "closing" => \A n \in signalled : Stopped(n)

\* "Normal shutdown stops ShadowTLS first, then the backends"
\* (DEVELOPMENT_SPEC.md:125).
ShutdownFrontsFirst ==
    mode = "closing" =>
        \A n \in Node : BackendOf[n] # NoNode /\ BackendOf[n] \in signalled => Stopped(n)
=============================================================================
