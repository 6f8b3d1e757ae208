-------------------------- MODULE SupervisorProofs --------------------------
(***************************************************************************)
(* Theorems about Supervisor.  For any nodes and requests: its type        *)
(* invariant, backends before ShadowTLS nodes, and what Shutdown leaves.   *)
(* For nodes that are no other's backend and that nobody starts by hand:   *)
(* one process, no restart after giving up, a true state column.           *)
(***************************************************************************)
EXTENDS Supervisor, TLAPS

ManagerState ==
    [procs: [Pid -> Proc], managed: [Node -> Pid \cup {NoPid}],
     runtime: [Node -> {"running", "stopped", "failed"}], ok: BOOLEAN]

LEMMA ManagerType == TypeOK => Manager \in ManagerState
  BY DEF TypeOK, Manager, ManagerState

LEMMA NoProcType == NoProc \in Proc
  BY SupervisorAssumption DEF NoProc, Proc

LEMMA ForgetType ==
    ASSUME NEW m \in ManagerState, NEW p \in Pid \cup {NoPid}
    PROVE  Forget(m, p) \in ManagerState
  BY NoProcType DEF Forget, ManagerState

LEMMA SpawnType ==
    ASSUME NEW m \in ManagerState, NEW n \in Node, NEW r \in 0..MaxRestarts,
           Free(Forget(m, m.managed[n])) # {}
    PROVE  Spawn(m, n, r) \in ManagerState
<1> DEFINE f == Forget(m, m.managed[n])
           p == CHOOSE q \in Free(f) : TRUE
           new == [node |-> n, os |-> "live", state |-> "running", restarts |-> r, backoff |-> FALSE]
<1>1. f \in ManagerState
  BY ForgetType DEF ManagerState
<1>2. p \in Pid
  BY DEF Free
<1>3. new \in Proc
  BY DEF Proc
<1> HIDE DEF f, p, new
<1>4. [f EXCEPT !.procs[p] = new, !.managed[n] = p, !.runtime[n] = "running"] \in ManagerState
  BY <1>1, <1>2, <1>3 DEF ManagerState
<1>5. QED
  BY <1>4 DEF Spawn, f, p, new

LEMMA StartOneType ==
    ASSUME NEW m \in ManagerState, NEW n \in Node, NEW r \in 0..MaxRestarts
    PROVE  StartOne(m, n, r) \in ManagerState
  BY SpawnType DEF StartOne, ManagerState

LEMMA StartLockedType ==
    ASSUME NEW m \in ManagerState, NEW n \in Node, NEW r \in 0..MaxRestarts
    PROVE  StartLocked(m, n, r) \in ManagerState
<1>1. 0 \in 0..MaxRestarts
  BY SupervisorAssumption
<1>2. ASSUME BackendOf[n] # NoNode
      PROVE  /\ StartOne(m, BackendOf[n], 0) \in ManagerState
             /\ StartOne(StartOne(m, BackendOf[n], 0), n, r) \in ManagerState
  <2>1. BackendOf[n] \in Node
    BY <1>2, SupervisorAssumption
  <2>2. StartOne(m, BackendOf[n], 0) \in ManagerState
    BY <1>1, <2>1, StartOneType
  <2>3. QED
    BY <2>2, StartOneType
<1>3. [m EXCEPT !.ok = FALSE] \in ManagerState
  BY DEF ManagerState
<1>4. QED
  BY <1>2, <1>3, StartOneType DEF StartLocked

LEMMA BecomeType ==
    ASSUME NEW m \in ManagerState, Become(m)
    PROVE  /\ procs' \in [Pid -> Proc]
           /\ managed' \in [Node -> Pid \cup {NoPid}]
           /\ runtime' \in [Node -> {"running", "stopped", "failed"}]
  BY DEF Become, ManagerState

LEMMA StopType ==
    ASSUME TypeOK, NEW n \in Node, Stop(n)
    PROVE  /\ procs' \in [Pid -> Proc]
           /\ managed' \in [Node -> Pid \cup {NoPid}]
           /\ runtime' \in [Node -> {"running", "stopped", "failed"}]
<1>1. CASE Attached(Manager, n)
  <2>1. managed[n] \in Pid
    BY <1>1 DEF Attached, Manager, TypeOK
  <2>2. [procs[managed[n]] EXCEPT !.state = "stopping"] \in Proc
    BY <1>1, <2>1 DEF Attached, Manager, TypeOK, Proc
  <2>3. QED
    BY <1>1, <2>1, <2>2 DEF Stop, TypeOK
<1>2. CASE ~Attached(Manager, n)
  BY <1>2 DEF Stop, TypeOK
<1>3. QED
  BY <1>1, <1>2

-----------------------------------------------------------------------------
(* Type correctness. *)

LEMMA SettledType ==
    ASSUME TypeOK, NEW p \in Pid, procs[p].os = "dead", NEW stable \in BOOLEAN
    PROVE  Settled(p, stable) \in Proc
<1> DEFINE r == IF stable THEN 0 ELSE procs[p].restarts
           gone == [procs[p] EXCEPT !.os = "exited", !.state = "stopped"]
<1>1. procs[p] \in Proc /\ procs[p].os # "none"
  BY DEF TypeOK
<1>2. r \in 0..MaxRestarts /\ (~(r >= MaxRestarts) => r + 1 \in 0..MaxRestarts)
  BY <1>1, SupervisorAssumption DEF Proc
<1>3. gone \in Proc /\ gone.os = "exited" /\ gone.state = "stopped"
  BY <1>1 DEF Proc
<1>4. Settled(p, stable) = IF procs[p].state = "stopping" \/ mode # "up" \/ desired[procs[p].node] # "running"
                           THEN gone
                           ELSE IF r >= MaxRestarts THEN [gone EXCEPT !.state = "failed", !.restarts = r]
                           ELSE [gone EXCEPT !.restarts = r + 1, !.backoff = TRUE]
  BY DEF Settled
<1> HIDE DEF r, gone
<1>5. ~gone.backoff => [gone EXCEPT !.state = "failed", !.restarts = r] \in Proc
  BY <1>2, <1>3 DEF Proc
<1>6. ~(r >= MaxRestarts) => [gone EXCEPT !.restarts = r + 1, !.backoff = TRUE] \in Proc
  BY <1>2, <1>3 DEF Proc
<1>7. ~gone.backoff
  BY <1>1 DEF gone, Proc
<1>8. QED
  BY <1>3, <1>4, <1>5, <1>6, <1>7

LEMMA OpType ==
    ASSUME TypeOK, NEW c \in Actor, NEW o \in Op, SetOp(c, o)
    PROVE  op' \in [Actor -> Op]
  BY DEF TypeOK, SetOp

LEMMA IdleType == Idle \in Op
  BY DEF Idle, Op

LEMMA AwakeType ==
    ASSUME TypeOK, NEW p \in Pid
    PROVE  [procs[p] EXCEPT !.backoff = FALSE] \in Proc
<1>1. procs[p] \in Proc
  BY DEF TypeOK
<1>2. QED
  BY <1>1 DEF Proc

LEMMA FailedType ==
    ASSUME TypeOK, NEW c \in Actor, ~At(c, "idle")
    PROVE  Failed(c) \in Op /\ Returned(c) \in Op
<1>1. op[c] \in Op /\ op[c].node \in Node
  BY DEF TypeOK, Op, At
<1>2. [op[c] EXCEPT !.pc = "record"] \in Op /\ [op[c] EXCEPT !.pc = "report"] \in Op
  BY <1>1 DEF Op
<1>3. QED
  BY <1>2, IdleType DEF Failed, Returned

LEMMA TypeStep ==
    ASSUME TypeOK, [Next]_vars
    PROVE  TypeOK'
<1> Caller \subseteq Actor /\ Ticker \in Actor
  BY DEF Actor
<1>1. ASSUME NEW c \in Caller, NEW n \in Node,
             ReqStart(c, n) \/ ReqStop(c, n) \/ ReqRestart(c, n) \/ ReqApply(c, n)
      PROVE  TypeOK'
  <2>1. \A x \in {"start", "stop", "apply", "restart"} : [pc |-> x, node |-> n, by |-> "restart"] \in Op
    BY DEF Op
  <2>2. op' \in [Actor -> Op]
    BY <1>1, <2>1, OpType DEF ReqStart, ReqStop, ReqRestart, ReqApply
  <2>3. QED
    BY <1>1, <2>2 DEF ReqStart, ReqStop, ReqRestart, ReqApply, TypeOK, agentVars
<1>2. ASSUME NEW c \in Caller, RpcLost(c)
      PROVE  TypeOK'
  BY <1>2, OpType, IdleType DEF RpcLost, TypeOK, agentVars
<1>3. ASSUME NEW c \in Actor, RpcStart(c)
      PROVE  TypeOK'
  <2>1. op[c].node \in Node /\ 0 \in 0..MaxRestarts
    BY <1>3, SupervisorAssumption DEF RpcStart, At, TypeOK, Op
  <2>2. StartLocked(Manager, op[c].node, 0) \in ManagerState
    BY <2>1, StartLockedType, ManagerType
  <2>3. QED
    BY <1>3, <2>2, BecomeType, OpType, IdleType DEF RpcStart, TypeOK
<1>4. ASSUME NEW c \in Actor, RpcStop(c)
      PROVE  TypeOK'
  <2>1. op[c].node \in Node
    BY <1>4 DEF RpcStop, At, TypeOK, Op
  <2>2. QED
    BY <1>4, <2>1, StopType, OpType, IdleType DEF RpcStop, TypeOK
<1>5. ASSUME NEW c \in Actor, Apply(c)
      PROVE  TypeOK'
  <2>1. [op[c] EXCEPT !.pc = "restart", !.by = "apply"] \in Op
    BY <1>5 DEF Apply, At, TypeOK, Op
  <2>2. op' \in [Actor -> Op]
    BY <1>5, <2>1, OpType, IdleType DEF Apply
  <2>3. runtime' \in [Node -> {"running", "stopped", "failed"}]
    BY <1>5 DEF Apply, TypeOK
  <2>4. QED
    BY <1>5, <2>2, <2>3 DEF Apply, TypeOK
<1>23. ASSUME NEW c \in Actor, ApplyRecord(c)
       PROVE  TypeOK'
  <2>1. Returned(c) \in Op
    BY <1>23, FailedType DEF ApplyRecord, At
  <2>2. op' \in [Actor -> Op]
    BY <1>23, <2>1, OpType DEF ApplyRecord
  <2>3. runtime' \in [Node -> {"running", "stopped", "failed"}]
    BY <1>23 DEF ApplyRecord, TypeOK
  <2>4. QED
    BY <1>23, <2>2, <2>3 DEF ApplyRecord, TypeOK
<1>22. ASSUME NEW c \in Actor, ApplyFails(c)
       PROVE  TypeOK'
  <2>1. Failed(c) \in Op
    BY <1>22, FailedType DEF ApplyFails, At
  <2>2. QED
    BY <1>22, <2>1, OpType DEF ApplyFails, TypeOK, agentVars
<1>6. ASSUME NEW c \in Actor, RestartStop(c)
      PROVE  TypeOK'
  <2>1. op[c].node \in Node /\ [op[c] EXCEPT !.pc = "poll"] \in Op
    BY <1>6 DEF RestartStop, At, TypeOK, Op
  <2>2. QED
    BY <1>6, <2>1, StopType, OpType DEF RestartStop, TypeOK
<1>7. ASSUME NEW c \in Actor, RestartPoll(c)
      PROVE  TypeOK'
  <2>1. [op[c] EXCEPT !.pc = "launch"] \in Op
    BY <1>7 DEF RestartPoll, At, TypeOK, Op
  <2>2. op' \in [Actor -> Op]
    BY <1>7, <2>1, OpType DEF RestartPoll
  <2>3. QED
    BY <1>7, <2>2 DEF RestartPoll, TypeOK, agentVars
<1>8. ASSUME NEW c \in Actor, RestartLaunch(c)
      PROVE  TypeOK'
  <2> DEFINE m == StartLocked(Manager, op[c].node, 0)
  <2>1. op[c].node \in Node /\ op[c] \in Op /\ 0 \in 0..MaxRestarts
    BY <1>8, SupervisorAssumption DEF RestartLaunch, At, TypeOK, Op
  <2>2. /\ [op[c] EXCEPT !.pc = "restart", !.by = "fallback"] \in Op
        /\ Failed(c) \in Op
    BY <1>8, <2>1, FailedType DEF Op, RestartLaunch, At
  <2>3. m \in ManagerState
    BY <2>1, StartLockedType, ManagerType
  <2>4. op' \in [Actor -> Op]
    BY <1>8, <2>2, OpType, IdleType DEF RestartLaunch
  <2>5. QED
    BY <1>8, <2>3, <2>4, BecomeType DEF RestartLaunch, TypeOK
<1>9. ASSUME Reconcile
      PROVE  TypeOK'
  <2>1. CASE ReconcileList
    BY <2>1 DEF ReconcileList, TypeOK, agentVars
  <2>2. ASSUME NEW n \in Node, ReconcileNode(n)
        PROVE  TypeOK'
    <3>1. [pc |-> "apply", node |-> n, by |-> "restart"] \in Op
      BY DEF Op
    <3>2. op' \in [Actor -> Op]
      BY <2>2, <3>1, OpType, IdleType DEF ReconcileNode
    <3>3. QED
      BY <2>2, <3>2 DEF ReconcileNode, TypeOK, agentVars
  <2>3. CASE ReconcileReport
    <3>1. op[Ticker].node \in Node
      BY <2>3 DEF ReconcileReport, At, TypeOK, Op
    <3>2. QED
      BY <2>3, <3>1, OpType, IdleType DEF ReconcileReport, TypeOK
  <2>4. QED
    BY <1>9, <2>1, <2>2, <2>3 DEF Reconcile
<1>10. ASSUME NEW p \in Pid, Exit(p)
       PROVE  TypeOK'
  <2>1. [procs[p] EXCEPT !.os = "dead"] \in Proc
    BY <1>10 DEF Exit, TypeOK, Proc
  <2>2. QED
    BY <1>10, <2>1 DEF Exit, TypeOK
<1>11. ASSUME NEW p \in Pid, KillTimer(p)
       PROVE  TypeOK'
  <2>1. [procs[p] EXCEPT !.os = "killed"] \in Proc
    BY <1>11 DEF KillTimer, TypeOK, Proc
  <2>2. QED
    BY <1>11, <2>1 DEF KillTimer, TypeOK
<1>12. ASSUME NEW p \in Pid, Wait(p)
       PROVE  TypeOK'
  <2>1. procs[p].node \in Node
    BY <1>12 DEF Wait, TypeOK, Proc
  <2>2. \A stable \in BOOLEAN : Settled(p, stable) \in Proc
    BY <1>12, SettledType DEF Wait
  <2>3. procs' \in [Pid -> Proc]
    BY <1>12, <2>2, NoProcType DEF Wait, TypeOK
  <2>4. runtime' \in [Node -> {"running", "stopped", "failed"}]
    BY <1>12, <2>1 DEF Wait, TypeOK
  <2>5. QED
    BY <1>12, <2>3, <2>4 DEF Wait, TypeOK
<1>13. ASSUME NEW p \in Pid, BackoffFire(p)
       PROVE  TypeOK'
  <2> DEFINE n == procs[p].node
             m == [Manager EXCEPT !.procs[p].backoff = FALSE, !.managed[n] = NoPid]
             awake == [Manager EXCEPT !.procs[p].backoff = FALSE]
  <2>1. n \in Node /\ procs[p].restarts \in 0..MaxRestarts /\ managed[n] \in Pid \cup {NoPid}
    BY <1>13 DEF BackoffFire, TypeOK, Proc
  <2>2. [procs[p] EXCEPT !.backoff = FALSE] \in Proc
    BY AwakeType
  <2>3. m \in ManagerState /\ awake \in ManagerState
    BY <2>1, <2>2, ManagerType DEF ManagerState, Manager, TypeOK
  <2> HIDE DEF m, n, awake
  <2>4. Forget(Forget(m, p), managed[n]) \in ManagerState
    BY <2>1, <2>3, ForgetType
  <2>5. StartLocked(Forget(Forget(m, p), managed[n]), n, procs[p].restarts) \in ManagerState
    BY <2>1, <2>4, StartLockedType
  <2>6. QED
    BY <1>13, <2>3, <2>5, BecomeType DEF BackoffFire, TypeOK, m, n, awake
<1>14. ASSUME NEW n \in Node, Break(n) \/ Repair(n)
       PROVE  TypeOK'
  BY <1>14 DEF Break, Repair, TypeOK, agentVars
<1>15. CASE ShutdownBegin
  BY <1>15, SupervisorAssumption DEF ShutdownBegin, TypeOK, agentVars
<1>16. ASSUME Down
       PROVE  /\ procs' \in [Pid -> Proc] /\ managed' \in [Node -> Pid \cup {NoPid}]
              /\ op' \in [Actor -> Op] /\ mode' = "down" /\ queue' = {} /\ signalled' = {}
              /\ UNCHANGED <<desired, runtime, broken>>
  BY <1>16, NoProcType, IdleType DEF Down
<1>17. CASE Shutdown
  <2>1. CASE ShutdownExit
    BY <2>1, <1>16 DEF ShutdownExit, TypeOK
  <2>2. ASSUME NEW n \in Node, ShutdownStop(n)
        PROVE  TypeOK'
    BY <2>2, StopType DEF ShutdownStop, TypeOK
  <2>3. QED
    BY <1>17, <2>1, <2>2 DEF Shutdown
<1>18. CASE Crash
  BY <1>18, <1>16, SupervisorAssumption DEF Crash, TypeOK
<1>19. CASE Boot
  BY <1>19 DEF Boot, TypeOK, agentVars
<1>20. CASE UNCHANGED vars
  BY <1>20 DEF vars, TypeOK
<1>21. QED
  BY <1>1, <1>2, <1>3, <1>4, <1>5, <1>6, <1>7, <1>8, <1>9, <1>10, <1>11, <1>12, <1>13,
     <1>14, <1>15, <1>17, <1>18, <1>19, <1>20, <1>22, <1>23
     DEF Next, Request, Call

\* Every variable keeps its type: what the code stores in the map, in the state
\* column and in the processes is what its readers expect.
THEOREM TypeCorrect == Spec => []TypeOK
<1>1. Init => TypeOK
  BY NoProcType, IdleType, SupervisorAssumption DEF Init, TypeOK
<1>2. TypeOK /\ [Next]_vars => TypeOK'
  BY TypeStep
<1>3. QED
  BY <1>1, <1>2, PTL DEF Spec

-----------------------------------------------------------------------------
(* Any nodes and any requests.  A live process may have lost its entry in   *)
(* the map, but an entry is always a process of its node.                   *)

Entries(m) ==
    \A n \in Node : m.managed[n] # NoPid =>
        m.procs[m.managed[n]].os # "none" /\ m.procs[m.managed[n]].node = n

\* What a start of node n leaves alone, from manager state m to r.
Keeps(m, r, n) ==
    \A k \in Node \ {n} :
        /\ r.managed[k] = m.managed[k]
        /\ m.managed[k] # NoPid => r.procs[m.managed[k]] = m.procs[m.managed[k]]

\* The processes that run in r and not in m are n's.
Fresh(m, r, n) ==
    \A q \in Pid : r.procs[q].os = "live" => r.procs[q] = m.procs[q] \/ r.procs[q].node = n

LEMMA SpawnEntries ==
    ASSUME NEW m \in ManagerState, Entries(m), NEW n \in Node, NEW r \in 0..MaxRestarts,
           Free(Forget(m, m.managed[n])) # {}
    PROVE  LET s == Spawn(m, n, r)
           IN  Entries(s) /\ Keeps(m, s, n) /\ Fresh(m, s, n) /\ s.ok = m.ok /\ Attached(s, n)
<1> DEFINE f == Forget(m, m.managed[n])
           p == CHOOSE q \in Free(f) : TRUE
           new == [node |-> n, os |-> "live", state |-> "running", restarts |-> r, backoff |-> FALSE]
           s == [f EXCEPT !.procs[p] = new, !.managed[n] = p, !.runtime[n] = "running"]
<1>1. Spawn(m, n, r) = s
  BY DEF Spawn
<1>2. p \in Pid /\ f.procs[p].os = "none"
  BY DEF Free
<1>3. f \in ManagerState /\ m.managed[n] \in Pid \cup {NoPid}
  BY ForgetType DEF ManagerState
<1>4. /\ f.managed = m.managed /\ f.ok = m.ok
      /\ \A q \in Pid : q # m.managed[n] => f.procs[q] = m.procs[q]
      /\ \A q \in Pid : f.procs[q] \in {m.procs[q], NoProc}
  BY <1>3 DEF Forget, ManagerState
<1> HIDE DEF f, p
<1>5. /\ s.procs = [f.procs EXCEPT ![p] = new]
      /\ s.managed = [f.managed EXCEPT ![n] = p]
      /\ s.ok = f.ok
  BY <1>3 DEF ManagerState
<1>6. /\ s.procs[p] = new /\ \A q \in Pid \ {p} : s.procs[q] = f.procs[q]
      /\ s.managed[n] = p /\ \A k \in Node \ {n} : s.managed[k] = m.managed[k]
  BY <1>2, <1>3, <1>4, <1>5 DEF ManagerState
<1>7. \A k \in Node \ {n} : m.managed[k] # NoPid =>
          /\ m.managed[k] \in Pid /\ m.managed[k] # m.managed[n]
          /\ m.procs[m.managed[k]].os # "none" /\ m.procs[m.managed[k]].node = k
  BY DEF Entries, ManagerState
<1>8. \A k \in Node \ {n} : m.managed[k] # NoPid =>
          m.managed[k] # p /\ f.procs[m.managed[k]] = m.procs[m.managed[k]]
  BY <1>2, <1>4, <1>7
<1> HIDE DEF s
<1>9. Keeps(m, s, n)
  BY <1>6, <1>7, <1>8 DEF Keeps
<1>10. Entries(s)
  BY <1>6, <1>7, <1>8 DEF Entries
<1>11. Attached(s, n)
  BY <1>2, <1>6, SupervisorAssumption DEF Attached
<1>12. Fresh(m, s, n)
  BY <1>4, <1>6 DEF Fresh, NoProc
<1>13. QED
  BY <1>1, <1>4, <1>5, <1>9, <1>10, <1>11, <1>12

\* One level of a start leaves the other nodes alone and starts processes of its node
\* only; if it says that it succeeded, the node has a process.
LEMMA StartOneEntries ==
    ASSUME NEW m \in ManagerState, Entries(m), m.ok, NEW n \in Node, NEW r \in 0..MaxRestarts
    PROVE  LET s == StartOne(m, n, r)
           IN  Entries(s) /\ Keeps(m, s, n) /\ Fresh(m, s, n) /\ (s.ok => Attached(s, n))
<1> DEFINE Good(s) == Entries(s) /\ Keeps(m, s, n) /\ Fresh(m, s, n) /\ (s.ok => Attached(s, n))
<1>1. Good([m EXCEPT !.ok = FALSE]) /\ Good([m EXCEPT !.runtime[n] = "failed", !.ok = FALSE])
  BY DEF ManagerState, Entries, Keeps, Fresh
<1>2. Attached(m, n) => Good(m)
  BY DEF Keeps, Fresh
<1>3. Free(Forget(m, m.managed[n])) # {} => Good(Spawn(m, n, r))
  BY SpawnEntries
<1> HIDE DEF Good
<1>4. Good(StartOne(m, n, r))
  BY <1>1, <1>2, <1>3 DEF StartOne
<1>5. QED
  BY <1>4 DEF Good

\* From m to s no process of a ShadowTLS node is started whose backend has none.
Behind(m, s) ==
    \A p \in Pid :
        Started(m, s, p) /\ BackendOf[s.procs[p].node] # NoNode => Attached(s, BackendOf[s.procs[p].node])

LEMMA StartLockedEntries ==
    ASSUME NEW m \in ManagerState, Entries(m), m.ok, NEW n \in Node, NEW r \in 0..MaxRestarts
    PROVE  LET s == StartLocked(m, n, r)
           IN  Entries(s) /\ Behind(m, s)
<1> DEFINE Good(s) == Entries(s) /\ Behind(m, s)
<1>1. Good([m EXCEPT !.ok = FALSE])
  BY DEF ManagerState, Entries, Behind, Started
<1>2. CASE Attached(m, n)
  <2>1. Good(m)
    BY DEF Behind, Started
  <2>2. QED
    BY <1>1, <1>2, <2>1 DEF StartLocked, StartOne
<1>3. CASE ~Attached(m, n) /\ BackendOf[n] = NoNode
  <2>1. Good(StartOne(m, n, r))
    BY <1>3, StartOneEntries DEF Behind, Started, Fresh
  <2>2. QED
    BY <1>1, <1>3, <2>1 DEF StartLocked
<1>4. CASE ~Attached(m, n) /\ BackendOf[n] # NoNode
  <2> DEFINE b == StartOne(m, BackendOf[n], 0)
             s == StartOne(b, n, r)
  <2>1. BackendOf[n] \in Node /\ BackendOf[BackendOf[n]] = NoNode /\ 0 \in 0..MaxRestarts /\ BackendOf[n] # n
    BY <1>4, SupervisorAssumption
  <2>2. /\ b \in ManagerState /\ Entries(b) /\ Keeps(m, b, BackendOf[n]) /\ Fresh(m, b, BackendOf[n])
        /\ b.ok => Attached(b, BackendOf[n])
    BY <2>1, StartOneEntries, StartOneType
  <2> HIDE DEF b
  <2>3. Good(b)
    BY <2>1, <2>2 DEF Behind, Started, Fresh
  <2>4. ASSUME b.ok
        PROVE  Good(s)
    <3>1. Entries(s) /\ Keeps(b, s, n) /\ Fresh(b, s, n)
      BY <2>2, <2>4, StartOneEntries
    <3> HIDE DEF s
    <3>2. Attached(s, BackendOf[n])
      BY <2>1, <2>2, <2>4, <3>1 DEF Keeps, Attached
    <3>3. \A q \in Pid : Started(m, s, q) => s.procs[q].node \in {n, BackendOf[n]}
      BY <2>2, <3>1 DEF Started, Fresh
    <3>4. QED
      BY <2>1, <3>1, <3>2, <3>3 DEF Behind
  <2>5. QED
    BY <1>1, <1>4, <2>3, <2>4 DEF StartLocked, b
<1>5. QED
  BY <1>2, <1>3, <1>4

LEMMA ForgetEntries ==
    ASSUME NEW m \in ManagerState, Entries(m), NEW q \in Pid \cup {NoPid},
           \A k \in Node : m.managed[k] # NoPid => m.managed[k] # q
    PROVE  /\ Forget(m, q) \in ManagerState /\ Entries(Forget(m, q))
           /\ Forget(m, q).managed = m.managed /\ Forget(m, q).ok = m.ok
           /\ \A p \in Pid : Forget(m, q).procs[p].os = "live" => m.procs[p].os = "live"
<1>1. Forget(m, q) \in ManagerState
  BY ForgetType
<1>2. /\ Forget(m, q).managed = m.managed /\ Forget(m, q).ok = m.ok
      /\ \A p \in Pid : p # q => Forget(m, q).procs[p] = m.procs[p]
      /\ \A p \in Pid : Forget(m, q).procs[p] \in {m.procs[p], NoProc}
  BY DEF Forget, ManagerState
<1>3. QED
  BY <1>1, <1>2 DEF Entries, ManagerState, NoProc

\* A step that keeps the map, and of each process its node and that it is there.
LEMMA QuietEntries ==
    ASSUME TypeOK, Entries(Manager), managed' = managed,
           \A n \in Node : managed[n] # NoPid =>
               /\ procs'[managed[n]].node = procs[managed[n]].node
               /\ procs'[managed[n]].os # "none"
    PROVE  Entries(Manager)'
  BY DEF Entries, Manager

\* What BackendFirst says of one step.
Served ==
    \A p \in Pid :
        Started(Manager, Manager', p) /\ BackendOf[procs'[p].node] # NoNode
            => Attached(Manager', BackendOf[procs'[p].node])

\* A step that starts no process.
LEMMA NoneStarted ==
    ASSUME \A p \in Pid : procs'[p].os = "live" => procs[p].os = "live"
    PROVE  Served
  BY DEF Served, Started, Manager

LEMMA StopEntries ==
    ASSUME TypeOK, Entries(Manager), NEW n \in Node, Stop(n)
    PROVE  Entries(Manager)' /\ Served
<1>1. managed' = managed
  BY DEF Stop
<1>2. \A k \in Node : managed[k] # NoPid =>
          /\ managed[k] \in Pid
          /\ procs[managed[k]].os # "none"
  BY DEF TypeOK, Entries, Manager
<1>3. \A p \in Pid : procs'[p].node = procs[p].node /\ procs'[p].os = procs[p].os
  <2>1. CASE Attached(Manager, n)
    <3>1. procs' = [procs EXCEPT ![managed[n]] = [@ EXCEPT !.state = "stopping"]]
      BY <2>1 DEF Stop
    <3>2. QED
      BY <3>1 DEF TypeOK, Proc
  <2>2. CASE ~Attached(Manager, n)
    BY <2>2 DEF Stop
  <2>3. QED
    BY <2>1, <2>2
<1>4. QED
  BY <1>1, <1>2, <1>3, QuietEntries, NoneStarted

LEMMA BecomeEntries ==
    ASSUME TypeOK, NEW m \in ManagerState, Entries(m), m.ok, NEW n \in Node, NEW r \in 0..MaxRestarts,
           Become(StartLocked(m, n, r)),
           \A q \in Pid : m.procs[q].os = "live" => procs[q].os = "live"
    PROVE  Entries(Manager)' /\ Served
<1> DEFINE s == StartLocked(m, n, r)
<1>1. Entries(s) /\ Behind(m, s)
  BY StartLockedEntries
<1> HIDE DEF s
<1>2. procs' = s.procs /\ managed' = s.managed
  BY DEF Become, s
<1>3. Entries(Manager)'
  BY <1>1, <1>2 DEF Entries, Manager
<1>4. Served
  BY <1>1, <1>2 DEF Behind, Served, Started, Attached, Manager
<1>5. QED
  BY <1>3, <1>4

LEMMA DeletedEntries ==
    ASSUME TypeOK, Entries(Manager), NEW p \in Pid, procs[p].backoff
    PROVE  LET n == procs[p].node
               m == [Manager EXCEPT !.procs[p].backoff = FALSE, !.managed[n] = NoPid]
               d == Forget(Forget(m, p), managed[n])
           IN  /\ d \in ManagerState /\ Entries(d) /\ d.ok
               /\ n \in Node /\ procs[p].restarts \in 0..MaxRestarts
               /\ \A q \in Pid : d.procs[q].os = "live" => procs[q].os = "live"
<1> DEFINE n == procs[p].node
           m == [Manager EXCEPT !.procs[p].backoff = FALSE, !.managed[n] = NoPid]
           d == Forget(Forget(m, p), managed[n])
<1>1. n \in Node /\ procs[p].restarts \in 0..MaxRestarts /\ managed[n] \in Pid \cup {NoPid} /\ p # NoPid
  BY SupervisorAssumption DEF TypeOK, Proc
<1>2. [procs[p] EXCEPT !.backoff = FALSE] \in Proc
  BY AwakeType
<1>3. m \in ManagerState
  BY <1>1, <1>2, ManagerType DEF ManagerState, Manager, TypeOK
<1>4. m.ok /\ \A k \in Node : m.managed[k] = IF k = n THEN NoPid ELSE managed[k]
  BY DEF Manager, TypeOK
<1>5. \A q \in Pid : m.procs[q].os = procs[q].os /\ m.procs[q].node = procs[q].node
  BY DEF Manager, TypeOK, Proc
<1>6. procs[p].node = n
  OBVIOUS
<1> HIDE DEF n, m
<1>7. \A k \in Node : m.managed[k] # NoPid =>
          /\ m.managed[k] = managed[k] /\ m.managed[k] \in Pid /\ k # n
          /\ procs[managed[k]].os # "none" /\ procs[managed[k]].node = k
  BY <1>4 DEF Entries, Manager, TypeOK
<1>8. Entries(m)
  BY <1>5, <1>7 DEF Entries
<1>9. \A k \in Node : m.managed[k] # NoPid => m.managed[k] # p /\ m.managed[k] # managed[n]
  BY <1>1, <1>6, <1>7 DEF Entries, Manager
<1>10. /\ Forget(m, p) \in ManagerState /\ Entries(Forget(m, p))
       /\ Forget(m, p).managed = m.managed /\ Forget(m, p).ok = m.ok
       /\ \A q \in Pid : Forget(m, p).procs[q].os = "live" => m.procs[q].os = "live"
  BY <1>3, <1>8, <1>9, ForgetEntries
<1> DEFINE f == Forget(m, p)
<1> HIDE DEF f
<1>11. /\ Forget(f, managed[n]) \in ManagerState /\ Entries(Forget(f, managed[n]))
       /\ Forget(f, managed[n]).managed = m.managed /\ Forget(f, managed[n]).ok = m.ok
       /\ \A q \in Pid : Forget(f, managed[n]).procs[q].os = "live" => f.procs[q].os = "live"
  BY <1>1, <1>9, <1>10, ForgetEntries DEF f
<1>12. QED
  BY <1>1, <1>4, <1>5, <1>10, <1>11 DEF f, n, m

\* Whatever happens, an entry of the map is a process of its node, and no process
\* of a ShadowTLS node is started without its backend having one.
LEMMA EntriesStep ==
    ASSUME TypeOK, Entries(Manager), [Next]_vars
    PROVE  Entries(Manager)' /\ Served
<1> Caller \subseteq Actor /\ Ticker \in Actor
  BY DEF Actor
<1>2. ASSUME UNCHANGED <<procs, managed>>
      PROVE  Entries(Manager)' /\ Served
  BY <1>2, NoneStarted DEF Entries, Manager
<1>3. ASSUME NEW c \in Actor, RpcStart(c) \/ RestartLaunch(c)
      PROVE  Entries(Manager)' /\ Served
  <2>1. op[c].node \in Node /\ 0 \in 0..MaxRestarts
    BY <1>3, SupervisorAssumption DEF RpcStart, RestartLaunch, At, TypeOK, Op
  <2>2. Become(StartLocked(Manager, op[c].node, 0))
    BY <1>3 DEF RpcStart, RestartLaunch
  <2>3. Manager \in ManagerState /\ Manager.ok /\ Manager.procs = procs
    BY ManagerType DEF Manager
  <2>4. QED
    BY <2>1, <2>2, <2>3, BecomeEntries
<1>4. ASSUME NEW n \in Node, Stop(n)
      PROVE  Entries(Manager)' /\ Served
  BY <1>4, StopEntries
<1>5. ASSUME NEW c \in Actor, Call(c)
      PROVE  Entries(Manager)' /\ Served
  <2>1. CASE RpcStart(c) \/ RestartLaunch(c)
    BY <1>3, <2>1
  <2>2. CASE RpcStop(c) \/ RestartStop(c)
    BY <1>4, <2>2 DEF RpcStop, RestartStop, At, TypeOK, Op
  <2>3. CASE Apply(c) \/ ApplyFails(c) \/ ApplyRecord(c) \/ RestartPoll(c)
    BY <1>2, <2>3 DEF Apply, ApplyFails, ApplyRecord, RestartPoll, agentVars
  <2>4. QED
    BY <1>5, <2>1, <2>2, <2>3 DEF Call
<1>6. ASSUME NEW p \in Pid, Exit(p) \/ KillTimer(p)
      PROVE  Entries(Manager)' /\ Served
  <2>1. \A q \in Pid : /\ procs'[q].node = procs[q].node /\ (procs[q].os # "none" => procs'[q].os # "none")
                       /\ procs'[q].os = "live" => procs[q].os = "live"
    BY <1>6 DEF Exit, KillTimer, TypeOK, Proc
  <2>2. managed' = managed /\ \A n \in Node : managed[n] \in Pid \cup {NoPid}
    BY <1>6 DEF Exit, KillTimer, TypeOK
  <2>3. QED
    BY <2>1, <2>2, QuietEntries, NoneStarted DEF Entries, Manager
<1>7. ASSUME NEW p \in Pid, Wait(p)
      PROVE  Entries(Manager)' /\ Served
  <2>1. managed' = managed /\ procs[p].os = "dead"
    BY <1>7 DEF Wait
  <2>2. \A q \in Pid \ {p} : procs'[q] = procs[q]
    BY <1>7 DEF Wait, TypeOK
  <2>3. ASSUME managed[procs[p].node] = p
        PROVE  procs'[p].node = procs[p].node /\ procs'[p].os = "exited"
    <3>1. PICK stable \in BOOLEAN : procs' = [procs EXCEPT ![p] = Settled(p, stable)]
      BY <1>7, <2>3 DEF Wait
    <3>2. Settled(p, stable).os = "exited" /\ Settled(p, stable).node = procs[p].node
      BY <2>1 DEF Settled, TypeOK, Proc
    <3>3. QED
      BY <3>1, <3>2 DEF TypeOK
  <2>4. \A n \in Node : managed[n] # NoPid =>
            /\ procs'[managed[n]].node = procs[managed[n]].node
            /\ procs'[managed[n]].os # "none"
    BY <2>2, <2>3 DEF Entries, Manager, TypeOK
  <2>5. procs'[p].os # "live"
    BY <1>7, <2>1, <2>3 DEF Wait, TypeOK, NoProc
  <2>6. QED
    BY <2>1, <2>2, <2>4, <2>5, QuietEntries, NoneStarted
<1>8. ASSUME NEW p \in Pid, BackoffFire(p)
      PROVE  Entries(Manager)' /\ Served
  <2> DEFINE n == procs[p].node
             m == [Manager EXCEPT !.procs[p].backoff = FALSE, !.managed[n] = NoPid]
             d == Forget(Forget(m, p), managed[n])
  <2>1. CASE mode = "up"
    <3>1. Become(StartLocked(d, n, procs[p].restarts)) /\ procs[p].backoff
      BY <1>8, <2>1 DEF BackoffFire
    <3>2. /\ d \in ManagerState /\ Entries(d) /\ d.ok
          /\ n \in Node /\ procs[p].restarts \in 0..MaxRestarts
          /\ \A q \in Pid : d.procs[q].os = "live" => procs[q].os = "live"
      BY <3>1, DeletedEntries
    <3> HIDE DEF d, n
    <3>3. QED
      BY <3>1, <3>2, BecomeEntries
  <2>2. CASE mode # "up"
    <3>1. /\ procs' = [procs EXCEPT ![p] = [@ EXCEPT !.backoff = FALSE]]
          /\ managed' = managed
      BY <1>8, <2>2 DEF BackoffFire, Become, Manager
    <3>2. \A q \in Pid : procs'[q].node = procs[q].node /\ procs'[q].os = procs[q].os
      BY <3>1 DEF TypeOK, Proc
    <3>3. \A k \in Node : managed[k] \in Pid \cup {NoPid}
      BY DEF TypeOK
    <3>4. QED
      BY <3>1, <3>2, <3>3, QuietEntries, NoneStarted DEF Entries, Manager
  <2>3. QED
    BY <2>1, <2>2
<1>9. ASSUME Down
      PROVE  Entries(Manager)' /\ Served
  BY <1>9, NoneStarted DEF Down, Entries, Manager, NoProc
<1>10. CASE Shutdown
  BY <1>4, <1>9, <1>10 DEF Shutdown, ShutdownExit, ShutdownStop
<1>11. CASE Request \/ (\E c \in Caller : RpcLost(c)) \/ Reconcile
  <2>1. UNCHANGED <<procs, managed>>
    BY <1>11 DEF Request, ReqStart, ReqStop, ReqRestart, ReqApply, RpcLost, Reconcile, ReconcileList,
                 ReconcileNode, ReconcileReport, agentVars
  <2>2. QED
    BY <1>2, <2>1
<1>12. CASE (\E n \in Node : Break(n) \/ Repair(n)) \/ ShutdownBegin \/ Boot \/ UNCHANGED vars
  <2>1. UNCHANGED <<procs, managed>>
    BY <1>12 DEF Break, Repair, ShutdownBegin, Boot, vars, agentVars
  <2>2. QED
    BY <1>2, <2>1
<1>13. CASE Crash
  BY <1>9, <1>13 DEF Crash
<1>14. QED
  BY <1>5, <1>6, <1>7, <1>8, <1>10, <1>11, <1>12, <1>13 DEF Next

LEMMA EntriesInit == Init => TypeOK /\ Entries(Manager)
  BY NoProcType, IdleType, SupervisorAssumption DEF Init, TypeOK, Entries, Manager

\* Whatever starts a ShadowTLS process, a request, a back-off or Reconcile, and whether
\* it is the node's first or one after an exit, the backend has a process when it has.
THEOREM BackendComesFirst == Spec => BackendFirst
<1>1. TypeOK /\ Entries(Manager) /\ [Next]_vars => TypeOK' /\ Entries(Manager)'
  BY TypeStep, EntriesStep
<1>2. TypeOK /\ Entries(Manager) /\ [Next]_vars
        => [\A p \in Pid :
              Started(Manager, Manager', p) /\ BackendOf[procs'[p].node] # NoNode
                 => Attached(Manager', BackendOf[procs'[p].node])]_vars
  BY EntriesStep DEF Served
<1>3. QED
  BY <1>1, <1>2, EntriesInit, PTL DEF Spec, BackendFirst

-----------------------------------------------------------------------------
(* Shutdown, again for any nodes and any requests.                          *)

\* Shutdown stops no backend before it has stopped every ShadowTLS node.
FrontsSignalled ==
    mode = "closing" =>
        \A b \in signalled : BackendOf[b] = NoNode =>
            \A n \in Node : BackendOf[n] # NoNode => n \in signalled

ShutdownInv ==
    /\ TypeOK
    /\ Entries(Manager)
    /\ ShutdownStopsAll
    /\ FrontsSignalled

\* A step that leaves Shutdown where it is, keeps the map and revives no entry.
LEMMA QuietShutdown ==
    ASSUME TypeOK, ShutdownStopsAll, FrontsSignalled, mode' = mode, signalled' = signalled,
           mode = "closing" => managed' = managed,
           mode = "closing" => \A n \in Node : managed[n] # NoPid =>
               /\ procs[managed[n]].os = "exited" => procs'[managed[n]].os = "exited"
               /\ procs[managed[n]].state = "stopping" =>
                      procs'[managed[n]].state = "stopping" \/ procs'[managed[n]].os = "exited"
    PROVE  ShutdownStopsAll' /\ FrontsSignalled'
<1>1. \A n \in signalled : n \in Node
  BY DEF TypeOK
<1>2. ShutdownStopsAll'
  BY <1>1 DEF ShutdownStopsAll, Stopped, Attached, Manager
<1>3. FrontsSignalled'
  BY DEF FrontsSignalled
<1>4. QED
  BY <1>2, <1>3

\* Stop of a node ends what Shutdown is after.
LEMMA StopStops ==
    ASSUME TypeOK, NEW n \in Node, Stop(n)
    PROVE  /\ managed' = managed
           /\ \A p \in Pid : /\ procs'[p].os = procs[p].os
                             /\ procs'[p].state = procs[p].state \/ procs'[p].state = "stopping"
           /\ Stopped(n)'
<1>1. CASE Attached(Manager, n)
  <2>1. managed[n] \in Pid
    BY <1>1 DEF Attached, Manager, TypeOK
  <2>2. procs' = [procs EXCEPT ![managed[n]] = [@ EXCEPT !.state = "stopping"]] /\ managed' = managed
    BY <1>1 DEF Stop
  <2>3. \A p \in Pid : /\ procs'[p].os = procs[p].os
                       /\ procs'[p].state = IF p = managed[n] THEN "stopping" ELSE procs[p].state
    BY <2>1, <2>2 DEF TypeOK, Proc
  <2>4. QED
    BY <2>1, <2>2, <2>3 DEF Stopped
<1>2. CASE ~Attached(Manager, n)
  BY <1>2 DEF Stop, Stopped, Attached, Manager
<1>3. QED
  BY <1>1, <1>2

LEMMA ShutdownInvStep ==
    ASSUME ShutdownInv, [Next]_vars
    PROVE  ShutdownInv'
<1> Caller \subseteq Actor /\ Ticker \in Actor
  BY DEF Actor
<1> TypeOK /\ Entries(Manager) /\ ShutdownStopsAll /\ FrontsSignalled
  BY DEF ShutdownInv
<1> SUFFICES ShutdownStopsAll' /\ FrontsSignalled'
  BY TypeStep, EntriesStep DEF ShutdownInv
<1>1. ASSUME UNCHANGED <<procs, managed, mode, signalled>>
      PROVE  ShutdownStopsAll' /\ FrontsSignalled'
  BY <1>1, QuietShutdown
<1>2. ASSUME mode' # "closing" \/ signalled' = {}
      PROVE  ShutdownStopsAll' /\ FrontsSignalled'
  BY <1>2 DEF ShutdownStopsAll, FrontsSignalled
<1>3. ASSUME NEW n \in Node, Stop(n)
      PROVE  mode' = mode /\ signalled' = signalled => ShutdownStopsAll' /\ FrontsSignalled'
  <2>1. \A k \in Node : managed[k] # NoPid => managed[k] \in Pid
    BY DEF TypeOK
  <2>2. QED
    BY <1>3, <2>1, StopStops, QuietShutdown
<1>4. ASSUME NEW m \in ManagerState, NEW n, NEW r, Become(StartLocked(m, n, r)), mode # "up"
      PROVE  procs' = m.procs /\ managed' = m.managed
  BY <1>4 DEF StartLocked, Become, ManagerState
<1>5. ASSUME NEW c \in Actor, Call(c)
      PROVE  ShutdownStopsAll' /\ FrontsSignalled'
  <2>1. CASE RpcStart(c) \/ RestartLaunch(c)
    <3>1. mode' = mode /\ signalled' = signalled /\ Become(StartLocked(Manager, op[c].node, 0))
      BY <2>1 DEF RpcStart, RestartLaunch
    <3>2. mode = "closing" => procs' = procs /\ managed' = managed
      BY <3>1, <1>4, ManagerType DEF Manager
    <3>3. QED
      BY <3>1, <3>2, QuietShutdown
  <2>2. CASE RpcStop(c) \/ RestartStop(c)
    BY <1>3, <2>2 DEF RpcStop, RestartStop, At, TypeOK, Op
  <2>3. CASE Apply(c) \/ ApplyFails(c) \/ ApplyRecord(c) \/ RestartPoll(c)
    BY <1>1, <2>3 DEF Apply, ApplyFails, ApplyRecord, RestartPoll, agentVars
  <2>4. QED
    BY <1>5, <2>1, <2>2, <2>3 DEF Call
<1>6. ASSUME NEW p \in Pid, Exit(p) \/ KillTimer(p)
      PROVE  ShutdownStopsAll' /\ FrontsSignalled'
  <2>1. \A q \in Pid : procs'[q].state = procs[q].state /\ (procs[q].os = "exited" => procs'[q].os = "exited")
    BY <1>6 DEF Exit, KillTimer, TypeOK, Proc
  <2>2. managed' = managed /\ mode' = mode /\ signalled' = signalled
    BY <1>6 DEF Exit, KillTimer
  <2>3. \A n \in Node : managed[n] # NoPid => managed[n] \in Pid
    BY DEF TypeOK
  <2>4. QED
    BY <2>1, <2>2, <2>3, QuietShutdown
<1>7. ASSUME NEW p \in Pid, Wait(p)
      PROVE  ShutdownStopsAll' /\ FrontsSignalled'
  <2>1. managed' = managed /\ mode' = mode /\ signalled' = signalled /\ procs[p].os = "dead"
    BY <1>7 DEF Wait
  <2>2. \A q \in Pid \ {p} : procs'[q] = procs[q]
    BY <1>7 DEF Wait, TypeOK
  <2>3. ASSUME managed[procs[p].node] = p
        PROVE  procs'[p].os = "exited"
    <3>1. PICK stable \in BOOLEAN : procs' = [procs EXCEPT ![p] = Settled(p, stable)]
      BY <1>7, <2>3 DEF Wait
    <3>2. Settled(p, stable).os = "exited"
      BY <2>1 DEF Settled, TypeOK, Proc
    <3>3. QED
      BY <3>1, <3>2 DEF TypeOK
  <2>4. \A n \in Node : managed[n] # NoPid =>
            procs'[managed[n]] = procs[managed[n]] \/ procs'[managed[n]].os = "exited"
    BY <2>2, <2>3 DEF Entries, Manager, TypeOK
  <2>5. QED
    BY <2>1, <2>4, QuietShutdown
<1>8. ASSUME NEW p \in Pid, BackoffFire(p)
      PROVE  ShutdownStopsAll' /\ FrontsSignalled'
  <2>1. mode' = mode /\ signalled' = signalled
    BY <1>8 DEF BackoffFire
  <2>2. ASSUME mode = "closing"
        PROVE  /\ procs' = [procs EXCEPT ![p] = [@ EXCEPT !.backoff = FALSE]]
               /\ managed' = managed
    BY <1>8, <2>2 DEF BackoffFire, Become, Manager
  <2>3. mode = "closing" => \A q \in Pid : procs'[q].state = procs[q].state /\ procs'[q].os = procs[q].os
    BY <2>2 DEF TypeOK, Proc
  <2>4. \A n \in Node : managed[n] # NoPid => managed[n] \in Pid
    BY DEF TypeOK
  <2>5. QED
    BY <2>1, <2>2, <2>3, <2>4, QuietShutdown
<1>9. ASSUME NEW n \in Node, ShutdownStop(n)
      PROVE  ShutdownStopsAll' /\ FrontsSignalled'
  <2>1. /\ managed' = managed
        /\ \A p \in Pid : /\ procs'[p].os = procs[p].os
                          /\ procs'[p].state = procs[p].state \/ procs'[p].state = "stopping"
        /\ Stopped(n)'
    BY <1>9, StopStops DEF ShutdownStop
  <2>2. \A k \in Node : managed[k] # NoPid => managed[k] \in Pid
    BY DEF TypeOK
  <2>3. \A k \in signalled : Stopped(k)'
    BY <1>9, <2>1, <2>2 DEF ShutdownStop, ShutdownStopsAll, Stopped, Attached, Manager, TypeOK
  <2>4. ShutdownStopsAll'
    BY <1>9, <2>1, <2>3 DEF ShutdownStop, ShutdownStopsAll
  <2>5. FrontsSignalled'
    BY <1>9 DEF ShutdownStop, FrontsSignalled
  <2>6. QED
    BY <2>4, <2>5
<1>10. CASE ShutdownExit \/ Crash \/ Boot \/ ShutdownBegin
  BY <1>2, <1>10 DEF ShutdownExit, Crash, Down, Boot, ShutdownBegin
<1>11. CASE Request \/ (\E c \in Caller : RpcLost(c)) \/ Reconcile
  <2>1. UNCHANGED <<procs, managed, mode, signalled>>
    BY <1>11 DEF Request, ReqStart, ReqStop, ReqRestart, ReqApply, RpcLost, Reconcile, ReconcileList,
                 ReconcileNode, ReconcileReport, agentVars
  <2>2. QED
    BY <1>1, <2>1
<1>12. CASE (\E n \in Node : Break(n) \/ Repair(n)) \/ UNCHANGED vars
  <2>1. UNCHANGED <<procs, managed, mode, signalled>>
    BY <1>12 DEF Break, Repair, vars, agentVars
  <2>2. QED
    BY <1>1, <2>1
<1>13. QED
  BY <1>5, <1>6, <1>7, <1>8, <1>9, <1>10, <1>11, <1>12 DEF Next, Shutdown

LEMMA ShutdownInvInit == Init => ShutdownInv
  BY EntriesInit DEF Init, ShutdownInv, ShutdownStopsAll, FrontsSignalled

\* Once Shutdown has stopped a node nothing, neither a request nor a back-off nor
\* a Reconcile in progress, leaves it with a process that was not asked to stop.
THEOREM ShutdownLeavesNone == Spec => []ShutdownStopsAll
<1>1. ShutdownInv /\ [Next]_vars => ShutdownInv'
  BY ShutdownInvStep
<1>2. ShutdownInv => ShutdownStopsAll
  BY DEF ShutdownInv
<1>3. QED
  BY <1>1, <1>2, ShutdownInvInit, PTL DEF Spec

\* When Shutdown stops a backend the ShadowTLS nodes in front of it have been
\* stopped and have stayed so.
THEOREM ShutdownKeepsOrder == Spec => []ShutdownFrontsFirst
<1>1. ShutdownInv /\ [Next]_vars => ShutdownInv'
  BY ShutdownInvStep
<1>2. ShutdownInv => ShutdownFrontsFirst
  <2> SUFFICES ASSUME ShutdownInv, mode = "closing",
                      NEW n \in Node, BackendOf[n] # NoNode, BackendOf[n] \in signalled
               PROVE  Stopped(n)
    BY DEF ShutdownFrontsFirst
  <2>1. n \in signalled
    BY SupervisorAssumption DEF ShutdownInv, FrontsSignalled
  <2>2. QED
    BY <2>1 DEF ShutdownInv, ShutdownStopsAll
<1>3. QED
  BY <1>1, <1>2, ShutdownInvInit, PTL DEF Spec

-----------------------------------------------------------------------------
(* Nodes that nobody starts or restarts by hand, and that are no other's    *)
(* backend: what is left acting on one of them is Stop, Reconcile, wait and *)
(* its own back-off.                                                        *)

Foremost == {n \in Node : \A k \in Node : BackendOf[k] # n}

Unattended == Requests \subseteq {"stop", "lost"}

PlainUnattended == Unattended /\ \A n \in Node : BackendOf[n] = NoNode

\* Every process of such a node that the agent refers to is the node's entry, and only
\* a process seen to exit has failed.
Matched(m) ==
    /\ \A p \in Pid : m.procs[p].os # "none" /\ m.procs[p].node \in Foremost => m.managed[m.procs[p].node] = p
    /\ \A p \in Pid : m.procs[p].state = "failed" => m.procs[p].os = "exited"

\* Reconcile applies a node that has no entry, and none appears meanwhile: the
\* back-off is the only other starter and works on a node with an entry.  Only
\* a failure it is about to record may have left the node started, by the fallback.
ReconcileAlone ==
    /\ op[Ticker].pc \notin {"start", "stop"}
    /\ op[Ticker].pc \notin {"idle", "record", "report"} /\ op[Ticker].node \in Foremost => managed[op[Ticker].node] = NoPid

CallersOnlyStop == \A c \in Caller : op[c].pc \in {"idle", "stop"}

UnattendedInv ==
    /\ TypeOK
    /\ Entries(Manager)
    /\ Matched(Manager)
    /\ ReconcileAlone
    /\ CallersOnlyStop

\* What a start of node n, with its backend, leaves alone.
Spares(m, s, n) ==
    \A k \in Foremost \ {n} :
        /\ s.managed[k] = m.managed[k]
        /\ m.managed[k] # NoPid => s.procs[m.managed[k]] = m.procs[m.managed[k]]

LEMMA SpawnMatched ==
    ASSUME NEW m \in ManagerState, Entries(m), Matched(m), NEW n \in Node, NEW r \in 0..MaxRestarts,
           n \in Foremost => m.managed[n] = NoPid, Free(Forget(m, m.managed[n])) # {}
    PROVE  Matched(Spawn(m, n, r))
<1> DEFINE f == Forget(m, m.managed[n])
           p == CHOOSE q \in Free(f) : TRUE
           new == [node |-> n, os |-> "live", state |-> "running", restarts |-> r, backoff |-> FALSE]
           s == [f EXCEPT !.procs[p] = new, !.managed[n] = p, !.runtime[n] = "running"]
<1>1. Spawn(m, n, r) = s
  BY DEF Spawn
<1>2. p \in Pid /\ f.procs[p].os = "none"
  BY DEF Free
<1>3. f \in ManagerState /\ m.managed[n] \in Pid \cup {NoPid}
  BY ForgetType DEF ManagerState
<1>4. f.managed = m.managed /\ \A q \in Pid : f.procs[q] \in {m.procs[q], NoProc}
  BY <1>3 DEF Forget, ManagerState
<1> HIDE DEF f, p
<1>5. /\ \A q \in Pid : s.procs[q] = IF q = p THEN new ELSE f.procs[q]
      /\ \A k \in Node : s.managed[k] = IF k = n THEN p ELSE m.managed[k]
  BY <1>2, <1>3, <1>4 DEF ManagerState
<1> HIDE DEF s
<1>6. \A q \in Pid : s.procs[q].os # "none" /\ s.procs[q].node \in Foremost => s.managed[s.procs[q].node] = q
  <2> SUFFICES ASSUME NEW q \in Pid, s.procs[q].os # "none", s.procs[q].node \in Foremost
               PROVE  s.managed[s.procs[q].node] = q
    OBVIOUS
  <2>1. CASE q = p
    BY <2>1, <1>5
  <2>2. CASE q # p
    <3>1. s.procs[q] = m.procs[q]
      BY <2>2, <1>4, <1>5 DEF NoProc
    <3>2. m.managed[m.procs[q].node] = q /\ m.procs[q].node \in Node /\ q # NoPid
      BY <3>1, SupervisorAssumption DEF Matched, Foremost
    <3>3. m.procs[q].node # n
      BY <3>1, <3>2
    <3>4. QED
      BY <3>1, <3>2, <3>3, <1>5
  <2>3. QED
    BY <2>1, <2>2
<1>7. \A q \in Pid : s.procs[q].state = "failed" => s.procs[q].os = "exited"
  BY <1>4, <1>5 DEF Matched, NoProc
<1>8. QED
  BY <1>1, <1>6, <1>7 DEF Matched

\* One level of a start.
LEMMA StartOneMatched ==
    ASSUME NEW m \in ManagerState, Entries(m), Matched(m), m.ok, NEW n \in Node, NEW r \in 0..MaxRestarts,
           n \in Foremost => m.managed[n] = NoPid
    PROVE  LET s == StartOne(m, n, r)
           IN  /\ s \in ManagerState /\ Entries(s) /\ Matched(s) /\ Keeps(m, s, n)
               /\ n \in Foremost /\ ~s.ok => s.managed[n] = NoPid
<1> DEFINE Good(s) == Matched(s) /\ (~s.ok => s.managed[n] = m.managed[n])
<1>1. Good([m EXCEPT !.ok = FALSE]) /\ Good([m EXCEPT !.runtime[n] = "failed", !.ok = FALSE]) /\ Good(m)
  BY DEF ManagerState, Matched
<1>2. Free(Forget(m, m.managed[n])) # {} => Good(Spawn(m, n, r))
  BY SpawnMatched, SpawnEntries
<1> HIDE DEF Good
<1>3. Good(StartOne(m, n, r))
  BY <1>1, <1>2 DEF StartOne
<1>4. QED
  BY <1>3, StartOneEntries, StartOneType DEF Good

\* A start of such a node without an entry keeps the matching and the other such nodes;
\* when it fails the node still has no entry.
LEMMA StartMatched ==
    ASSUME NEW m \in ManagerState, Entries(m), Matched(m), m.ok, NEW n \in Node, NEW r \in 0..MaxRestarts,
           n \in Foremost => m.managed[n] = NoPid
    PROVE  LET s == StartLocked(m, n, r)
           IN  /\ Matched(s) /\ Spares(m, s, n)
               /\ n \in Foremost /\ ~s.ok => s.managed[n] = NoPid
<1> DEFINE Good(s) == /\ Matched(s) /\ Spares(m, s, n)
                      /\ n \in Foremost /\ ~s.ok => s.managed[n] = NoPid
<1>1. Good([m EXCEPT !.ok = FALSE])
  BY DEF ManagerState, Matched, Spares
<1>2. Good(StartOne(m, n, r))
  BY StartOneMatched DEF Keeps, Spares, Foremost
<1>3. ASSUME BackendOf[n] # NoNode
      PROVE  LET b == StartOne(m, BackendOf[n], 0)
             IN  Good(IF b.ok THEN StartOne(b, n, r) ELSE b)
  <2> DEFINE b == StartOne(m, BackendOf[n], 0)
             s == StartOne(b, n, r)
  <2>1. BackendOf[n] \in Node \ Foremost /\ BackendOf[n] # n /\ 0 \in 0..MaxRestarts
    BY <1>3, SupervisorAssumption DEF Foremost
  <2>2. b \in ManagerState /\ Entries(b) /\ Matched(b) /\ Keeps(m, b, BackendOf[n])
    BY <2>1, StartOneMatched
  <2> HIDE DEF b
  <2>3. b.managed[n] = m.managed[n] /\ Spares(m, b, n)
    BY <2>1, <2>2 DEF Keeps, Spares, Foremost
  <2>4. Good(b)
    BY <2>2, <2>3
  <2>5. ASSUME b.ok
        PROVE  Good(s)
    <3>1. /\ Matched(s) /\ Keeps(b, s, n)
          /\ n \in Foremost /\ ~s.ok => s.managed[n] = NoPid
      BY <2>2, <2>3, <2>5, StartOneMatched
    <3> HIDE DEF s
    <3>2. Spares(m, s, n)
      BY <2>3, <3>1 DEF Keeps, Spares, Foremost
    <3>3. QED
      BY <3>1, <3>2
  <2> HIDE DEF Good, s
  <2>6. Good(IF b.ok THEN s ELSE b)
    BY <2>4, <2>5
  <2>7. QED
    BY <2>6 DEF b, s
<1> HIDE DEF Good
<1>4. Good(StartLocked(m, n, r))
  BY <1>1, <1>2, <1>3 DEF StartLocked
<1>5. QED
  BY <1>4 DEF Good

\* A step that keeps the map, and of each process its node and that it has failed, or
\* forgets one.
LEMMA QuietMatched ==
    ASSUME TypeOK, Matched(Manager), managed' = managed,
           \A q \in Pid : \/ /\ procs'[q].node = procs[q].node
                             /\ procs'[q].os # "none" => procs[q].os # "none"
                             /\ procs[q].state = "failed" => procs'[q].state = "failed"
                             /\ procs'[q].state = "failed" => procs'[q].os = "exited"
                          \/ procs'[q] = NoProc /\ procs[q].state # "failed"
    PROVE  /\ Matched(Manager)'
           /\ \A n \in Node : GaveUp(n) => GaveUp(n)'
<1>1. Matched(Manager)'
  BY DEF Matched, Manager, NoProc
<1>2. \A n \in Node : GaveUp(n) => GaveUp(n)'
  BY DEF GaveUp, TypeOK
<1>3. QED
  BY <1>1, <1>2

LEMMA StopMatched ==
    ASSUME TypeOK, Entries(Manager), Matched(Manager), NEW n \in Node, Stop(n)
    PROVE  /\ Matched(Manager)' /\ managed' = managed
           /\ \A k \in Node : GaveUp(k) => GaveUp(k)'
<1>1. CASE ~Attached(Manager, n)
  BY <1>1, QuietMatched DEF Stop, Matched, Manager
<1>2. CASE Attached(Manager, n)
  <2>1. managed[n] \in Pid /\ procs[managed[n]].os # "exited" /\ procs[managed[n]].state # "failed"
    BY <1>2 DEF Attached, Manager, TypeOK, Matched
  <2>2. procs' = [procs EXCEPT ![managed[n]] = [@ EXCEPT !.state = "stopping"]] /\ managed' = managed
    BY <1>2 DEF Stop
  <2>3. \A q \in Pid : /\ procs[q] \in Proc
                       /\ procs[q].state = "failed" => procs[q].os = "exited"
    BY DEF TypeOK, Matched, Manager
  <2>4. \A q \in Pid : /\ procs'[q].node = procs[q].node /\ procs'[q].os = procs[q].os
                       /\ procs'[q].state = procs[q].state \/ (q = managed[n] /\ procs'[q].state = "stopping")
    BY <2>1, <2>2, <2>3 DEF TypeOK, Proc
  <2>5. QED
    BY <2>1, <2>2, <2>3, <2>4, QuietMatched
<1>3. QED
  BY <1>1, <1>2

\* A start of a node.
LEMMA BecomeMatched ==
    ASSUME NEW m \in ManagerState, Entries(m), Matched(m), m.ok, NEW n \in Node,
           n \in Foremost => m.managed[n] = NoPid,
           NEW r \in 0..MaxRestarts, Become(StartLocked(m, n, r)),
           \A k \in Foremost \ {n} : /\ m.managed[k] = managed[k]
                                     /\ managed[k] # NoPid => m.procs[managed[k]] = procs[managed[k]]
    PROVE  /\ Matched(Manager)'
           /\ \A k \in Foremost \ {n} : managed'[k] = managed[k] /\ (GaveUp(k) => GaveUp(k)')
           /\ n \in Foremost /\ ~StartLocked(m, n, r).ok => managed'[n] = NoPid
<1> DEFINE s == StartLocked(m, n, r)
<1>1. Matched(s) /\ Spares(m, s, n) /\ (n \in Foremost /\ ~s.ok => s.managed[n] = NoPid)
  BY StartMatched
<1> HIDE DEF s
<1>2. procs' = s.procs /\ managed' = s.managed
  BY DEF Become, s
<1>3. Matched(Manager)'
  BY <1>1, <1>2 DEF Matched, Manager
<1>4. \A k \in Foremost \ {n} : managed'[k] = managed[k] /\ (GaveUp(k) => GaveUp(k)')
  BY <1>1, <1>2 DEF Spares, GaveUp
<1>5. QED
  BY <1>1, <1>2, <1>3, <1>4 DEF s

\* The manager once the back-off of p has deleted the entry of its node.
Deleted(p) ==
    LET m == [Manager EXCEPT !.procs[p].backoff = FALSE, !.managed[procs[p].node] = NoPid]
    IN  Forget(Forget(m, p), managed[procs[p].node])

\* The exited process of the back-off is forgotten with the entry, so that nothing of the
\* node is left.
LEMMA DeletedMatched ==
    ASSUME TypeOK, Entries(Manager), Matched(Manager), NEW p \in Pid, procs[p].backoff
    PROVE  LET n == procs[p].node
               d == Deleted(p)
           IN  /\ n \in Node /\ procs[p].restarts \in 0..MaxRestarts
               /\ d \in ManagerState /\ d.ok /\ d.runtime = runtime /\ d.managed[n] = NoPid
               /\ Entries(d) /\ Matched(d)
               /\ n \in Foremost => managed[n] = p
               /\ \A k \in Foremost \ {n} :
                    /\ d.managed[k] = managed[k]
                    /\ managed[k] # NoPid => d.procs[managed[k]] = procs[managed[k]]
<1> DEFINE n == procs[p].node
           m == [Manager EXCEPT !.procs[p].backoff = FALSE, !.managed[n] = NoPid]
           f == Forget(m, p)
           d == Forget(f, managed[n])
<1>1. /\ n \in Node /\ procs[p].restarts \in 0..MaxRestarts /\ managed[n] \in Pid \cup {NoPid}
      /\ procs[p].os = "exited" /\ p # NoPid
  BY SupervisorAssumption DEF TypeOK, Proc
<1>2. /\ d \in ManagerState /\ d.ok /\ Entries(d)
  BY DeletedEntries
<1>3. [procs[p] EXCEPT !.backoff = FALSE] \in Proc /\ procs \in [Pid -> Proc]
  BY AwakeType DEF TypeOK
<1>4. m \in ManagerState /\ m.runtime = runtime
  BY <1>1, <1>3, ManagerType DEF ManagerState, Manager, TypeOK
<1>5. /\ \A k \in Node : m.managed[k] = IF k = n THEN NoPid ELSE managed[k]
      /\ \A q \in Pid : m.procs[q] = IF q = p THEN [procs[q] EXCEPT !.backoff = FALSE] ELSE procs[q]
  BY DEF Manager, TypeOK
<1>6. /\ [procs[p] EXCEPT !.backoff = FALSE].os = "exited" /\ ~[procs[p] EXCEPT !.backoff = FALSE].backoff
      /\ [procs[p] EXCEPT !.backoff = FALSE].state = procs[p].state
      /\ [procs[p] EXCEPT !.backoff = FALSE].node = procs[p].node
  BY <1>1, <1>3 DEF Proc
<1>7. procs[p].node = n
  OBVIOUS
<1>8. n \in Foremost => managed[n] = p
  BY <1>1, <1>7 DEF Matched, Manager
<1> HIDE DEF m, n
<1>9. f = [m EXCEPT !.procs[p] = NoProc]
  BY <1>1, <1>5, <1>6 DEF Forget
<1>10. f \in ManagerState /\ f.managed = m.managed /\ f.runtime = m.runtime
       /\ \A q \in Pid : f.procs[q] = IF q = p THEN NoProc ELSE m.procs[q]
  BY <1>4, <1>9, NoProcType DEF ManagerState
<1> HIDE DEF f
<1>11. /\ d.managed = m.managed /\ d.runtime = m.runtime
       /\ \A q \in Pid : d.procs[q] \in {f.procs[q], NoProc} /\ (q # managed[n] => d.procs[q] = f.procs[q])
  BY <1>10 DEF Forget, ManagerState
<1> HIDE DEF d
<1>12. d.procs[p] = NoProc /\ \A q \in Pid \ {p} : d.procs[q] \in {procs[q], NoProc}
  BY <1>5, <1>10, <1>11
<1>13. \A q \in Pid : d.procs[q].os # "none" /\ d.procs[q].node \in Foremost => d.managed[d.procs[q].node] = q
  <2> SUFFICES ASSUME NEW q \in Pid, d.procs[q].os # "none", d.procs[q].node \in Foremost
               PROVE  d.managed[d.procs[q].node] = q
    OBVIOUS
  <2>1. q # p /\ d.procs[q] = procs[q]
    BY <1>12 DEF NoProc
  <2>2. managed[procs[q].node] = q /\ procs[q].node \in Node
    BY <2>1 DEF Matched, Manager, Foremost
  <2>3. procs[q].node # n
    BY <1>8, <2>1, <2>2
  <2>4. QED
    BY <1>5, <1>11, <2>1, <2>2, <2>3
<1>14. \A q \in Pid : d.procs[q].state = "failed" => d.procs[q].os = "exited"
  BY <1>12 DEF Matched, Manager, NoProc
<1>15. Matched(d)
  BY <1>13, <1>14 DEF Matched
<1>16. \A k \in Foremost \ {n} : /\ d.managed[k] = managed[k]
                                 /\ managed[k] # NoPid => d.procs[managed[k]] = procs[managed[k]]
  <2> SUFFICES ASSUME NEW k \in Foremost \ {n}
               PROVE  /\ d.managed[k] = managed[k]
                      /\ managed[k] # NoPid => d.procs[managed[k]] = procs[managed[k]]
    OBVIOUS
  <2>1. k \in Node /\ managed[k] \in Pid \cup {NoPid}
    BY DEF Foremost, TypeOK
  <2>2. managed[k] # NoPid => procs[managed[k]].node = k
    BY <2>1 DEF Entries, Manager
  <2>3. managed[k] # NoPid => managed[k] # p /\ managed[k] # managed[n]
    BY <1>1, <1>7, <2>1, <2>2 DEF Entries, Manager
  <2>4. d.managed[k] = managed[k]
    BY <1>5, <1>10, <1>11, <2>1
  <2>5. ASSUME NEW q \in Pid, q # p, q # managed[n]
        PROVE  d.procs[q] = procs[q]
    BY <1>5, <1>10, <1>11, <2>5
  <2>6. QED
    BY <2>1, <2>3, <2>4, <2>5
<1>17. d.managed[n] = NoPid /\ d.runtime = runtime
  BY <1>1, <1>4, <1>5, <1>11
<1>18. QED
  BY <1>1, <1>2, <1>8, <1>15, <1>16, <1>17 DEF Deleted, d, f, m, n

\* The heart of the theorems: every step keeps the matching, and such a node that gave
\* up stays so until the agent ends.
LEMMA UnattendedStep ==
    ASSUME Unattended, UnattendedInv, [Next]_vars
    PROVE  /\ UnattendedInv'
           /\ \A n \in Foremost : GaveUp(n) => GaveUp(n)' \/ mode' = "down"
<1> DEFINE Stays == \A n \in Foremost : GaveUp(n) => GaveUp(n)' \/ mode' = "down"
<1> /\ Ticker \in Actor /\ Caller \subseteq Actor /\ Ticker \notin Caller /\ Foremost \subseteq Node
  BY SupervisorAssumption DEF Actor, Foremost
<1> /\ TypeOK /\ TypeOK' /\ Entries(Manager) /\ Entries(Manager)'
  BY TypeStep, EntriesStep DEF UnattendedInv
<1> Matched(Manager) /\ ReconcileAlone /\ CallersOnlyStop
  BY DEF UnattendedInv
<1> SUFFICES Matched(Manager)' /\ ReconcileAlone' /\ CallersOnlyStop' /\ Stays
  BY DEF UnattendedInv
<1>1. ASSUME UNCHANGED <<procs, managed>>
      PROVE  Matched(Manager)' /\ Stays
  BY <1>1 DEF Matched, Manager, GaveUp
<1>2. ASSUME NEW c \in Caller, NEW n \in Node,
             ReqStart(c, n) \/ ReqStop(c, n) \/ ReqRestart(c, n) \/ ReqApply(c, n)
      PROVE  Matched(Manager)' /\ ReconcileAlone' /\ CallersOnlyStop' /\ Stays
  <2>1. ReqStop(c, n)
    BY <1>2 DEF Unattended, ReqStart, ReqRestart, ReqApply
  <2>2. QED
    BY <1>1, <2>1 DEF ReqStop, SetOp, agentVars, TypeOK, ReconcileAlone, CallersOnlyStop
<1>3. ASSUME NEW c \in Caller, RpcLost(c)
      PROVE  Matched(Manager)' /\ ReconcileAlone' /\ CallersOnlyStop' /\ Stays
  BY <1>1, <1>3 DEF RpcLost, SetOp, Idle, agentVars, TypeOK, ReconcileAlone, CallersOnlyStop
<1>4. ASSUME NEW c \in Caller, Call(c)
      PROVE  Matched(Manager)' /\ ReconcileAlone' /\ CallersOnlyStop' /\ Stays
  <2>1. RpcStop(c) /\ op[c].node \in Node
    BY <1>4 DEF CallersOnlyStop, Call, RpcStart, RpcStop, Apply, ApplyFails, ApplyRecord, RestartStop,
                RestartPoll, RestartLaunch, At, TypeOK, Op
  <2>2. Matched(Manager)' /\ managed' = managed /\ Stays
    BY <2>1, StopMatched DEF RpcStop
  <2>3. QED
    BY <2>1, <2>2 DEF RpcStop, SetOp, Idle, TypeOK, ReconcileAlone, CallersOnlyStop
<1>5. ASSUME Call(Ticker)
      PROVE  Matched(Manager)' /\ ReconcileAlone' /\ CallersOnlyStop' /\ Stays
  <2> DEFINE n == op[Ticker].node
  <2>0. CASE ApplyRecord(Ticker)
    <3>1. op[Ticker] \in [pc: {"idle", "start", "stop", "apply", "restart", "poll", "launch", "record", "report"},
                           node: Node \cup {NoNode}, by: {"restart", "apply", "fallback"}]
      BY DEF TypeOK, Op
    <3>2. op'[Ticker].pc = "report" /\ \A c \in Caller : op'[c] = op[c]
      BY <2>0, <3>1, SupervisorAssumption DEF ApplyRecord, Returned, SetOp, TypeOK
    <3>3. QED
      BY <1>1, <2>0, <3>2 DEF ApplyRecord, ReconcileAlone, CallersOnlyStop
  <2> SUFFICES ASSUME ~ApplyRecord(Ticker)
               PROVE  Matched(Manager)' /\ ReconcileAlone' /\ CallersOnlyStop' /\ Stays
    BY <2>0
  <2>1. n \in Node /\ (n \in Foremost => managed[n] = NoPid) /\ 0 \in 0..MaxRestarts
    BY <1>5, SupervisorAssumption DEF ReconcileAlone, Call, RpcStart, RpcStop, Apply, ApplyFails,
                RestartStop, RestartPoll, RestartLaunch, At, TypeOK, Op
  <2>2. CASE Apply(Ticker) \/ ApplyFails(Ticker) \/ RestartPoll(Ticker)
    <3>1. UNCHANGED <<procs, managed>>
      BY <2>2 DEF Apply, ApplyFails, RestartPoll, agentVars
    <3>2. /\ op'[Ticker].pc \in {"idle", "restart", "launch", "record", "report"}
          /\ op'[Ticker].pc # "idle" => op'[Ticker].node = n
      <4>1. op[Ticker] \in [pc: {"idle", "start", "stop", "apply", "restart", "poll", "launch", "record", "report"},
                             node: Node \cup {NoNode}, by: {"restart", "apply", "fallback"}]
        BY DEF TypeOK, Op
      <4>2. CASE Apply(Ticker)
        BY <4>1, <4>2 DEF Apply, SetOp, Idle, TypeOK
      <4>3. CASE RestartPoll(Ticker)
        BY <4>1, <4>3 DEF RestartPoll, SetOp, TypeOK
      <4>4. CASE ApplyFails(Ticker)
        BY <4>1, <4>4 DEF ApplyFails, Failed, Returned, SetOp, TypeOK
      <4>5. QED
        BY <2>2, <4>2, <4>3, <4>4
    <3>3. \A c \in Caller : op'[c] = op[c]
      BY <2>2, SupervisorAssumption DEF Apply, ApplyFails, RestartPoll, SetOp, TypeOK
    <3> HIDE DEF n
    <3>4. QED
      BY <1>1, <2>1, <3>1, <3>2, <3>3 DEF ReconcileAlone, CallersOnlyStop
  <2>3. CASE RestartStop(Ticker)
    <3>1. Matched(Manager)' /\ managed' = managed /\ Stays
      BY <2>1, <2>3, StopMatched DEF RestartStop
    <3>2. op'[Ticker] = [op[Ticker] EXCEPT !.pc = "poll"] /\ \A c \in Caller : op'[c] = op[c]
      BY <2>3, SupervisorAssumption DEF RestartStop, SetOp, TypeOK
    <3>3. op'[Ticker].pc = "poll" /\ op'[Ticker].node = n
      BY <3>2 DEF TypeOK, Op
    <3> HIDE DEF n
    <3>4. QED
      BY <2>1, <3>1, <3>2, <3>3 DEF ReconcileAlone, CallersOnlyStop
  <2>4. CASE RestartLaunch(Ticker)
    <3>1. /\ Matched(Manager)'
          /\ \A k \in Foremost \ {n} : managed'[k] = managed[k] /\ (GaveUp(k) => GaveUp(k)')
          /\ n \in Foremost /\ ~StartLocked(Manager, n, 0).ok => managed'[n] = NoPid
      <4>1. Become(StartLocked(Manager, n, 0))
        BY <2>4 DEF RestartLaunch
      <4>2. Manager \in ManagerState /\ Manager.ok /\ Manager.managed = managed /\ Manager.procs = procs
        BY ManagerType DEF Manager
      <4> HIDE DEF n
      <4>3. QED
        BY <2>1, <4>1, <4>2, BecomeMatched
    <3>2. n \in Foremost => ~GaveUp(n)
      BY <2>1 DEF GaveUp
    <3>3. Stays
      BY <3>1, <3>2
    <3>4. op[Ticker].node = n /\ op[Ticker] \in Op
      BY DEF TypeOK
    <3>5. \/ op'[Ticker].pc \in {"idle", "record", "report"}
          \/ /\ op'[Ticker].pc = "restart" /\ op'[Ticker].node = n
             /\ ~StartLocked(Manager, n, 0).ok
      <4> DEFINE m == StartLocked(Manager, n, 0)
      <4>1. \/ SetOp(Ticker, Idle)
            \/ SetOp(Ticker, [op[Ticker] EXCEPT !.pc = "record"])
            \/ SetOp(Ticker, [op[Ticker] EXCEPT !.pc = "report"])
            \/ ~m.ok /\ SetOp(Ticker, [op[Ticker] EXCEPT !.pc = "restart", !.by = "fallback"])
        BY <2>4 DEF RestartLaunch, Failed, Returned
      <4> HIDE DEF m
      <4>2. \/ op'[Ticker] = Idle
            \/ op'[Ticker] = [op[Ticker] EXCEPT !.pc = "record"]
            \/ op'[Ticker] = [op[Ticker] EXCEPT !.pc = "report"]
            \/ ~m.ok /\ op'[Ticker] = [op[Ticker] EXCEPT !.pc = "restart", !.by = "fallback"]
        BY <4>1 DEF SetOp, TypeOK
      <4>3. op[Ticker] \in [pc: {"idle", "start", "stop", "apply", "restart", "poll", "launch", "record", "report"},
                            node: Node \cup {NoNode}, by: {"restart", "apply", "fallback"}]
        BY <3>4 DEF Op
      <4>4. /\ Idle.pc = "idle"
            /\ [op[Ticker] EXCEPT !.pc = "record"].pc = "record"
            /\ [op[Ticker] EXCEPT !.pc = "report"].pc = "report"
            /\ [op[Ticker] EXCEPT !.pc = "restart", !.by = "fallback"].pc = "restart"
            /\ [op[Ticker] EXCEPT !.pc = "restart", !.by = "fallback"].node = op[Ticker].node
        BY <4>3 DEF Idle
      <4> HIDE DEF n
      <4>5. \/ op'[Ticker].pc \in {"idle", "record", "report"}
            \/ op'[Ticker].pc = "restart" /\ op'[Ticker].node = n /\ ~m.ok
        BY <3>4, <4>2, <4>4
      <4>6. QED
        BY <4>5 DEF m
    <3>6. \A c \in Caller : op'[c] = op[c]
      BY <2>4, SupervisorAssumption DEF RestartLaunch, SetOp, TypeOK
    <3> HIDE DEF n
    <3>7. QED
      BY <3>1, <3>3, <3>5, <3>6 DEF ReconcileAlone, CallersOnlyStop
  <2>5. QED
    BY <1>5, <2>2, <2>3, <2>4 DEF Call, RpcStart, RpcStop, At, ReconcileAlone
<1>6. CASE Reconcile
  <2>1. UNCHANGED <<procs, managed>>
    BY <1>6 DEF Reconcile, ReconcileList, ReconcileNode, ReconcileReport, agentVars
  <2>2. QED
    BY <1>1, <1>6, <2>1 DEF Reconcile, ReconcileList, ReconcileNode, ReconcileReport, At, SetOp, Idle,
       TypeOK, ReconcileAlone, CallersOnlyStop
<1>7. ASSUME managed' = managed, op' = op
      PROVE  ReconcileAlone' /\ CallersOnlyStop'
  BY <1>7 DEF ReconcileAlone, CallersOnlyStop
<1>8. ASSUME NEW p \in Pid, Exit(p) \/ KillTimer(p)
      PROVE  Matched(Manager)' /\ ReconcileAlone' /\ CallersOnlyStop' /\ Stays
  <2>1. \A q \in Pid : /\ procs'[q].node = procs[q].node /\ procs'[q].state = procs[q].state
                       /\ procs[q].os = "none" <=> procs'[q].os = "none"
                       /\ procs[q].os = "exited" <=> procs'[q].os = "exited"
    BY <1>8 DEF Exit, KillTimer, TypeOK, Proc
  <2>2. managed' = managed /\ op' = op
    BY <1>8 DEF Exit, KillTimer
  <2>3. QED
    BY <1>7, <2>1, <2>2, QuietMatched DEF Matched, Manager
<1>9. ASSUME NEW p \in Pid, Wait(p)
      PROVE  Matched(Manager)' /\ ReconcileAlone' /\ CallersOnlyStop' /\ Stays
  <2>1. managed' = managed /\ op' = op /\ procs[p].os = "dead" /\ procs[p].state # "failed"
    BY <1>9 DEF Wait, Matched, Manager
  <2>2. \A q \in Pid : q # p => procs'[q] = procs[q]
    BY <1>9 DEF Wait, TypeOK
  <2>3. procs'[p] = NoProc \/ (procs'[p].os = "exited" /\ procs'[p].node = procs[p].node)
    <3>1. CASE managed[procs[p].node] = p
      <4>1. PICK stable \in BOOLEAN : procs' = [procs EXCEPT ![p] = Settled(p, stable)]
        BY <1>9, <3>1 DEF Wait
      <4>2. Settled(p, stable).os = "exited" /\ Settled(p, stable).node = procs[p].node
        BY <2>1 DEF Settled, TypeOK, Proc
      <4>3. QED
        BY <4>1, <4>2 DEF TypeOK
    <3>2. CASE managed[procs[p].node] # p
      BY <1>9, <3>2 DEF Wait, TypeOK
    <3>3. QED
      BY <3>1, <3>2
  <2>4. \A q \in Pid : procs[q].state = "failed" => procs[q].os = "exited"
    BY DEF Matched, Manager
  <2>5. QED
    BY <1>7, <2>1, <2>2, <2>3, <2>4, QuietMatched
<1>10. ASSUME NEW p \in Pid, BackoffFire(p)
       PROVE  Matched(Manager)' /\ ReconcileAlone' /\ CallersOnlyStop' /\ Stays
  <2>1. procs[p].backoff /\ op' = op /\ procs[p].os = "exited" /\ procs[p].state = "stopped" /\ procs[p].node \in Node
    BY <1>10 DEF BackoffFire, TypeOK, Proc
  <2>2. CASE mode # "up"
    <3>1. procs' = [procs EXCEPT ![p] = [@ EXCEPT !.backoff = FALSE]] /\ managed' = managed
      BY <1>10, <2>2 DEF BackoffFire, Become, Manager
    <3>2. \A q \in Pid : /\ procs'[q].node = procs[q].node /\ procs'[q].state = procs[q].state
                         /\ procs'[q].os = procs[q].os
      BY <3>1 DEF TypeOK, Proc
    <3>3. QED
      BY <1>7, <2>1, <3>1, <3>2, QuietMatched DEF Matched, Manager
  <2>3. CASE mode = "up"
    <3> DEFINE n == procs[p].node
               d == Deleted(p)
    <3>1. /\ n \in Node /\ procs[p].restarts \in 0..MaxRestarts
          /\ d \in ManagerState /\ d.ok /\ d.managed[n] = NoPid /\ Entries(d) /\ Matched(d)
          /\ n \in Foremost => managed[n] = p
          /\ \A k \in Foremost \ {n} : /\ d.managed[k] = managed[k]
                                       /\ managed[k] # NoPid => d.procs[managed[k]] = procs[managed[k]]
      BY <2>1, DeletedMatched
    <3>2. Become(StartLocked(d, n, procs[p].restarts))
      BY <1>10, <2>3 DEF BackoffFire, Deleted
    <3>3. n \in Foremost => ~GaveUp(n)
      BY <2>1, <3>1 DEF GaveUp
    <3>4. n \in Foremost /\ op[Ticker].pc \notin {"idle", "record", "report"} => op[Ticker].node # n
      BY <3>1, SupervisorAssumption DEF ReconcileAlone
    <3> HIDE DEF n, d
    <3>5. /\ Matched(Manager)'
          /\ \A k \in Foremost \ {n} : managed'[k] = managed[k] /\ (GaveUp(k) => GaveUp(k)')
      BY <3>1, <3>2, BecomeMatched
    <3>6. QED
      BY <2>1, <3>3, <3>4, <3>5 DEF ReconcileAlone, CallersOnlyStop
  <2>4. QED
    BY <2>2, <2>3
<1>11. ASSUME NEW n \in Node, Break(n) \/ Repair(n)
       PROVE  Matched(Manager)' /\ ReconcileAlone' /\ CallersOnlyStop' /\ Stays
  BY <1>1, <1>7, <1>11 DEF Break, Repair, agentVars
<1>12. CASE ShutdownBegin \/ Boot \/ UNCHANGED vars
  BY <1>1, <1>7, <1>12 DEF ShutdownBegin, Boot, vars, agentVars
<1>13. ASSUME Down
       PROVE  Matched(Manager)' /\ ReconcileAlone' /\ CallersOnlyStop' /\ Stays
  BY <1>13 DEF Down, Matched, Manager, NoProc, ReconcileAlone, CallersOnlyStop, Idle
<1>14. ASSUME NEW n \in Node, ShutdownStop(n)
       PROVE  Matched(Manager)' /\ ReconcileAlone' /\ CallersOnlyStop' /\ Stays
  BY <1>7, <1>14, StopMatched DEF ShutdownStop
<1>15. QED
  BY <1>2, <1>3, <1>4, <1>5, <1>6, <1>8, <1>9, <1>10, <1>11, <1>12, <1>13, <1>14
     DEF Next, Request, Actor, Shutdown, ShutdownExit, Crash

LEMMA UnattendedInit == Init => UnattendedInv
<1> SUFFICES ASSUME Init
             PROVE  UnattendedInv
  OBVIOUS
<1>1. TypeOK /\ Entries(Manager)
  BY EntriesInit
<1>2. QED
  BY <1>1 DEF UnattendedInv, Init, Matched, Manager, NoProc, ReconcileAlone, CallersOnlyStop, Idle, Actor

LEMMA PlainIsForemost == PlainUnattended => Unattended /\ Foremost = Node
  BY SupervisorAssumption DEF PlainUnattended, Foremost

\* A node that is no other's backend and that nobody starts by hand, a ShadowTLS node too,
\* never has two live processes in one run of the agent, however its exits, restarts and
\* stops, those of its backend and the agent's crashes interleave.
THEOREM ForemostRunsOnce == Unattended /\ Spec => [](\A n \in Foremost : \A p, q \in Running(n) : p = q)
<1> SUFFICES ASSUME Unattended
             PROVE  Spec => [](\A n \in Foremost : \A p, q \in Running(n) : p = q)
  OBVIOUS
<1>1. UnattendedInv /\ [Next]_vars => UnattendedInv'
  BY UnattendedStep
<1>2. UnattendedInv => \A n \in Foremost : \A p, q \in Running(n) : p = q
  BY DEF UnattendedInv, Matched, Manager, Running
<1>3. QED
  BY <1>1, <1>2, UnattendedInit, PTL DEF Spec

\* Where no node has a backend this is every node.
THEOREM NeverTwoProcesses == PlainUnattended /\ Spec => []AtMostOneProcess
<1> SUFFICES ASSUME PlainUnattended
             PROVE  Spec => []AtMostOneProcess
  OBVIOUS
<1>1. Unattended /\ Foremost = Node
  BY PlainIsForemost
<1>2. UnattendedInv /\ [Next]_vars => UnattendedInv'
  BY <1>1, UnattendedStep
<1>3. UnattendedInv => AtMostOneProcess
  BY <1>1 DEF UnattendedInv, Matched, Manager, Running, AtMostOneProcess
<1>4. QED
  BY <1>2, <1>3, UnattendedInit, PTL DEF Spec

\* Such a node, once the restart threshold has marked it failed, is started again
\* by nothing short of a new agent, ShadowTLS nodes included.
THEOREM ForemostStaysFailed ==
    Unattended /\ Spec => [][\A n \in Foremost : GaveUp(n) => GaveUp(n)' \/ mode' = "down"]_vars
<1> SUFFICES ASSUME Unattended
             PROVE  Spec => [][\A n \in Foremost : GaveUp(n) => GaveUp(n)' \/ mode' = "down"]_vars
  OBVIOUS
<1>1. UnattendedInv /\ [Next]_vars => UnattendedInv'
  BY UnattendedStep
<1>2. UnattendedInv /\ [Next]_vars
        => [\A n \in Foremost : GaveUp(n) => GaveUp(n)' \/ mode' = "down"]_vars
  BY UnattendedStep
<1>3. QED
  BY <1>1, <1>2, UnattendedInit, PTL DEF Spec

\* Where no node has a backend this is every node.
THEOREM FailedStays == PlainUnattended /\ Spec => FailedWaits
<1> SUFFICES ASSUME PlainUnattended
             PROVE  Spec => FailedWaits
  OBVIOUS
<1>1. Unattended /\ Foremost = Node
  BY PlainIsForemost
<1>2. UnattendedInv /\ [Next]_vars => UnattendedInv'
  BY <1>1, UnattendedStep
<1>3. UnattendedInv /\ [Next]_vars
        => [\A n \in Node : GaveUp(n) => GaveUp(n)' \/ mode' = "down"]_vars
  BY <1>1, UnattendedStep
<1>4. QED
  BY <1>2, <1>3, UnattendedInit, PTL DEF Spec, FailedWaits
-----------------------------------------------------------------------------
(* The state column, again for nodes that are no other's backend and that   *)
(* nobody starts by hand.                                                   *)

Honest == crashes = 0 => \A n \in Foremost : runtime[n] = "running" => Attached(Manager, n)

HonestInv ==
    /\ UnattendedInv
    /\ Honest
    /\ crashes = 0 => mode = "up"

\* A step that keeps the map, makes no state "running", and keeps the process of
\* every such node whose state is.
LEMMA QuietHonest ==
    ASSUME TypeOK, Honest, crashes' = crashes, managed' = managed,
           \A n \in Foremost : runtime'[n] = "running" =>
               runtime[n] = "running" /\ (Attached(Manager, n) => procs'[managed[n]].os # "exited")
    PROVE  Honest'
  BY DEF Honest, Attached, Manager

\* One level of a start changes the state column of its node only, and to "running" only
\* for a process.
LEMMA StartOneHonest ==
    ASSUME NEW m \in ManagerState, Entries(m), m.ok, NEW n \in Node, NEW r \in 0..MaxRestarts
    PROVE  LET s == StartOne(m, n, r)
           IN  /\ \A k \in Node \ {n} : s.runtime[k] = m.runtime[k]
               /\ s.runtime[n] = "running" => m.runtime[n] = "running" \/ Attached(s, n)
<1> DEFINE Good(s) == /\ \A k \in Node \ {n} : s.runtime[k] = m.runtime[k]
                      /\ s.runtime[n] = "running" => m.runtime[n] = "running" \/ Attached(s, n)
<1>1. Good(m) /\ Good([m EXCEPT !.ok = FALSE]) /\ Good([m EXCEPT !.runtime[n] = "failed", !.ok = FALSE])
  BY DEF ManagerState
<1>2. Free(Forget(m, m.managed[n])) # {} => Good(Spawn(m, n, r))
  <2> SUFFICES ASSUME Free(Forget(m, m.managed[n])) # {}
               PROVE  Good(Spawn(m, n, r))
    OBVIOUS
  <2>1. Attached(Spawn(m, n, r), n)
    BY SpawnEntries
  <2> DEFINE f == Forget(m, m.managed[n])
  <2>2. f \in ManagerState /\ f.runtime = m.runtime
    BY ForgetType DEF Forget, ManagerState
  <2>3. Spawn(m, n, r).runtime = [f.runtime EXCEPT ![n] = "running"]
    BY <2>2 DEF Spawn, ManagerState
  <2>4. \A k \in Node \ {n} : Spawn(m, n, r).runtime[k] = m.runtime[k]
    BY <2>2, <2>3 DEF ManagerState
  <2>5. QED
    BY <2>1, <2>4
<1> HIDE DEF Good
<1>3. Good(StartOne(m, n, r))
  BY <1>1, <1>2 DEF StartOne
<1>4. QED
  BY <1>3 DEF Good

LEMMA BecomeHonest ==
    ASSUME TypeOK, Honest, crashes' = crashes, crashes = 0, mode = "up",
           NEW m \in ManagerState, Entries(m), Matched(m), m.ok, m.runtime = runtime, NEW n \in Node,
           n \in Foremost => m.managed[n] = NoPid /\ ~Attached(Manager, n),
           NEW r \in 0..MaxRestarts, Become(StartLocked(m, n, r)),
           \A k \in Foremost \ {n} : /\ m.managed[k] = managed[k]
                                     /\ managed[k] # NoPid => m.procs[managed[k]] = procs[managed[k]]
    PROVE  Honest'
<1> DEFINE s == StartLocked(m, n, r)
           Good(x) == /\ \A k \in Foremost \ {n} : x.runtime[k] = m.runtime[k]
                      /\ n \in Foremost /\ x.runtime[n] = "running" => Attached(x, n)
<1>1. n \in Foremost => runtime[n] # "running"
  BY DEF Honest
<1>2. Foremost \subseteq Node
  BY DEF Foremost
<1>3. Good(StartOne(m, n, r))
  BY <1>1, <1>2, StartOneHonest
<1>4. ASSUME BackendOf[n] # NoNode
      PROVE  LET b == StartOne(m, BackendOf[n], 0)
             IN  Good(IF b.ok THEN StartOne(b, n, r) ELSE b)
  <2> DEFINE b == StartOne(m, BackendOf[n], 0)
             x == StartOne(b, n, r)
  <2>1. BackendOf[n] \in Node \ Foremost /\ BackendOf[n] # n /\ 0 \in 0..MaxRestarts
    BY <1>4, SupervisorAssumption DEF Foremost
  <2>2. b \in ManagerState /\ Entries(b)
    BY <2>1, StartOneMatched
  <2>3. \A k \in Node \ {BackendOf[n]} : b.runtime[k] = m.runtime[k]
    BY <2>1, StartOneHonest
  <2> HIDE DEF b
  <2>4. Good(b)
    BY <1>1, <1>2, <2>1, <2>3
  <2>5. b.ok => Good(x)
    BY <1>1, <1>2, <2>1, <2>2, <2>3, StartOneHonest
  <2> HIDE DEF Good, x
  <2>6. Good(IF b.ok THEN x ELSE b)
    BY <2>4, <2>5
  <2>7. QED
    BY <2>6 DEF b, x
<1>5. Good(m)
  BY <1>1
<1> HIDE DEF Good
<1>6. Good(s)
  BY <1>3, <1>4 DEF StartLocked
<1>7. Spares(m, s, n)
  BY StartMatched
<1> HIDE DEF s
<1>8. procs' = s.procs /\ managed' = s.managed /\ runtime' = s.runtime
  BY DEF Become, s
<1>9. \A k \in Foremost \ {n} : runtime'[k] = "running" => Attached(Manager, k)'
  BY <1>6, <1>7, <1>8 DEF Good, Spares, Honest, Attached, Manager
<1>10. n \in Foremost /\ runtime'[n] = "running" => Attached(Manager, n)'
  BY <1>6, <1>8 DEF Good, Attached, Manager
<1>11. QED
  BY <1>9, <1>10 DEF Honest

LEMMA HonestStep ==
    ASSUME Unattended, HonestInv, [Next]_vars
    PROVE  HonestInv'
<1> DEFINE Up == crashes = 0 => mode = "up"
<1> /\ Caller \subseteq Actor /\ Ticker \in Actor /\ Ticker \notin Caller /\ Foremost \subseteq Node
  BY SupervisorAssumption DEF Actor, Foremost
<1> TypeOK /\ UnattendedInv /\ Entries(Manager) /\ Matched(Manager) /\ Honest /\ Up
  BY DEF HonestInv, UnattendedInv
<1> SUFFICES Honest' /\ Up'
  BY UnattendedStep DEF HonestInv
<1>1. ASSUME UNCHANGED <<crashes, mode, procs, managed, runtime>>
      PROVE  Honest' /\ Up'
  BY <1>1 DEF Honest, Attached, Manager
<1>2. ASSUME crashes' # 0
      PROVE  Honest' /\ Up'
  BY <1>2 DEF Honest
<1>3. ASSUME NEW n \in Node, Stop(n), UNCHANGED <<crashes, mode>>
      PROVE  Honest' /\ Up'
  <2>1. managed' = managed /\ \A p \in Pid : procs'[p].os = procs[p].os
    BY <1>3, StopStops
  <2>2. \A k \in Node : /\ runtime'[k] = "running" => runtime[k] = "running"
                        /\ managed[k] # NoPid => managed[k] \in Pid
    BY <1>3 DEF Stop, TypeOK
  <2>3. QED
    BY <1>3, <2>1, <2>2, QuietHonest DEF Attached, Manager
<1>4. ASSUME NEW c \in Caller, Call(c)
      PROVE  Honest' /\ Up'
  <2>1. RpcStop(c) /\ op[c].node \in Node
    BY <1>4 DEF UnattendedInv, CallersOnlyStop, Call, RpcStart, RpcStop, Apply, ApplyFails, ApplyRecord, RestartStop,
                RestartPoll, RestartLaunch, At, TypeOK, Op
  <2>2. QED
    BY <1>3, <2>1 DEF RpcStop
<1>5. ASSUME Call(Ticker)
      PROVE  Honest' /\ Up'
  <2> DEFINE n == op[Ticker].node
  <2>0. CASE Apply(Ticker) \/ ApplyFails(Ticker) \/ ApplyRecord(Ticker) \/ RestartPoll(Ticker)
    <3>1. UNCHANGED <<crashes, mode, procs, managed>> /\ \A k \in Node : runtime'[k] = "running" => runtime[k] = "running"
      BY <2>0 DEF Apply, ApplyFails, ApplyRecord, RestartPoll, agentVars, TypeOK
    <3>2. QED
      BY <3>1, QuietHonest DEF Attached, Manager
  <2> SUFFICES ASSUME ~ApplyRecord(Ticker)
               PROVE  Honest' /\ Up'
    BY <2>0
  <2>1. n \in Node /\ (n \in Foremost => managed[n] = NoPid) /\ 0 \in 0..MaxRestarts
    BY <1>5, SupervisorAssumption DEF UnattendedInv, ReconcileAlone, Call, RpcStart, RpcStop, Apply,
                ApplyFails, RestartStop, RestartPoll, RestartLaunch, At, TypeOK, Op
  <2>3. CASE RestartStop(Ticker)
    BY <1>3, <2>1, <2>3 DEF RestartStop
  <2>4. CASE RestartLaunch(Ticker)
    <3>1. Become(StartLocked(Manager, n, 0)) /\ UNCHANGED <<crashes, mode>>
      BY <2>4 DEF RestartLaunch
    <3>2. /\ Manager \in ManagerState /\ Manager.ok /\ Manager.managed = managed
          /\ Manager.procs = procs /\ Manager.runtime = runtime
      BY ManagerType DEF Manager
    <3>3. n \in Foremost => ~Attached(Manager, n)
      BY <2>1, <3>2 DEF Attached
    <3> HIDE DEF n
    <3>4. crashes = 0 => Honest'
      BY <2>1, <3>1, <3>2, <3>3, BecomeHonest
    <3>5. QED
      BY <3>1, <3>4 DEF Honest
  <2>5. QED
    BY <1>5, <2>0, <2>3, <2>4 DEF UnattendedInv, Call, RpcStart, RpcStop, At, ReconcileAlone
<1>6. CASE Reconcile
  <2>1. UNCHANGED <<crashes, mode, procs, managed>> /\ \A n \in Node : runtime'[n] = "running" => runtime[n] = "running"
    BY <1>6 DEF Reconcile, ReconcileList, ReconcileNode, ReconcileReport, agentVars, TypeOK
  <2>2. QED
    BY <2>1, QuietHonest DEF Attached, Manager
<1>7. ASSUME NEW p \in Pid, Exit(p) \/ KillTimer(p)
      PROVE  Honest' /\ Up'
  <2>1. \A q \in Pid : procs[q].os = "exited" <=> procs'[q].os = "exited"
    BY <1>7 DEF Exit, KillTimer, TypeOK, Proc
  <2>2. UNCHANGED <<crashes, mode, managed, runtime>> /\ \A n \in Node : managed[n] # NoPid => managed[n] \in Pid
    BY <1>7 DEF Exit, KillTimer, TypeOK
  <2>3. QED
    BY <2>1, <2>2, QuietHonest DEF Attached, Manager
<1>8. ASSUME NEW p \in Pid, Wait(p)
      PROVE  Honest' /\ Up'
  <2>1. UNCHANGED <<crashes, mode, managed>> /\ procs[p].node \in Node /\ p # NoPid
    BY <1>8, SupervisorAssumption DEF Wait, TypeOK, Proc
  <2>2. \A q \in Pid \ {p} : procs'[q] = procs[q]
    BY <1>8 DEF Wait, TypeOK
  <2>3. \A n \in Node \ {procs[p].node} : managed[n] # NoPid => managed[n] \in Pid \ {p}
    BY DEF Entries, Manager, TypeOK
  <2>4. CASE managed[procs[p].node] = p
    <3>1. runtime'[procs[p].node] # "running" /\ \A n \in Node \ {procs[p].node} : runtime'[n] = runtime[n]
      BY <1>8, <2>1, <2>4 DEF Wait, TypeOK
    <3>2. QED
      BY <2>1, <2>2, <2>3, <3>1, QuietHonest DEF Attached, Manager
  <2>5. CASE managed[procs[p].node] # p
    <3>1. runtime' = runtime
      BY <1>8, <2>5 DEF Wait
    <3>2. \A n \in Node : managed[n] # NoPid => managed[n] \in Pid \ {p}
      BY <2>3, <2>5 DEF TypeOK
    <3>3. QED
      BY <2>1, <2>2, <3>1, <3>2, QuietHonest DEF Attached, Manager
  <2>6. QED
    BY <2>4, <2>5
<1>9. ASSUME NEW p \in Pid, BackoffFire(p)
      PROVE  Honest' /\ Up'
  <2> DEFINE n == procs[p].node
             d == Deleted(p)
  <2>1. procs[p].backoff /\ procs[p].os = "exited" /\ UNCHANGED <<crashes, mode>>
    BY <1>9 DEF BackoffFire, TypeOK, Proc
  <2>2. SUFFICES ASSUME crashes = 0
                 PROVE  Honest'
    BY <2>1 DEF Honest
  <2>3. Become(StartLocked(d, n, procs[p].restarts)) /\ mode = "up"
    BY <1>9, <2>2 DEF BackoffFire, Deleted
  <2>4. /\ n \in Node /\ procs[p].restarts \in 0..MaxRestarts
        /\ d \in ManagerState /\ d.ok /\ d.runtime = runtime /\ d.managed[n] = NoPid /\ Entries(d) /\ Matched(d)
        /\ n \in Foremost => managed[n] = p
        /\ \A k \in Foremost \ {n} : /\ d.managed[k] = managed[k]
                                     /\ managed[k] # NoPid => d.procs[managed[k]] = procs[managed[k]]
    BY <2>1, DeletedMatched
  <2>5. n \in Foremost => ~Attached(Manager, n)
    BY <2>1, <2>4 DEF Attached, Manager
  <2> HIDE DEF n, d
  <2>6. QED
    BY <2>1, <2>2, <2>3, <2>4, <2>5, BecomeHonest
<1>10. ASSUME NEW n \in Node, ShutdownStop(n)
       PROVE  Honest' /\ Up'
  BY <1>3, <1>10 DEF ShutdownStop
<1>11. CASE ShutdownBegin \/ Crash \/ ShutdownExit
  BY <1>2, <1>11, SupervisorAssumption DEF ShutdownBegin, Crash, ShutdownExit, Down, TypeOK
<1>12. CASE Boot
  BY <1>12 DEF Boot, agentVars, Honest, Attached, Manager
<1>13. CASE Request \/ (\E c \in Caller : RpcLost(c))
  <2>1. UNCHANGED <<crashes, mode, procs, managed, runtime>>
    BY <1>13 DEF Request, ReqStart, ReqStop, ReqRestart, ReqApply, RpcLost, agentVars
  <2>2. QED
    BY <1>1, <2>1
<1>14. CASE (\E n \in Node : Break(n) \/ Repair(n)) \/ UNCHANGED vars
  <2>1. UNCHANGED <<crashes, mode, procs, managed, runtime>>
    BY <1>14 DEF Break, Repair, vars, agentVars
  <2>2. QED
    BY <1>1, <2>1
<1>15. QED
  BY <1>4, <1>5, <1>6, <1>7, <1>8, <1>9, <1>10, <1>11, <1>12, <1>13, <1>14 DEF Next, Shutdown, Actor

LEMMA HonestInit == Init => HonestInv
  BY UnattendedInit DEF Init, HonestInv, Honest, Foremost

\* Until the agent first ends, the state column says "running" of such a node, a ShadowTLS
\* node too, only while the manager has a process for it.
THEOREM ForemostHonest ==
    Unattended /\ Spec =>
        [](crashes = 0 => \A n \in Foremost : runtime[n] = "running" => Attached(Manager, n))
<1> SUFFICES ASSUME Unattended
             PROVE  Spec => [](crashes = 0 => \A n \in Foremost : runtime[n] = "running" => Attached(Manager, n))
  OBVIOUS
<1>1. HonestInv /\ [Next]_vars => HonestInv'
  BY HonestStep
<1>2. HonestInv => (crashes = 0 => \A n \in Foremost : runtime[n] = "running" => Attached(Manager, n))
  BY DEF HonestInv, Honest
<1>3. QED
  BY <1>1, <1>2, HonestInit, PTL DEF Spec

\* Where no node has a backend this is every node.
THEOREM StateHonest == PlainUnattended /\ Spec => []RuntimeHonest
<1> SUFFICES ASSUME PlainUnattended
             PROVE  Spec => []RuntimeHonest
  OBVIOUS
<1>1. Unattended /\ Foremost = Node
  BY PlainIsForemost
<1>2. HonestInv /\ [Next]_vars => HonestInv'
  BY <1>1, HonestStep
<1>3. HonestInv => RuntimeHonest
  BY <1>1 DEF HonestInv, Honest, RuntimeHonest
<1>4. QED
  BY <1>2, <1>3, HonestInit, PTL DEF Spec
=============================================================================
