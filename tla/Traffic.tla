------------------------------ MODULE Traffic ------------------------------
(***************************************************************************)
(* Billing and quotas of the nodes with a public port: the rows of         *)
(* traffic_counters and project_traffic (internal/traffic/store.go), the   *)
(* sampler of the agent that moves nftables counters into them and puts    *)
(* the resulting policy into the firewall (Manager.SampleTraffic,          *)
(* Manager.SetProjectBlocked), and the API handlers that change both       *)
(* (internal/api/server.go) from another process.                          *)
(*                                                                         *)
(* An action is one database transaction, one call of the firewall         *)
(* package (they exclude each other, nftMu) or one read.  Upload and       *)
(* download are one number.  A blocked port still counts what it rejects.  *)
(***************************************************************************)
EXTENDS Integers, FiniteSets

CONSTANTS
    Node,          \* nodes that listen on a public address
    Caller,        \* concurrent API requests
    None,          \* no baseline, no accounting rule, no node
    DaysPerMonth,
    Quota,         \* quotas an administrator sets; 0 is unlimited
    ResetDay,      \* reset days an administrator sets; 1 to 28 in the code
    Requests,      \* the kinds of API request that may arrive
    MaxBytes,      \* bound on a kernel counter
    MaxDay,        \* bound on the clock
    MaxRequests,   \* bound: API requests in all
    MaxFaults      \* bound: failures, crashes and lost rules in all

RequestKind == {"pause", "reset", "quota", "projectPause", "projectReset",
                "projectQuota", "start", "stop", "edit"}

ASSUME TrafficAssumption ==
    /\ None \notin Int /\ None \notin Node
    /\ DaysPerMonth \in Nat \ {0}
    /\ Quota \subseteq Nat /\ ResetDay \subseteq 1..DaysPerMonth
    /\ Requests \subseteq RequestKind
    /\ MaxBytes \in Nat /\ MaxDay \in Nat /\ MaxRequests \in Nat /\ MaxFaults \in Nat

VARIABLES
    day,        \* the date
    running,    \* nodes whose desired state is running
    row,        \* traffic_counters
    baseline,   \* traffic_samples: the counter the last sample saw
    project,    \* project_traffic
    raw,        \* the kernel's counter; None without an accounting rule
    block,      \* nodes with a blocking rule
    round,      \* what SampleTraffic is in the middle of
    call,       \* what each API request is in the middle of
    requests, faults,
    unbilled,   \* bytes through a node's port that no sample has accepted
    uncharged   \* bytes samples have accepted and the project was not charged

vars == <<day, running, row, baseline, project, raw, block, round, call,
          requests, faults, unbilled, uncharged>>

\* The first day of the billing period of date t, as month and reset day.
BillingPeriod(t, resetDay) ==
    <<IF (t % DaysPerMonth) + 1 < resetDay THEN (t \div DaysPerMonth) - 1 ELSE t \div DaysPerMonth,
      resetDay>>

Row == {c \in [period: Int \X Nat, used: Nat, quota: Nat, day: Nat \ {0},
               paused: BOOLEAN, byQuota: BOOLEAN] : c.byQuota => c.paused}

FreshRow(t, quota, resetDay) ==
    [period |-> BillingPeriod(t, resetDay), used |-> 0, quota |-> quota, day |-> resetDay,
     paused |-> FALSE, byQuota |-> FALSE]

\* A request is at pc; it is to set the rule of node (or of every node) to on and
\* continue at next, to store pause, and to put undo back when that fails.  todo
\* and held are the nodes left and the paused nodes of SetProjectBlocked.
Call == {r \in [pc: {"idle", "block", "pause", "sync", "policy", "resample", "list", "all", "pauseProject"},
                node: Node \cup {None}, on: BOOLEAN, pause: BOOLEAN, undo: BOOLEAN,
                next: {"idle", "pause", "pauseProject"},
                todo: SUBSET Node, held: SUBSET Node] :
           r.pc \in {"block", "pause", "sync", "policy"} \/ r.next = "pause" => r.node \in Node}

Idle == [pc |-> "idle", node |-> None, on |-> FALSE, pause |-> FALSE, undo |-> FALSE,
         next |-> "idle", todo |-> {}, held |-> {}]

\* A round of the sampler: the nodes listed, those left in the loop at pc, their
\* counters, those sampled, those of them found paused, the bytes to charge the
\* project and whether the project is paused.
RoundRecord == [pc: {"idle", "read", "sample", "block"}, active: SUBSET Node, todo: SUBSET Node,
                snap: [Node -> Nat \cup {None}], sampled: SUBSET Node, held: SUBSET Node,
                sum: Nat, verdict: BOOLEAN]

Round == {r \in RoundRecord : r.pc = "sample" => \A n \in r.todo : r.snap[n] \in Nat}

NoRound == [pc |-> "idle", active |-> {}, todo |-> {}, snap |-> [n \in Node |-> None],
            sampled |-> {}, held |-> {}, sum |-> 0, verdict |-> FALSE]

TypeOK ==
    /\ day \in 0..MaxDay
    /\ running \in SUBSET Node /\ block \in SUBSET Node
    /\ row \in [Node -> Row] /\ project \in Row
    /\ baseline \in [Node -> Nat \cup {None}] /\ raw \in [Node -> Nat \cup {None}]
    /\ round \in Round
    /\ call \in [Caller -> Call]
    /\ requests \in 0..MaxRequests /\ faults \in 0..MaxFaults
    /\ unbilled \in [Node -> Int] /\ uncharged \in Int

Init ==
    /\ day = 0
    /\ running \in SUBSET Node
    /\ row \in [Node -> {FreshRow(0, q, d) : q \in Quota, d \in ResetDay}]
    /\ project \in {FreshRow(0, q, d) : q \in Quota, d \in ResetDay}
    /\ baseline = [n \in Node |-> None]
    /\ raw = [n \in Node |-> None]
    /\ block = {}
    /\ round = NoRound
    /\ call = [c \in Caller |-> Idle]
    /\ requests = 0 /\ faults = 0
    /\ unbilled = [n \in Node |-> 0] /\ uncharged = 0

-----------------------------------------------------------------------------
(* A billing row: a new period, more bytes, the quota.                      *)

Over(c) == c.quota > 0 /\ c.used >= c.quota

NewPeriod(c) == c.period # BillingPeriod(day, c.day)

\* Mutants of Roll: every pause ends with the period; the period never ends.
RollFreely(c) ==
    IF NewPeriod(c)
    THEN [c EXCEPT !.period = BillingPeriod(day, c.day), !.used = 0, !.paused = FALSE, !.byQuota = FALSE]
    ELSE c

RollNever(c) == c

\* A new period clears the usage and ends a pause the quota made.
Roll(c) ==
    IF NewPeriod(c)
    THEN [c EXCEPT !.period = BillingPeriod(day, c.day), !.used = 0,
                   !.paused = c.paused /\ ~c.byQuota, !.byQuota = FALSE]
    ELSE c

\* Mutant of Enforce: never pauses.
EnforceNothing(c) ==
    IF c.byQuota /\ ~Over(c) THEN [c EXCEPT !.paused = FALSE, !.byQuota = FALSE] ELSE c

Enforce(c) ==
    IF c.byQuota /\ ~Over(c) THEN [c EXCEPT !.paused = FALSE, !.byQuota = FALSE]
    ELSE IF Over(c) /\ ~c.paused THEN [c EXCEPT !.paused = TRUE, !.byQuota = TRUE]
    ELSE c

Charge(c, bytes) == Enforce([Roll(c) EXCEPT !.used = @ + bytes])

\* Mutant of Delta: without a baseline everything counted so far is new.
DeltaFromZero(before, now) ==
    IF before = None THEN now ELSE IF now >= before THEN now - before ELSE now

\* A counter below the baseline has started again at zero.
Delta(before, now) ==
    IF before = None THEN 0 ELSE IF now >= before THEN now - before ELSE now

SetBlocked(n, on) == block' = IF on THEN block \cup {n} ELSE block \ {n}

-----------------------------------------------------------------------------
(* SampleTraffic.                                                           *)

\* The running nodes are listed.
SamplerList ==
    /\ round.pc = "idle"
    /\ round' = [NoRound EXCEPT !.pc = "read", !.active = running]
    /\ UNCHANGED <<day, running, row, baseline, project, raw, block, call, requests, faults, unbilled, uncharged>>

\* The accounting rules of the listed nodes: a rule there is keeps its counter.
Ensured == [n \in round.active |-> IF raw[n] = None THEN 0 ELSE raw[n]]

\* Missing accounting rules are installed, those of other nodes removed, and all
\* counters read by one nft command.
SamplerRead ==
    /\ round.pc = "read"
    /\ raw' = [n \in Node |-> IF n \in round.active THEN Ensured[n] ELSE None]
    /\ round' = [round EXCEPT !.pc = "sample", !.snap = raw', !.todo = round.active]
    /\ UNCHANGED <<day, running, row, baseline, project, block, call, requests, faults, unbilled, uncharged>>

\* What a sample of n adds to its row: nothing in a new period, whose first sample
\* only sets the baseline.
Sampled(n) == Delta(IF NewPeriod(row[n]) THEN None ELSE baseline[n], round.snap[n])

\* Mutant of SamplerSample: the project is charged the node's total.
SamplerSampleTotal(n) ==
    /\ round.pc = "sample" /\ n \in round.todo
    /\ row' = [row EXCEPT ![n] = Charge(row[n], Sampled(n))]
    /\ baseline' = [baseline EXCEPT ![n] = round.snap[n]]
    /\ round' = [round EXCEPT !.todo = @ \ {n}, !.sampled = @ \cup {n}, !.sum = @ + row'[n].used,
                              !.held = IF row'[n].paused THEN @ \cup {n} ELSE @]
    /\ unbilled' = [unbilled EXCEPT ![n] = @ - Sampled(n)]
    /\ uncharged' = uncharged + Sampled(n)
    /\ UNCHANGED <<day, running, project, raw, block, call, requests, faults>>

\* Sample, for one node: its row, its baseline and what the project will be
\* charged, in one transaction.
SamplerSample(n) ==
    /\ round.pc = "sample" /\ n \in round.todo
    /\ row' = [row EXCEPT ![n] = Charge(row[n], Sampled(n))]
    /\ baseline' = [baseline EXCEPT ![n] = round.snap[n]]
    /\ round' = [round EXCEPT !.todo = @ \ {n}, !.sampled = @ \cup {n}, !.sum = @ + Sampled(n),
                              !.held = IF row'[n].paused THEN @ \cup {n} ELSE @]
    /\ unbilled' = [unbilled EXCEPT ![n] = @ - Sampled(n)]
    /\ uncharged' = uncharged + Sampled(n)
    /\ UNCHANGED <<day, running, project, raw, block, call, requests, faults>>

\* The firewall loop, or what is left of it, comes next.
BlockRest(r) == IF r.todo = {} THEN NoRound ELSE [r EXCEPT !.pc = "block"]

\* SampleProject, with the bytes the samples of this round accepted.
SamplerProject ==
    /\ round.pc = "sample" /\ round.todo = {}
    /\ project' = Charge(project, round.sum)
    /\ uncharged' = uncharged - round.sum
    /\ round' = BlockRest([round EXCEPT !.todo = round.active, !.sum = 0, !.verdict = project'.paused,
                                        !.snap = [n \in Node |-> None]])
    /\ UNCHANGED <<day, running, row, baseline, raw, block, call, requests, faults, unbilled>>

\* Mutant of Verdict: the project alone decides.
VerdictProject(n) == round.verdict

\* The policy for n: what its own sample said, or its row now if that failed, and
\* what the project sample said.
Verdict(n) == round.verdict \/ IF n \in round.sampled THEN n \in round.held ELSE row[n].paused

SamplerBlock(n) ==
    /\ round.pc = "block" /\ n \in round.todo
    /\ SetBlocked(n, Verdict(n))
    /\ round' = BlockRest([round EXCEPT !.todo = @ \ {n}])
    /\ UNCHANGED <<day, running, row, baseline, project, raw, call, requests, faults, unbilled, uncharged>>

Fault == faults < MaxFaults /\ faults' = faults + 1

\* The failure that cost n its sample lasts, and its row cannot be read either: the
\* node is taken for one that is not paused.
SamplerUnread(n) ==
    /\ round.pc = "block" /\ n \in round.todo \ round.sampled
    /\ SetBlocked(n, round.verdict)
    /\ round' = BlockRest([round EXCEPT !.todo = @ \ {n}])
    /\ UNCHANGED <<day, running, row, baseline, project, raw, call, requests, faults, unbilled, uncharged>>

\* One node's database or firewall call fails and the loop goes on.
SamplerSkip(n) ==
    /\ Fault
    /\ round.pc \in {"sample", "block"} /\ n \in round.todo
    /\ LET rest == [round EXCEPT !.todo = @ \ {n}]
       IN  round' = IF round.pc = "block" THEN BlockRest(rest) ELSE rest
    /\ UNCHANGED <<day, running, row, baseline, project, raw, block, call, requests, unbilled, uncharged>>

\* A failure that ends the round, or a crash of the agent.
SamplerAbort ==
    /\ Fault
    /\ round.pc # "idle"
    /\ round' = NoRound
    /\ UNCHANGED <<day, running, row, baseline, project, raw, block, call, requests, unbilled, uncharged>>

-----------------------------------------------------------------------------
(* The API.                                                                 *)

At(c, p) == call[c].pc = p

\* A request that has returned leaves nothing behind.
SetCall(c, r) == call' = [call EXCEPT ![c] = IF r.pc = "idle" THEN Idle ELSE r]

\* A new request of an allowed kind.
Arrives(c, kind) ==
    /\ kind \in Requests /\ At(c, "idle") /\ requests < MaxRequests
    /\ requests' = requests + 1
    /\ UNCHANGED <<day, raw, block, round, faults, unbilled, uncharged>>

\* Pause and resume of a node read its row, then the project's, set the rule and
\* store the pause last.
PauseTraffic(c, n, pause) ==
    /\ Arrives(c, "pause")
    /\ SetCall(c, [Idle EXCEPT !.pc = "policy", !.node = n, !.on = pause, !.next = "pause",
                               !.pause = pause, !.undo = row[n].paused])
    /\ UNCHANGED <<running, row, baseline, project>>

\* The next sample takes the counter as it is for its baseline.
ResetTraffic(c, n) ==
    /\ Arrives(c, "reset")
    /\ row' = [row EXCEPT ![n] = FreshRow(day, row[n].quota, row[n].day)]
    /\ baseline' = [baseline EXCEPT ![n] = None]
    /\ SetCall(c, [Idle EXCEPT !.pc = "policy", !.node = n])
    /\ UNCHANGED <<running, project>>

\* Only stores: the next sample applies it.
SetQuota(c, n, quota, resetDay) ==
    /\ Arrives(c, "quota")
    /\ row' = [row EXCEPT ![n].quota = quota, ![n].day = resetDay]
    /\ UNCHANGED <<running, baseline, project, call>>

PauseProjectTraffic(c, pause) ==
    /\ Arrives(c, "projectPause")
    /\ SetCall(c, [Idle EXCEPT !.pc = "list", !.on = pause, !.next = "pauseProject",
                               !.pause = pause, !.undo = project.paused])
    /\ UNCHANGED <<running, row, baseline, project>>

ResetProjectTraffic(c) ==
    /\ Arrives(c, "projectReset")
    /\ project' = FreshRow(day, project.quota, project.day)
    /\ SetCall(c, [Idle EXCEPT !.pc = "list"])
    /\ UNCHANGED <<running, row, baseline>>

SetProjectQuota(c, quota, resetDay) ==
    /\ Arrives(c, "projectQuota")
    /\ project' = [project EXCEPT !.quota = quota, !.day = resetDay]
    /\ SetCall(c, [Idle EXCEPT !.pc = "resample"])
    /\ UNCHANGED <<running, row, baseline>>

\* Start, and an edit of the node, end by bringing the firewall up to date.
StartNode(c, n) ==
    /\ Arrives(c, "start")
    /\ running' = running \cup {n}
    /\ SetCall(c, [Idle EXCEPT !.pc = "sync", !.node = n])
    /\ UNCHANGED <<row, baseline, project>>

EditNode(c, n) ==
    /\ Arrives(c, "edit")
    /\ SetCall(c, [Idle EXCEPT !.pc = "sync", !.node = n])
    /\ UNCHANGED <<running, row, baseline, project>>

\* Stop unblocks the port.
StopNode(c, n) ==
    /\ Arrives(c, "stop")
    /\ running' = running \ {n}
    /\ SetCall(c, [Idle EXCEPT !.pc = "block", !.node = n])
    /\ UNCHANGED <<row, baseline, project>>

Requested(c) ==
    \/ \E n \in Node :
         \/ \E pause \in BOOLEAN : PauseTraffic(c, n, pause)
         \/ ResetTraffic(c, n)
         \/ \E q \in Quota, d \in ResetDay : SetQuota(c, n, q, d)
         \/ StartNode(c, n) \/ StopNode(c, n) \/ EditNode(c, n)
    \/ \E pause \in BOOLEAN : PauseProjectTraffic(c, pause)
    \/ ResetProjectTraffic(c)
    \/ \E q \in Quota, d \in ResetDay : SetProjectQuota(c, q, d)

-----------------------------------------------------------------------------
(* The steps of a request after its first.                                  *)

callElse == <<day, running, baseline, raw, round, requests, unbilled, uncharged>>

\* The call of the agent's SetBlocked.
CallBlock(c) ==
    /\ At(c, "block")
    /\ SetBlocked(call[c].node, call[c].on)
    /\ SetCall(c, [call[c] EXCEPT !.pc = call[c].next])
    /\ UNCHANGED <<callElse, row, project, faults>>

\* Mutant of CallPause: what made the pause is not stored.
CallPauseOnly(c) ==
    /\ At(c, "pause")
    /\ row' = [row EXCEPT ![call[c].node].paused = call[c].pause]
    /\ SetCall(c, Idle)
    /\ UNCHANGED <<callElse, project, block, faults>>

CallPause(c) ==
    /\ At(c, "pause")
    /\ row' = [row EXCEPT ![call[c].node].paused = call[c].pause, ![call[c].node].byQuota = FALSE]
    /\ SetCall(c, Idle)
    /\ UNCHANGED <<callElse, project, block, faults>>

\* syncNodeTrafficPolicy reads the row of the node, and then that of the project as
\* pause, resume and reset do.
CallSync(c) ==
    /\ At(c, "sync")
    /\ SetCall(c, [call[c] EXCEPT !.pc = "policy", !.on = row[call[c].node].paused])
    /\ UNCHANGED <<callElse, row, project, block, faults>>

CallPolicy(c) ==
    /\ At(c, "policy")
    /\ SetCall(c, [call[c] EXCEPT !.pc = "block", !.on = @ \/ project.paused,
                                  !.undo = @ \/ project.paused])
    /\ UNCHANGED <<callElse, row, project, block, faults>>

\* A new project quota is applied at once, by a sample of nothing.
CallResample(c) ==
    /\ At(c, "resample")
    /\ project' = Charge(project, 0)
    /\ SetCall(c, IF project'.paused = project.paused THEN Idle
                  ELSE [Idle EXCEPT !.pc = "list", !.on = project'.paused])
    /\ UNCHANGED <<callElse, row, block, faults>>

\* SetProjectBlocked of the agent: the nodes and their rows first, then a rule at
\* a time.
CallList(c) ==
    /\ At(c, "list")
    /\ SetCall(c, [call[c] EXCEPT !.pc = IF running = {} THEN call[c].next ELSE "all",
                                  !.todo = running,
                                  !.held = {n \in Node : row[n].paused}])
    /\ UNCHANGED <<callElse, row, project, block, faults>>

CallAll(c, n) ==
    /\ At(c, "all") /\ n \in call[c].todo
    /\ SetBlocked(n, call[c].on \/ n \in call[c].held)
    /\ SetCall(c, [call[c] EXCEPT !.todo = @ \ {n},
                                  !.pc = IF call[c].todo = {n} THEN call[c].next ELSE "all"])
    /\ UNCHANGED <<callElse, row, project, faults>>

CallPauseProject(c) ==
    /\ At(c, "pauseProject")
    /\ project' = [project EXCEPT !.paused = call[c].pause, !.byQuota = FALSE]
    /\ SetCall(c, Idle)
    /\ UNCHANGED <<callElse, row, block, faults>>

Called(c) ==
    \/ CallBlock(c) \/ CallPause(c) \/ CallSync(c) \/ CallPolicy(c) \/ CallResample(c)
    \/ CallList(c) \/ CallPauseProject(c) \/ \E n \in Node : CallAll(c, n)

\* The database refuses the pause: the rule is put back.
CallUndo(c) ==
    /\ Fault
    /\ call[c].pc \in {"pause", "pauseProject"}
    /\ SetCall(c, [call[c] EXCEPT !.pc = IF At(c, "pause") THEN "block" ELSE "list",
                                  !.on = call[c].undo, !.next = "idle"])
    /\ UNCHANGED <<callElse, row, project, block>>

\* One rule of SetProjectBlocked fails: the others are set, then it is an error.
CallSkip(c, n) ==
    /\ Fault
    /\ At(c, "all") /\ n \in call[c].todo
    /\ SetCall(c, [call[c] EXCEPT !.todo = @ \ {n}, !.next = "idle",
                                  !.pc = IF call[c].todo = {n} THEN "idle" ELSE "all"])
    /\ UNCHANGED <<callElse, row, project, block>>

\* Any other failure ends the request, as a crash of the web process does.
CallAbort(c) ==
    /\ Fault
    /\ ~At(c, "idle")
    /\ SetCall(c, Idle)
    /\ UNCHANGED <<callElse, row, project, block>>

-----------------------------------------------------------------------------
(* The world.                                                               *)

Tick ==
    /\ day < MaxDay
    /\ day' = day + 1
    /\ UNCHANGED <<running, row, baseline, project, raw, block, round, call, requests, faults,
                   unbilled, uncharged>>

\* A byte through the port of n.
Pass(n) ==
    /\ raw[n] # None /\ raw[n] < MaxBytes
    /\ raw' = [raw EXCEPT ![n] = @ + 1]
    /\ unbilled' = [unbilled EXCEPT ![n] = @ + 1]
    /\ UNCHANGED <<day, running, row, baseline, project, block, round, call, requests, faults, uncharged>>

\* The rules of n are gone: the table was flushed, the host restarted, or the
\* port of the node changed.
RulesLost(n) ==
    /\ Fault
    /\ raw' = [raw EXCEPT ![n] = None]
    /\ block' = block \ {n}
    /\ UNCHANGED <<day, running, row, baseline, project, round, call, requests, unbilled, uncharged>>

Sampler ==
    \/ SamplerList \/ SamplerRead \/ SamplerProject
    \/ \E n \in Node : SamplerSample(n) \/ SamplerBlock(n)

Next ==
    \/ Sampler
    \/ SamplerAbort
    \/ \E n \in Node : SamplerSkip(n) \/ SamplerUnread(n) \/ Pass(n) \/ RulesLost(n)
    \/ \E c \in Caller : Requested(c) \/ Called(c) \/ CallUndo(c) \/ CallAbort(c)
    \/ \E c \in Caller, n \in Node : CallSkip(c, n)
    \/ Tick

Spec == Init /\ [][Next]_vars

\* The sampler's ticker fires again and again, and a call returns.
FairSpec == Spec /\ WF_vars(Sampler) /\ \A c \in Caller : WF_vars(Called(c))

-----------------------------------------------------------------------------
(* Properties.                                                              *)

\* "Protects against counter resets" (store.go:297): no byte is billed twice,
\* whatever rules are recreated, rows reset or samples lost in between.
NeverOvercounts == \A n \in Node : unbilled[n] >= 0

\* The project is charged only "the deltas already durably accepted by the
\* per-node sampler" (store.go:244), each at most once.
ProjectWithinNodes == uncharged >= 0

\* Only a resume or a reset of the node ends a manual pause: no sample, no new
\* period, no quota and no step of the project does.
ManualPauseSticks ==
    [][\A n \in Node : row[n].paused /\ ~row[n].byQuota /\ ~(row'[n].paused /\ ~row'[n].byQuota)
         => \E c \in Caller : call[c] # call'[c] /\
              \/ At(c, "pause") /\ call[c].node = n /\ ~call[c].pause
              \/ At(c, "idle") /\ call'[c].pc = "policy" /\ call'[c].next = "idle" /\ call'[c].node = n]_vars

\* The firewall ends up with the policy of the database, whichever way samples,
\* requests, failures and lost rules interleaved.
PolicyReachesKernel ==
    \A n \in Node : <>[](n \in running) => <>[](n \in block <=> row[n].paused \/ project.paused)

\* "A node that reaches its quota is paused automatically" (USER_GUIDE.md:354),
\* also when it was resumed by hand or the quota was lowered.
QuotaEnforced ==
    \A n \in Node : <>[](n \in running /\ Over(row[n])) => <>[](n \in block)

\* "... and resumed in the next billing period": a pause of an earlier period is
\* lifted by itself while the node runs.
NextPeriodResumes ==
    \A n \in Node : row[n].byQuota /\ NewPeriod(row[n]) ~> ~row[n].byQuota \/ n \notin running

\* "Pause: blocks the node's public port immediately" (USER_GUIDE.md:350): once
\* nothing is under way, a node paused by hand is blocked.
PauseHolds ==
    round.pc = "idle" /\ (\A c \in Caller : At(c, "idle"))
        => \A n \in running : row[n].paused /\ ~row[n].byQuota => n \in block
=============================================================================
