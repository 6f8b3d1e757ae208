# A formal model of the proxy panel

This directory models the parts of the panel in which something can go wrong that
no test would easily show: the root agent that supervises the protocol processes;
the accounting that turns kernel and VPN counters into bills, quotas and firewall
rules; the requests that create, edit and import nodes; and the components that keep
their state on the host: firewall rules, passwords and sessions, backups, binaries,
certificates and configurations, address lists. The modules are TLA+, checked with
TLC on small instances and, but for liveness, proved with TLAPS for every value of
the constants.

Paths below are relative to `src/internal/` unless they say otherwise; SPEC is
`src/DEVELOPMENT_SPEC.md`.

## 1. The system

Two processes share a SQLite database (WAL, one writer at a time) and talk over a
Unix socket.

* **panel-web** serves the HTTP API (`api/`). A handler runs in a goroutine of its
  own, writes rows, and calls the agent with an RPC deadline of 4 s (2 or 3
  minutes for applying, assets and installs). It may die between any two of these.
* **panel-agent** runs as root (`agent/`). Each RPC has its own goroutine, each
  protocol process one that waits for it, each pending restart one that sleeps; a
  ticker goroutine samples traffic every 30 s and reconciles every 180 s.
  `Manager.mu` guards only the map of processes; nothing serialises a request as a
  whole, and nothing serialises the two processes with each other.

### Inventory

| Component | State | Operations | What is hard | What makes it correct |
|---|---|---|---|---|
| Process manager `agent/manager.go`, `agent/server.go` | `processes` map, `closed`, per process `state`, `restarts`, `stopping`, `exited`; columns `desired_state`, `state` | Start, Stop, Restart, Apply, wait, back-off, Reconcile, Shutdown | the lock is released inside Restart, Apply, Reconcile and Shutdown; delayed goroutines act on a map that has moved on | one process per node; stopped means stopped, wanted means running; backend before front; giving up is final; every call returns |
| Node and project traffic `traffic/store.go`, `agent/manager.go` 544-649, handlers | `traffic_counters`, `traffic_samples`, `project_traffic`, nftables counters and block rules | SampleTraffic, SetProjectBlocked, quota/pause/resume/reset handlers | three owners (kernel, agent, web) without a common transaction; counters that restart; period changes | no byte billed twice; a manual pause is only ended by hand; the firewall follows the database; quotas are enforced and expire |
| AnyConnect account traffic `traffic/store.go` 372-443, `agent/manager.go` 484-540 | `anyconnect_user_traffic`, `anyconnect_user_samples`, ocserv sessions | SampleAnyConnectTraffic, SetUserQuota, ResetUser, TerminateUser | sessions come and go under a cumulative counter; two samplers | no byte billed twice; paused exactly when over quota; over quota means disconnected |
| Firewall `firewall/firewall.go` | rules tagged by node, network and port; the DOCKER-USER or FORWARD chain | SetBlocked, EnsureAccounting, CleanupUnknownAccounting, EnsureVPN, RemoveVPN, Cleanup | every rule is a command of its own; rules outlive the agent; tags that do not name everything | an operation replaces its own rules and no others; a running VPN node has rules for its pool |
| Node repository `nodes/` | `nodes`, `node_configs`, `config_revisions`, `secrets` | Create, Update, Delete, SetDesired, UpdateRuntime, account CRUD | checks outside the transaction they protect | no two nodes on one port; revisions without gaps; a front's backend exists |
| Node handlers `api/server.go` 308-466 | none | create, update with rollback, delete, apply | a rollback of several steps that may fail one by one | a failed edit leaves the old node, also running |
| Import and accounts `api/sync.go`, `api/server.go`, `nodes/anyconnect.go` | `anyconnect_users` with their quotas | import of a file, create, update and delete of an account with rollback | many statements without a common transaction, lists that are old when used | the file is merged and nothing else is touched; a failed change is undone |
| Authentication `auth/` | `auth_state`, `sessions`, limiter map | Login, Authenticate, ChangePassword, Logout, Allow/Failure | slow verification between read and insert | a changed password ends every old session |
| Backup `backup/` | archives, configuration trees, database | Create, Prune, Restore | several renames, then the database | a restore is complete or undone; what it replaced is in a backup |
| AnyConnect files `anyconnect/assets.go`, `generate.go` | certificate versions, link, record; configuration, last good copy | Ensure, refresh, install, prune, PrepareConfig, RollbackConfig | symlink swaps and renames in goroutines without a lock | there is always a usable version, and the one in use is the newest that works |
| AnyConnect network `anyconnect/network.go` | none | complement, collapse, overlap, selection of prefixes | edges of the address space | equality of address sets |
| Runtimes `runtime/`, `api/runtime_upload.go` | binaries, checksums, versions of nodes | Install, InstallUploaded, applyRuntimeToNodes | a swap by two renames; a loop over nodes that may fail in the middle | a binary is there or the old one is; all nodes move or none |
| Logs `agent/manager.go` 774-854 | log files and archives | appendLog, MaintainLogs | rotation while writing | bounded size, newest lines kept |
| Database, secrets, settings, config, configgen, metrics, UI, packaging | | | | storage engine, text generation, presentation |

## 2. Modules

| Module | Contents |
|---|---|
| `Supervisor`, `MCSupervisor`, `SupervisorProofs` | the process manager and its environment |
| `Traffic`, `MCTraffic`, `TrafficProofs` | node and project traffic, the sampler, the handlers, the firewall's effect |
| `UserTraffic`, `MCUserTraffic`, `UserTrafficProofs` | account traffic |
| `NodeStore` | the tables of nodes and their revisions: checks, constraints, transactions |
| `NodeHandlers`, `MCNodeHandlers`, `NodeHandlersProofs` | the requests over `NodeStore`, which it extends |
| `Login`, `PanelProofs` | password, sessions, limiter |
| `RuleTable` | what a firewall operation promises: an abstract specification |
| `Firewall`, `FirewallProofs` | the firewall's commands, and that they implement `RuleTable` |
| `Backup`, `PanelProofs` | backups and restores |
| `Upgrade`, `PanelProofs` | installs of a binary, and the nodes moved to it |
| `VpnFiles`, `AnyConnectProofs` | certificates and configuration of one AnyConnect node, and the Apply around them |
| `Accounts`, `AnyConnectProofs` | AnyConnect nodes with their accounts: import, changes, rollback |
| `Cidr`, `AnyConnectProofs` | from an address list to routes |
| `MCHost`, `HostProofs` | one instance of the seven components that share no state, from `Login` to `Cidr` |

The operators whose comment begins with "Mutant" are variants of the definition
that follows or precedes them; the specification never uses them. Each one
is a plausible bug that a named property detects.

### Supervisor

| Model | Code |
|---|---|
| `desired`, `runtime` | columns `desired_state` and `state` (`nodes/store.go` 336-355) |
| `procs`, `managed` | the `process` records and the map `processes`; a pid is an identity that is reused when no goroutine, timer or entry refers to it |
| `mode`, `signalled` | `closed`, and how far Shutdown's loop has come |
| `op` | where a goroutine is in Start, Stop, Apply or Restart between two critical sections |
| `queue` | the nodes Reconcile has listed and not looked at |
| `broken` | nodes whose binary is missing or whose configuration cannot be made |
| `StartLocked`, `StartOne`, `Spawn` | `startLockedWithRestarts`, whose recursion is one level deep because a backend has no backend |
| `Wait`, `Settled`, `BackoffFire`, `KillTimer` | the goroutine of `wait`, its restart goroutine, the timer of Stop |
| `RestartStop`, `RestartPoll`, `RestartLaunch`, `Apply`, `ApplyFails`, `Failed`, `Returned`, `ApplyRecord` | Restart and Apply, cut where they release the lock; `by` tells the first restart of an Apply from its fallback; an Apply of an AnyConnect node (`AnyConnect`) writes its state column itself |
| `ReconcileList`, `ReconcileNode`, `ReconcileReport` | the loop of Reconcile |
| `ShutdownBegin`, `ShutdownStop`, `ShutdownExit`, `Crash`, `Boot` | the end of the agent and its restart by the container |
| `ReqStart`, ..., `RpcLost` | the API handler: database first, agent afterwards, possibly never |

One action is one critical section of `Manager.mu`. Reads of the desired state
inside a critical section are in the same action: the column is written by another
process, but only its value at that read matters. Delays are abstracted to "any
moment later", so a proof or a run covers every timing, the code's included.
A pid is free again once its process is forgotten, so that a restart may get the pid of
its predecessor: what a step has *started* is told by the process that was not live
before and is afterwards (`Started`), never by a changed entry of the map.

### Traffic

`row`, `baseline` and `project` are the three tables; `raw` is the nftables counter
(None without a rule) and `block` the set of nodes with a reject rule. `round` is a
round of `SampleTraffic` between its transactions, `call` a request between its
calls. `Charge` is the common body of `Sample` and `SampleProject`: new period,
bytes, quota. `SamplerRead` merges EnsureAccounting, CleanupUnknownAccounting and
ReadAccounting, which exclude each other and handlers by `nftMu`; a rule lost in
between gives the same sample (zero) as one lost just before. `SamplerUnread` is the branch
of a round for a node it could not sample: its row is read again for the verdict, and when
that fails as well the node counts as one that is not paused. Pause and resume read the
node's row, then the project's (`CallPolicy`), then set the rule. `ResetProject` reads
the reset day in a statement of its own; the model takes both statements as one.
`unbilled` and `uncharged` are not in the code: they count the bytes that passed
and were not billed, and those billed and not charged to the project.

### UserTraffic

The same for accounts, with two differences in the code that matter: a counter
below its baseline adds nothing (a session ended), and `SetUserQuota` decides the
pause at once. `Sampler` is a constant: `{ticker}`, or `{ticker, panel}` because
the panel's list of accounts runs the sampler as well. `sent` and `billed` are not
in the code.

### NodeStore and NodeHandlers

| Model | Code |
|---|---|
| `node`, `revisions` | `nodes` joined with `node_configs`; `config_revisions`, whose rows outlive their node |
| `Clash`, `Conflict`, `BackendOK` | `checkConflict` with the VPN pools, which are sets of addresses and clash when they overlap, `checkBackend`: statements before the transaction |
| `Unique`, `Foreign`, `NewRevision` | the constraints that SQLite checks in the transaction |
| `CreateNode`, `UpdateNode`, `DeleteNode` | a request arrives; `updateNode` notes the old row and the ShadowTLS nodes in front of a node whose endpoint changes; `deleteNode` has stopped the node before it checks anything |
| `Check`, `ReadRevision`, `CommitCreate`, `CommitUpdate`, `CheckDelete`, `DeleteRow` | the statements of `Store.Create`, `Update` and `Delete` in their order |
| `ApplyNode`, `ApplyDependent`, `Undone`, `Answer` | the Applies of `updateNode`, and its rollback: the old row through `Store.Update` again, then the same nodes, errors ignored |
| `Maintain` | hourly maintenance: revisions beyond `KeepRevisions`, and secrets that no row names *yet* |
| `RestartFront` | the agent restarts a ShadowTLS process and renders its backend's address anew |

`applied` is what the agent has last rendered for a node, `None` when a delete has stopped it. `overlapped` is not in the
code: it remembers that two requests were in progress at once, because the checks
before the transactions protect only requests that are not (hazards list).

### Login

`Allow`, `ReadPassword`, `Reject`/`OpenSession` are the steps of a login: the limiter,
the read of the password row under `loginGate`, and what follows the slow
verification. `ChangePassword`, `ResetPassword` (the command line, another process)
and `RestoreAuth` are transactions that delete the sessions; `late` marks a login
that had read the password before one of them. `WindowEnds` and `BlockEnds` are the
clock of the limiter's one entry.

### RuleTable and Firewall

`RuleTable` is abstract: an operation asks for the rules of some owners, and each
owner's rules are replaced in one step, or are left partly old and partly new when
something fails. `Firewall` is the code: `List` is the listing of `syncTagged`,
`DeleteRule` and `AddRule` its single `nft` or `iptables` commands, `Fail` a command that fails
(RemoveVPN goes on, everything else returns), `Die` the end of the agent. The
refinement mapping shows an owner's rules as they were listed until its last command
has succeeded: from outside, an owner's rules change at once. `body` is the address pool
the rules name, which their tags do not. `up` is the pool a node runs with and `leaked`
marks nodes whose VPN rules a failure or a death has left behind.

### Backup

Data is abstracted to the version it is of: `data` holds those of the database,
`config/` and `anyconnect/`. `StartJob`, `ArchiveFiles`, `Register` are `Create`; a backup
gets its place in the order when it is registered, where the code dates it, so that the
one that was begun first may be the newer. `PruneList` is the one list `Prune` reads,
`Prune` and `FailPrune` its loop, which other requests overtake;
`CheckArchive` to `Tidy` are `Restore` rename by rename (`aside` is
`*-before-restore`), after the backup it takes first; `Undo` is what its error paths
put back, by the step that failed; `DiePanel` is a death between two steps. `pre` and
`disturbed` are not in the code: the backup taken first by the last restore that found
whole data, and that more has happened than edits and one restore at a time.

### Upgrade

A file is named by the install that wrote it, whatever path it has:
`path` maps the candidate, the target and `target.previous`. `ClearCandidate` to
`WriteRecord` are Install and InstallUploaded; `ListNodes` to `EndUpgrade` are
`applyRuntimeToNodes`, which writes each row as its list has shown it. `Deferred` is
the removal of the candidate when InstallUploaded returns, which Install lacks.

### VpnFiles

One AnyConnect node. `Download` to `Record` are `RefreshCertificates`, with the
candidate link, the switch by rename and the pruning. A restored backup has a directory
where the link was (`copied`), because archives hold files and not links: `Switch` finds it,
`Unseat` removes it, and `Switch` then renames the link into its place. `ClearLastGood` to
`PlaceConfig` are `PrepareConfig`; `Check`, `RestartServer`, `SetAside`, `BringBack`
and `RestartAgain` are `Manager.Apply` for AnyConnect with `RollbackConfig`, where the
second restart may fail as well and nobody looks at its error;
`EndFailed` is the handler that stores the old row and applies it. A plan stands for
a row with its accounts, and `Rejected` are those `ocserv --test-config` refuses.

### Accounts

`BeginImport`, `ImportNode`, `ListUsers`, `ImportUser`, `PruneUser`, `ImportApply` are
the import, statement by statement: all nodes, then the accounts of each, then the
Applies. An account and its quota are two statements there; they are one step, but for
the failure of the second (`WithoutQuota`). `BeginChange` to `Reapply` are create, update
and delete of an account with the rollback when the Apply fails; `UndoChange` may fail,
because it runs on the context of a request whose client may be gone, and its error is
dropped. `DeleteVpn` is `deleteNode`. `import.before` and
`change.before` are what a property compares with.

### Cidr

`Read`, `Exclude`, `CheckList`, `Merge`, `Choose` are the stages of `ParseChinaCIDRs`;
`Blocks` is `rangeToPrefixes`, `Without` is `subtractPrefix`, `Excluded` the loop of
`excludeSpecialUsePrefixes`, `Fits` the checks between the stages and `Separate` the
one among them that compares neighbours. Recursion and loops over data are recursive
functions, so that they can be proved about. The code sorts lists and drops
duplicates; the model has sets and the order `Before`. `Longest` and `Collapsed` are not
in the code: they say in terms of addresses what collapsing should yield, and
`RoutesExact` states the result with them. A source whose records cannot be read, or run
past the last address, is refused before `Read` and not in `CidrInit`.

### MCHost

Each behaviour chooses one of the seven components (`which`) and keeps the others in
an initial state of theirs that does not change, so the states add up and do not multiply,
and all of them are explored in one run. `VpnFiles` begins with one of its two valid plans,
which nothing tells apart, and with a link or a restored directory. The sets of interchangeable values are the same two (`r1`, `r2`
and `x1`, `x2`) in all components, so that one symmetry serves them all.

## 3. Runs

| Run | Instance | Shows |
|---|---|---|
| `sup_plain` | 1 AnyConnect node, 2 pids, 2 callers that stop or vanish, 3 restarts, 2 crashes, binary may go missing | `TypeOK`, `AtMostOneProcess`, `RuntimeHonest`, `FailedWaits`, `StartTakesEffect` |
| `sup_operator` | 1 node, 1 caller, all requests | `StopTerminates`, `CallsReturn` |
| `sup_chain` | a front and its backend, start, stop and restart, 1 shutdown | `ShutdownStopsAll`, `ShutdownFrontsFirst`, `BackendFirst` |
| `traffic_billing` | 2 nodes, one reset, stop, start or edit, 3 days in 2 months, 1 fault | `NeverOvercounts`, `ProjectWithinNodes` |
| `traffic_policy` | 1 node, two of all requests but edit, 2 periods, 1 fault | `TypeOK`, `ManualPauseSticks`, `PolicyReachesKernel`, `QuotaEnforced`, `NextPeriodResumes` |
| `user_billing` | 1 account, 1 sampler, 2 requests, 1 fault, 3 days | `TypeOK`, `NeverOvercounts`, `PausedIffOver`, `OverQuotaDisconnected` |
| `nodes` | a Snell node and two ShadowTLS nodes, 4 endpoints of which two clash, 2 requests that may overlap, maintenance, 1 fault, revisions up to 3 of which 2 are kept | `TypeOK`, `BackendServes`, `RevisionRecorded`, `RevisionsAdvance`, `PortsExclusive`, `AppliedIsStored` |
| `host` | the seven components of `MCHost`, each with one failure or death, two where the second may hit the repair of the first | see the next table |
| `sup_stop_undone`, `traffic_pause_lifted`, `user_double_billing`, `fw_vpn_pool` | the smallest instance that has the actors | a documented promise the code breaks, see section 5 |

| Component of `host` | Instance | Shows |
|---|---|---|
| `Login` | 2 browsers, 3 passwords, 5 logins, 3 changes, blocked after 2 failures | `SessionsCurrent` |
| `Firewall` | 1 node, 2 ports, 2 pools, 3 operations | `ImplementsTable`, `VPNServes` |
| `Backup` | 2 requests, 3 archives of which pruning keeps 1, 1 edit | `RestoreAtomic`, `RestorePrepared` |
| `Upgrade` | 2 installs of one version, 2 nodes, 1 edit | `BinaryKept`, `NodesMoveTogether` |
| `VpnFiles` | 2 certificates, 3 plans of which 1 is rejected, 2 refreshes or Applies, 2 rejections or failed restarts, 1 failure or death elsewhere, from a link or a restored directory | `CertificateTaken`, `ApplyRestores` |
| `Accounts` | 2 nodes, 2 names, 1 account each, one file of 1 or 2 items (1 when a request overlaps), 1 request, 2 failures | `ImportTaken`, `ChangeUndone` |
| `Cidr` | addresses of 4 bits, 2 reserved prefixes, all sources of at most 2 records | `RoutesExact` |

`HostTypeOK` is the type invariant of whichever component runs. The run has 1.85
million distinct states and takes about three minutes; `traffic_billing` has 1.60 million and
`traffic_policy`, with its liveness properties, 0.81 million.

**Why the bounds are enough.** Two pids are the smallest number that lets two
processes of one node coexist and lets an old process overlap with its successor;
with the chain the two are the front's and the backend's, and one waiting to be
reaped makes a start fail, which stands for a failing fork. Three restarts give a
run of failures with a reset in between; 6 in the code differs only in length. Two
nodes are needed for the project's sum and for a failure that hits one of them; two
concurrent requests of one kind write the same columns as two in sequence because
each is a single statement, so one caller against the sampler has all the
interleavings with different outcomes. One fault is enough for each step to fail
once, a crash in the middle included. An edit does what a start of a running node
does, so the policy run leaves it out. A counter goes to 1 or 2 (4 for accounts):
above, at and below its baseline and its quota. A month has two days and the
reset days are 1 and 2: both branches of `BillingPeriod`.

In `nodes` two requests are what it takes for a check to be overtaken, and the
rollback of one is a second update of its own; two ShadowTLS nodes make an Apply of
dependents fail between the first and the second. Two requests make at most two
commits, rollbacks apart, and the start state has one revision, so a limit of 2 kept
revisions is reached; `RevisionsAdvance` would fail if more revisions than maintenance keeps
(20) were committed *during* one request, which the bounds exclude. In `host`, two
installs, refreshes, requests or logins are what it takes to overlap; one failure per
behaviour hits each step in turn, and properties that promise to survive a single
failure say so in their premise (`mishaps <= 1`, `setbacks <= 1`, `bad + breaks <= 1`,
`refusals <= 1`); `VpnFiles` and `Accounts` have two of a kind, so that the second restart of an
Apply and the statement that undoes a request fail too, and their properties say what is
left then; the firewall has three operations: a start, its removal and a start with another pool;
with 4 bits, prefixes are halved up to four times and runs merge across prefixes of
different sizes, and the limits (a list of at least 2, at most 3 routes) are met and missed.

**Deadlock** is checked in every run but `host` and `fw_vpn_pool`: their requests are
bounded in number and all end, after which nothing is left to do.

**Symmetry** is used for pids (`sup_chain`), nodes (`traffic_billing`), ShadowTLS
nodes, names and requests (`nodes`), and the values shared by the components of
`host`, all of which are interchangeable, and only in runs without liveness; the CHOOSE of a pid
takes an unused one, and nothing tells those apart.

**Fairness.** `Supervisor`: goroutines and timers run (weak fairness of each
actor's calls, of Reconcile, Shutdown, back-off, kill timer and wait), a killed
process dies, and the container restarts the agent. No process is assumed to exit
by itself or on SIGTERM, no request to arrive, no binary to be repaired.
`Traffic` and `UserTraffic`: the ticker fires again and again, and calls return (they have
deadlines). Faults are bounded, so liveness is shown for what follows the last one.
The other modules state safety only: their requests end because each is a finite
sequence of calls with deadlines.

## 4. Proofs

All theorems hold for every value of the constants allowed by the named assumptions
of the modules (`SupervisorAssumption`, ..., `UpgradeAssumption`): any number of nodes,
requests, workers, installs, any bounds. `NodeStoreAssumption` and `AccountsAssumption`
include that `None` is no row and `Nobody` no account, which only rules out a strange
choice of the constants. What else a theorem presupposes stands in its statement:
`Unattended`, `PlainUnattended`, `SingleSampler` and `[]HistoryLong`, each explained
below.

**SupervisorProofs.** `TypeCorrect`: `TypeOK` is inductive; a pid's record says
that a back-off belongs to an exited process and that restarts stay within the
delay table. Three more hold for any nodes and requests. `BackendComesFirst` uses
`Entries`: the map's entry of a node is a process of that node. It speaks of every
process a step has started, restarts under the pid of the process before included, and follows
the step of `StartLocked`: the front is started only when the backend is attached
already or was started with it, and neither start takes the other's entry away. `ShutdownLeavesNone` and
`ShutdownKeepsOrder` use `ShutdownInv`: `Entries`, `ShutdownStopsAll` itself
(inductive with it), and `FrontsSignalled`, that no backend is signalled while a front
is not. Three are for nodes that nobody starts by hand: `ForemostRunsOnce`,
`ForemostStaysFailed` and `ForemostHonest` assume `Unattended` (callers only stop nodes
or vanish; any node may have any backend) and speak of the nodes that are no other's
backend (`Foremost`), ShadowTLS nodes included. Their invariant `UnattendedInv` adds
`Matched` (of such a node, every process that has not been waited for and every pending
back-off is the map's entry; this makes the map the only way to a process),
`ReconcileAlone` (Reconcile applies such a node only while it has no entry) and
`CallersOnlyStop`; `HonestInv` adds that a manager that has not crashed is up. That
backends come and go beneath such a node is covered by `Spares`: what a start of one
node, with its backend, leaves alone of the others. `NeverTwoProcesses`, `FailedStays`
and `StateHonest` are the same under `PlainUnattended`, where no node has a backend and
so every node is meant; these state the properties of the run `sup_plain`.
`AtMostOneProcess` alone is not inductive: from a state with a back-off outside the map
the next start makes two. The exclusions are needed: a backend is started by the front
that needs it, which like a start by hand may overtake the back-off of the node, and
the code then loses a process.

**TrafficProofs.** `TypeCorrect`, `BilledOnce`, `ProjectChargedOnce`. The invariant
is `Covered`: what the pending snapshot would bill, and afterwards the counter
above that snapshot, together are at most what is unbilled, whatever is reset or
lost first; and `SumCovered`: the round's sum is at most what is uncharged.
`PauseByHandStays` is an action property and needs only `TypeOK` and the lemma
`ChargeKeepsManual`: no billing, in whatever period, ends a manual pause.

**UserTrafficProofs.** `TypeCorrect` and `PauseIsQuota` (for any number of
samplers) from `RowsInv`; `BilledOnce` with `SingleSampler`, from the analogue of
`Covered`. With two samplers it is false, which `user_double_billing` shows.

**NodeHandlersProofs.** `HandlersTypeCorrect` and `BackendAlwaysServes`, for any number
of concurrent requests, from `HandlersInv`: a request for a ShadowTLS node carries
a backend of the right type, in what it writes and in what its rollback would write;
that the backend still exists when it is written is the foreign key, that it stays
is the reference count of a deletion. `PortsStayExclusive` from `Exclusive`: while no two
requests have overlapped, one is in progress at most, and after its check what it is
about to write clashes with nothing.

`RevisionIsRecorded` (the row's revision is recorded once, and is the newest on record) and
`EditsAdvance` from `History`: for some number `m` of each node
its revisions are rows of `1 .. m`, the newest `KeepRevisions` of them are there, once, the row is
at `m`, and no request that has read the revision has read more than `m`. What a fast
request has committed meanwhile then collides with the unique index. This is only
so while the index still knows it: maintenance deletes all but the newest
`KeepRevisions` (20), and an edit that slept through more commits than that finds no
row in its way and stores an old number again. Both theorems therefore assume
`[]HistoryLong`: no edit that is about to commit has been overtaken by more than
`KeepRevisions` commits since its read. That is a condition on how long one request
lasts, not on how many there are. `FewRevisionsSuffice` proves that it holds of
every behaviour in which `MaxRevision <= KeepRevisions + 1`, which the run satisfies, so
the run checks the same statement.

`StoredIsApplied` from `Orderly`, about requests that are alone and at most one fault: the
tables are such that the row an edit replaced could be written again (`Edit`: its
port is still free, its backend still fits), so that a rollback is never refused; a node
outside `deps` is `Settled`, it runs with what is stored; and until something fails, what the
edit has not reached runs with what it ran with before (`Unspoilt`). Found on the way: `CreateNode`
must not choose an id of which revisions remain or that another request is using. In
the code ids are random; the model now says so in the guard.

**PanelProofs.** `LoginTypeCorrect`, `SessionsStayCurrent`. The invariant says of a login
that is about to write its session what the property says of sessions
(`LoginsCurrent`), and that must_change_password marks exactly the default password.

`BackupTypeCorrect` (with `KnownJob`: a request past its backup has
one). `RestoreAllOrNothing` from `Sound`: as long as nothing comes between, one restore is
in progress, and live and aside data are what its steps so far have made of whole data
(`Under`). `RestoreIsPrepared` from `Outdated` (what the pruning in progress has listed is
older than `KeepBackups` others, then and later) and `Prepared`: only a restore
damages data, its backup holds what they were (`Taken`), and pruning cannot reach it before
`KeepBackups` newer ones (`Kept`).

`UpgradeTypeCorrect`; `BinaryNeverLost` from `Steady`: the candidate is
the one install's own until it is placed, and whatever is at target or
`target.previous` is a complete file; `NodesStayTogether` from `Together`: while an
install moves nodes, those it has not changed are as its list has shown them and
those it has done run the new version (`Moves`).

**FirewallProofs.** `FirewallTypeCorrect`; `FirewallImplementsTable`, the refinement: each
command is a stutter of `RuleTable`, `Served` is its `Serve`, and `Fail`, `Die`,
`Finish` and `Cleanup` are its `Abort`, `End` and `Clear`. The invariant is `OpSound`: one
owner is at work, and its rules lie between those listed and those wanted
(`Between`). `VPNRulesFollowPool` from `VPNInv`: an operation on the VPN rules of one node
is about nothing else (`Purpose`), and a node no failure has touched (`Ready`) is
`Bare`, `Serving`, or in between, as far as `Removing` or `Adding` says. `Bare` is what
makes it work: since the tags do not name the pool, a rule that is already there is kept,
and only a start that finds none is right.

**AnyConnectProofs, `VpnFiles`.** `VpnTypeCorrect` (a goroutine past its download has a
certificate, one past the edit a plan, and pruning never takes the last version).
`CertificateIsTaken` from `Linked`: as long as no two goroutines overlap, one is at work;
a link leads to an installed version, and a restored directory is only ever removed by a
refresh that has its link ready; from there to the record the fingerprint lags behind the
certificate, and at no other time; what is pruned is never what the link leads to (`Leads`).
`ApplyIsRestored` from two invariants. `Recovering` tells for each place of an Apply which
plan is in the database, in the target, in `.last-good` and in the server, as long as
nothing breaks (`ServerRuns`), and when the server may be off instead (`Serves`). `Startable` speaks of one failure or death and no rejected plan:
each of the two copies is good or missing, and both are missing only between the
two renames of the Apply that is about to put the new one in place. `ApplyRestores`
alone says nothing of the steps between, and is not inductive.

**AnyConnectProofs, `Accounts`.** `AccountsTypeCorrect`. `ChangeIsUndone` from `Asked`: what the
request has stored so far is a function of what it found (`Stored`, `Back`), the first
Apply that fails uses up one refusal, and what it stored stays only where the statement
that undoes it has used up another. `ImportIsTaken` from two more. `Deployed`:
without a refusal a node the import has applied is in use, but for the time in which a
request has stored an account and not yet applied it; this is what survives an overlap.
`Merging`: without an overlap, at each step of the import the nodes before
`import.next` have the accounts they should have (`Due`), those after it the ones
they had (`Had`), and the one in the middle has one or the other account by account,
as `import.left` says. The premise `IsInjective(import.local)`, that no two items lead to one node,
is part of the property; two items of one name do lead to one node, and then the second one
rightly overwrites the first.

**AnyConnectProofs, `Cidr`.** `CidrTypeCorrect`, and `RoutesAreExact`: whatever the width of
addresses, the special-use prefixes and the limits, a list that is accepted routes what
the source lists and is public, and nothing else. The invariant `CidrInv` says which
addresses the prefixes cover at each stage (`Covered(routes) = FromSource`, then
`Public`, then `Collapsed(Public)`). The work is in lemmas about the functions:

* `LeastNumber` and `Succession` (induction over the naturals) come from the library's
  theorem that the order of the naturals is well-founded, and `Recursion` from them: a
  function whose body looks only at arguments of smaller measure exists and satisfies
  its equation. `Pow`, `Blocks`, the halving in `Without` and the loop in `Excluded`
  are instances, so what they compute is proved for every input.
* `Laminar`: two prefixes are disjoint or nested. It makes `Contains` of a first address,
  the only test the code has, a test for overlap.
* `BlocksCover`: the blocks of a range are disjoint and cover it; `WithoutCovers`,
  `ExcludedCovers`: what is left of prefixes covers what is not excluded.
* `NeighboursSuffice`: comparing each prefix of the sorted list with the next one finds
  every overlap.
* `RunsAreLongest`: the runs `collapsePrefixes` finds are the longest ranges of covered
  addresses, and `CollapsedCovers`: their blocks cover the same addresses.
* `ChosenAreWidest`: `largestPrefixes` keeps as many as it may, all if it may, and never
  a narrower prefix in place of a wider one.

**HostProofs.** `HostTypeCorrect`: `HostTypeOK` of the run `host`, from the inductive
invariants of the seven components and the fact that a step is one of the chosen
component.

**Only model-checked.** The liveness properties, which need fairness and ENABLED
(`StartTakesEffect`, `StopTerminates`, `CallsReturn`, `PolicyReachesKernel`,
`QuotaEnforced`, `NextPeriodResumes`, `OverQuotaDisconnected`). Every other property
of a passing run, invariant or action property, is the statement of a theorem.

## 5. Where code and documents disagree

Shown by a run:

1. `sup_stop_undone`: a Stop during a back-off, or during the poll of a Restart, is
   undone; nothing reads `desired_state` before the start (`agent/manager.go` 182-266,
   375-383) and Reconcile never stops a node. The user guide (314) says the agent
   follows the desired state.
2. `traffic_pause_lifted`: a round of the sampler that has already sampled the node
   removes the rule of a manual pause (`agent/manager.go` 610); the port stays open until
   the next round, although the user guide (350) says it is blocked at once.
3. `user_double_billing`: the panel and the ticker sample accounts concurrently; a
   stale snapshot lowers the baseline, and bytes are billed twice, which the comment at
   `traffic/store.go` 373-374 excludes.
4. `fw_vpn_pool`: VPN rules that survive a stop (a RemoveVPN that failed, an agent killed
   before it ran) keep the old address pool when the node is started with another,
   because the tag is wanted and already there (`firewall/firewall.go` 157-165, 479-502);
   the user guide (552) has the administrator look for rules with the node's pool.

Met while modelling; no run of their own, but the actions are in the modules:

5. A backend that has failed for good is restarted by the back-off of its front
   (`agent/manager.go` 193-194), although SPEC 730 has it wait for manual operation.
6. A Start while the old process is still stopping returns success and has no effect
   (`agent/manager.go` 186, 357, 471).
7. Two certificate refreshes at once can leave the older certificate linked and the newer
   one recorded, after which no refresh sees a difference (`anyconnect/assets.go`
   138-146).
8. A restore that fails leaves every node stopped until the next Reconcile
   (`api/server.go` 971-986), although SPEC 854 wants the state before it.
9. A login that has read the old password writes its session after ChangePassword has
   ended them all (`auth/service.go` 51-60), although SPEC 76 wants all old sessions gone.
10. A node that was deleted cannot be imported again under its id: its revisions are still
    there and revision 1 must be unique (`nodes/store.go` 206).

## 6. Not modelled, and why

* Orphans: a dying agent sends its children SIGTERM (Pdeathsig) and its kill timers
  die with it. A child that ignores SIGTERM lives on; `procs` holds only what
  the present agent refers to, so `AtMostOneProcess` speaks of one run of the agent.
* The failures of `startLockedWithRestarts` that change nothing (missing
  configuration, pipes) are one: no pid left. Its VPN rules are in `Firewall`, its
  AnyConnect files in `VpnFiles`.
* The files that Apply writes for the other node types: one configuration, validated and
  renamed as in `VpnFiles`; two Applies at once share `.candidate` and `.last-good` there too.
  `ApplyRestores` and `CertificateTaken` promise nothing for tasks that overlap.
* Two installs of one version share the candidate path, and an edit while nodes are moved
  is overwritten by the stale list: both steps are in `Upgrade`, and its properties exclude
  these cases by `alone`.
* Nodes of other types in an import (an update and an Apply each), `SetDesired` of an import
  and its traffic policy; parsing and encryption of the file; the export, which only reads.
* The block rule that `deleteNode` lifts first is in `Traffic` and `Firewall`, the files
  `RemoveAnyConnect` deletes are in no module; the certificate refresh of `updateNode` is in
  `VpnFiles`, and in `NodeHandlers` a failure of the Apply. The instance of `nodes` has no VPN
  pools: that half of `PortsExclusive` is proved and not run.
* Three pairs of steps are one: the removal of the two files of a restored certificate
  directory, the file and the row of a pruned backup, and an account of an import and its
  quota when both succeed. A backup that was written but could not be registered is a
  file nobody lists, and is forgotten.
* A backup taken between the candidate link of a refresh and its rename is restored with a
  directory `certificate-current.candidate`, which `os.Remove` does not remove: no
  refresh can link a certificate from then on (`anyconnect/assets.go` 381-384). In
  `VpnFiles` a restored state has no candidate.
* `CleanupUnknownAccounting` removes the counters of nodes that are gone and keeps their
  block rules; `Firewall` does the same, and no property asks for more. A `deleteNode` that is refused
  leaves the node stopped until Reconcile starts it again; `AppliedIsStored` allows for that.
* The default nodes that are created at first start (`nodes/store.go` 27-145).
* The limiter's counts carry no property: every request reads the entry before it is
  counted, a minute forgets the failures and the block with them, and what a limit
  then means is a matter of timing. It is modelled because it decides which logins run.
* The cache of address lists and the times of the refresh schedule: `BeginRefresh` may
  happen at any moment. A list whose merged prefixes are wider than `/7`, or too few,
  is downloaded again on every Ensure; the list itself is `Cidr`.
* Log rotation: a sequence of file operations under one mutex, with no property beyond
  a size limit.
* Creation of nftables' table and chains, and of the DOCKER-USER jump: idempotent
  commands before the first rule.
* Downloads, signatures and unpacking before the candidate is written; polling for
  updates; text generation (configurations, profiles, links), encryption, settings,
  HTTP plumbing, the UI, packaging: no state of their own, or a storage engine's job.

## 7. Plan

Done: `Supervisor`, `Traffic` and `UserTraffic`; then `NodeStore` with
`NodeHandlers`, `Login`, `RuleTable` with `Firewall`, `Backup`, `Upgrade`, `VpnFiles`,
`Accounts`, `Cidr`, and their composition for one run in `MCHost`; for each of
them theorems for all that its runs check, but for liveness.

What is left, most useful first:

1. Orphans in `Supervisor`, with the ports they hold.
2. The other node types in `VpnFiles` (then `ApplyFiles`) and `Accounts`, and
   `ApplyFiles` as a refinement of the `Apply` of `Supervisor`.
3. The list cache with its retry schedule; log rotation.
