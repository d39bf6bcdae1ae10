# WireGuard NATter helper: TLA+ models

`wgnh` keeps WireGuard tunnels alive whose server sits behind a NAT that hands
out a new mapping from time to time. A daemon holds the registry and the
command queues. Agents on the machines register, report their WireGuard
interfaces, poll for commands and execute them: `natter.run` on a server
measures the mapping, `endpoint.apply` on a client writes the new endpoint.
This directory holds TLA+ models of that program, TLC configurations that check
them on small instances, and TLAPS proofs. Paths below are relative to the
repository (`src/` is its root); the line numbers of every definition are in
`PROJECT.json`, under `map`.

## 1. Inventory

| Component | Source | State | Operations |
|---|---|---|---|
| Command channel | `internal/store/store.go` (`QueueCommand`, `NextCommand`, `CompleteCommand`), `internal/daemon/daemon.go` (`agentPoll`, `agentReport`), `internal/agent/agent.go` (`Run`) | `runtime.Commands[node]`, the two files on disk, where every agent is in its loop, poll handlers | queue, long poll, deliver, report, complete |
| Registry and automatic bindings | `internal/store/store.go`, `internal/daemon/daemon.go` | nodes, domains, memberships, pending domain, inventory, bindings, endpoints, leases, node status | register, join, approve, delete, inventory, reconcile, save lease, add binding |
| Recovery loop | `internal/agent/agent.go` (`runMonitor`, `runNatter`, `applyEndpoint`), `internal/daemon/daemon.go` (`peerUnreachable`, `natter.result`) | failure counts and reported peers of a monitor, `lastNatterRun`, lease, queued commands | tick, report, cooldown, run, measure, distribute, apply |
| Endpoint configuration | `internal/wgconfig/wgconfig.go` | the wg-quick file and its backups, UCI sections (committed and staged), the running interface | find the peer, replace or insert, back up, write; set and commit; set on the interface; reload |
| Persistence | `internal/store/store.go` (`Open`, `saveLocked`, `saveRuntimeLocked`), `cmd/wgnh/main.go` (`init`, `create-node`, `add-binding`) | `state.json` (registry), the runtime file, their temporary files, each process's copy in memory | load, migrate an old file, save by rename, offline edits |
| Agent loop and remote configuration | `internal/agent/agent.go` (`New`, `loadOrCreateLocalState`, `Run`, `enroll`, `poll`, `applyRemoteDomainMembers`), `internal/store/store.go` (`ApproveNode`) | identity and its file, `joined`, monitor peers and the monitor, natter configuration and control method of every interface | create an identity, register or join, poll, retry, start the monitor, apply the configuration the daemon sends |
| Natter run | `internal/agent/agent.go` (`runNatter`), `internal/wgconfig/wgconfig.go` | the WireGuard interface down or up | stop, run natter, start, report |
| TCP JSON protocol | `internal/rpc`, `internal/protocol` | one connection per call | call, answer, deadline |
| Tokens | `internal/auth` | none | random tokens, hashes |
| Web UI, command line, LuCI, packaging | `internal/webui`, `cmd/wgnh`, `openwrt`, `deploy` | none of their own | forward to the admin requests (but for the offline commands above) |

How they interact. An agent opens a TCP connection per call; the daemon serves
each in a goroutine. A handler makes several calls into the store, and the store
takes its mutex in each of them *separately*: authentication, `MarkSeen`,
`UpdateWGInterfaces`, `ReconcileAutoBindings` and `NextCommand` of one poll are
five critical sections, with those of other handlers in between. `natterMu`
guards the cooldown only. On an agent the poll loop and the monitor are two
goroutines that share the list of peers to monitor and the configuration.
Registry and runtime data are two files; each save rewrites a file whole and
renames it into place, and the offline commands do the same with the same files
from a process of their own.

What is hard here:

* **Interleaving of handlers** — a node can be deleted, or approved into another
  role, between any two store calls of a handler that serves it.
* **Broken connections** — a poll handler does not notice that its agent is
  gone, and loops over `NextCommand` until its deadline.
* **Failed saves and crashes** — memory is changed first and saved afterwards;
  when the save fails nothing is undone, and a restart goes back to the file.
* **Ordering** — leases are stored and commands queued in different critical
  sections; results of two runs could overtake each other.
* **Configuration that travels** — a server's natter configuration is saved at
  the daemon, reaches the agent with the answer to a poll, and must be there
  before the command in the same answer is executed.
* **A device that is taken down** — WireGuard is stopped for a natter run and has
  to come back, whatever natter does.
* **Timeouts and cooldowns** — a peer is reported once per outage, and a report
  within the cooldown is answered and forgotten.
* **Identities made on the spot** — an agent without a configured id or token
  invents one, and must come back under it after the administrator approved it.
* **Late calls** — a registration whose agent gave up can reach the daemon after
  the agent's next one, or after its node was deleted.
* **Two files, several writers** — a save of both files can stop between them,
  and nothing keeps two processes from saving over each other.
* **Text editing** — the endpoint is put into a file people edit by hand.
* **A command in several steps** — UCI takes host, port and commit separately,
  and a commit publishes whatever an earlier attempt left staged.

The full list of hazards, each at its line and with the properties that would
catch it going wrong, is in `PROJECT.json` under `hazards`.

What makes each component correct:

* Command channel: in order, at most once, to the node it was queued for, across
  every failure; a pending command is eventually executed if nothing fails.
* Registry: bindings exist exactly for the links that are wanted, only between
  approved members; an endpoint belongs to the server it was leased from; the
  polls repair what a failure left.
* Recovery: a new mapping reaches every client; the cooldown bounds the runs;
  clients never go back to an older mapping.
* Server's agent: a run uses a configuration at least as new as when it was asked
  for; WireGuard is up again after it; no endpoint is reported while it is down.
* Endpoint configuration: a reported success is stored and in effect; exactly one
  endpoint of the file changes; the old file survives a crash; a repeated command
  changes nothing; no UCI section keeps half of an endpoint for good.
* Persistence: a binding reported as saved stays until its deletion is asked for;
  the migration of an old file loses nothing in use; no endpoint outlives its
  binding, to come back to life when the id is used again.
* Agent loop: an identity that was used is durable; an agent polls only under an
  id approved for its token; it watches only its own bindings; a deleted node
  stays out; an approved agent is served, and what the daemon says is watched.

## 2. Modules

| Module | Role | Extends / instantiates |
|---|---|---|
| `QueueOps` | the queue of one node: pending, deliver, complete | |
| `QueueOpsProofs` | what these operators return and preserve | `QueueOps` |
| `CommandDelivery` | abstract specification of the channel | |
| `CommandQueue` | the channel in detail | `QueueOps`; refines `CommandDelivery` |
| `CommandQueueProofs` | type correctness, inductive invariant, refinement | `CommandQueue`, `QueueOpsProofs` |
| `AgreedLinks` | abstract specification of the registry | |
| `Registry` | registry, inventory, bindings, handlers | refines `AgreedLinks` |
| `RegistryProofs` | type correctness, unique keys, who is a member, what is bound and with whose endpoint, refinement | `Registry` |
| `Recovery` | monitor, cooldown, natter run, endpoint distribution | |
| `RecoveryProofs` | type correctness, cooldown, the lease on its way, no older mapping | `Recovery` |
| `NatterAgent` | a server's configuration and its natter runs | |
| `NatterAgentProofs` | type correctness, current configuration, WireGuard around a run | `NatterAgent` |
| `WGConf` | `UpdateWGConf` and its writes | |
| `ApplyEndpoint` | `endpoint.apply` with all three back ends and the reload | `WGConf` |
| `ApplyEndpointProofs` | type correctness, what an update changes in the file, UCI halves, success is in effect | `ApplyEndpoint` |
| `KeptBindings` | abstract specification of the store: held, kept and reported bindings | |
| `Persistence` | the two files, `Open`, saves, offline commands | refines `KeptBindings` |
| `PersistenceProofs` | type correctness, kept bindings, refinement, migration, endpoints with their bindings | `Persistence` |
| `AgentLoop` | identity, registration, joining, polling, monitor peers | |
| `AgentLoopProofs` | type correctness and the agent's safety properties | `AgentLoop` |
| `MC*` | small instances of these for TLC | |

Every module that models code also holds a few operators commented "Mutant of
X": the form a plausible bug would give X. They are used by nothing; putting one
in the place of X must break the property `PROJECT.json` pairs it with, which
shows that the property depends on the code it is about.

### CommandQueue

One action is one critical section of the store's mutex with the local code
around it.

| Model | Code |
|---|---|
| `commands`, `disk.commands` | `runtime.Commands` in memory and in the runtime file |
| `approved`, `disk.approved` | nodes whose credentials `authenticateAgent` accepts, and the state file |
| `phase[n]`, `cmd[n]` | where `Agent.Run` of node n is, with its live call and the command in hand |
| `orphans[n]` | poll handlers that still loop for a connection that is gone |
| `reports` | `agent.report` calls under way |
| `StartPoll`, `Deliver`, `FindNothing`, `PollTimeout` | `agentPoll` and `NextCommand` |
| `Receive`, `Report`, `EndReport`, `AbandonCommand` | `Agent.Run`, `handle`, `report` |
| `Complete` | `agentReport`, `CompleteCommand` |
| `Saved`, `NotSaved`, `SaveBoth` | `saveRuntimeLocked`, `saveLocked`: a save that fails leaves memory ahead of the file |
| `Drop`, `OrphanTake`, `OrphanExpire` | a broken connection and the handler that outlives it |
| `DaemonCrash`, `DaemonStart` | memory becomes what `Open` reads from the files |

A command is its number in issue order, standing for the random id of
`protocol.NewID`; that these ids are fresh is assumed. `target` and `handled`
are history variables.

`CommandDelivery` says what the channel promises: commands are issued to one
node each, and a node executes its own commands, in issue order, none twice. It
does not promise delivery. The refinement mapping is the identity on `target`
and `handled`; every other step of `CommandQueue` is a stutter.

### Registry

A request is a first step (authentication, or the change the request makes)
after which `handlers[h]` holds the store calls its handler has still to make;
each is a step of its own (`MarkSeen`, `SyncInventory`, `Reconcile`, `SaveLease`,
`Queue`). A failed save (`SaveThen`) ends the handler where the code returns the
error, and is without consequence (`Go`) where the code ignores it.

A name is the sequence of its parts between dashes, because `autoBindingID`
joins names with dashes: two different links can get one id. `Wanted`, `Stored`
and `Kept` are the three passes of `ReconcileAutoBindings`; the choice among
wanted bindings with one id is the iteration order of Go's maps. Left out:
tokens, requests that are refused, the configuration fields of a membership
(`NodeApproval` beyond domain, role and interface), and `CreateNode`, which the
daemon never calls. Crashes are in `CommandQueue`.

`AgreedLinks` says what an administrator may rely on, with each request and each
reconciliation as one step: a node has a role in a domain from its approval to its
deletion; a link (an automatic binding without its id and key) comes from a
reconciliation and from nothing else; a reconciliation keeps every link the
memberships agree to and drops the others, a deletion takes the links of the node
along, and a binding made by hand may take the place of one. Which members get a
link is left open there, for that depends on what agents report: it is what
`EveryLinkIsBound` is about. The refinement mapping takes `approved` from `nodes`
and `links` from the automatic bindings; registrations, polls, reports, leases and
all calls but `Reconcile` are stutters, wherever they fall between the steps of
other handlers.

### Recovery

One server interface and the clients bound to it. Mappings are numbered in the
order the NAT hands them out, so "older" has a meaning. `nat`, `stale` and
`applied` are the outside world; `failCount` and `unreachable` the monitor
(`failCounts`, and the map of peers it has reported); `cool` says that
`lastNatterRun` is within the cooldown; `jobs` are the handlers of
`natter.result` that still queue commands. The command channel is used as
`CommandDelivery` promises it: in order, at most once, with losses counted as
faults. `ServerFault` leaves a "late" report behind, one nobody waits for and
whose handler may therefore run beside that of the next.

### NatterAgent

One server node, whose memberships the administrator saves and whose agent polls
and runs natter.

| Model | Code |
|---|---|
| `members`, `SaveMember` | `data.DomainMembers` of the node, `ApproveNode` |
| `queue`, `QueueRun` | its pending `natter.run` commands |
| `Poll`, `NextCommand`, `PollTimeout`, `Answer` | `poll`, and `agentPoll`, which reads the memberships after it took the command |
| `ApplyMember` | one round of the loop of `applyRemoteDomainMembers`; the order is that of a Go map |
| `natterBy`, `control` | `NatterByInterface`, and `WGControlMethod` of the configured interfaces |
| `Refuse`, `StartNatter` | `runNatter` up to the start of the command, `wireGuardControlMethod`, `StopInterface` |
| `NatterEnds`, `StartWireGuard`, `StartFails` | the three ways out of the command, `restartWireGuardIfNeeded` |
| `AgentKilled` | the process is killed and `New` reads its file again |
| `wg` | the interface itself (external): `wg-quick down` refuses what is down already |

A configuration is three facts: whether it has a command line, whether WireGuard
is stopped for it, and by what method. A reload method of a membership stands for
the control method the agent derives from it; the configuration type, which the
agent falls back on, is taken to agree with it. `version` and `asked` are history
variables: the save a configuration comes from, and the saves that configured an
interface when a run of it was asked for. The commands a broken poll loses are
the subject of `CommandQueue`; here a broken poll is a fault. Left out: the
configuration fields of a node (`applyRemoteNodeConfig`), which the daemon no
longer fills and clears when it reads an old state file; the delay before the
restart; and what the run measures, which is in `Recovery`.

### WGConf and ApplyEndpoint

In `WGConf` a line is what the scan makes of it: the header of a peer, another
header, a public key, an endpoint, or something else. `Put` is the result of the
scan of `UpdateWGConf`, including what happens to a last line without a newline;
the writes that follow are one action each, with a crash possible between them
and in the middle of the last. Backups are assumed to have different names: the
code puts the second into the name, and two updates of one file within a second
would share a backup. A torn write is modelled at whole lines.

`ApplyEndpoint` extends it to the whole command:

| Model | Code |
|---|---|
| `link` | `config_type` and whether the command has a reload method |
| `ApplyWGConf`, `Store` | the wg-quick file, by the actions of `WGConf` |
| `UpdateOpenWrtUCI`, `RunUci` | `UpdateOpenWrtUCI`: search, then `uci set` host, `uci set` port, `uci commit`, one step each |
| `uci` | the sections, committed and as `uci show` prints them (external) |
| `WGSetEndpoint` | `wg set ... endpoint` on the running interface |
| `ReloadInterface` | `ReloadInterface`, which follows whether or not anything changed |
| `live` | the interface: up, the configuration it came up with, the endpoints set since (external) |
| `Fail`, `Reboot` | an external command fails or the agent dies before it; the machine restarts |

A command that fails after it took effect is not modelled apart: for what is
stored it is the command that dies before the next step. UCI sections are named
by their index and nobody else moves them while a command runs. Dry-run changes
nothing and is left out. `failed` is a history variable.

### Persistence

| Model | Code |
|---|---|
| `file`, `tmp` | the state file and the runtime file, and the temporary file of each |
| `mem[p]`, `opened[p]` | the store of process p; whether `Open` has returned |
| `Start` | the daemon (`serve`), or `init`, `create-node`, `add-binding` |
| `ReadState`, `ReadRuntime`, `Refused`, `OpenReturns` | `Open`, `loadRuntime`, `ensureMaps`, and the save it ends with |
| `Truncate`, `Write`, `Rename`, `SaveFails` | `os.WriteFile` of the temporary file and `os.Rename`, in `saveLocked` and `saveRuntimeLocked`; a write through a descriptor whose file was renamed meanwhile (`fd`) goes where that file went |
| `Crash` | a process is killed, between any two of these |
| `InitFile`, `CreateNode`, `AddBinding` | the offline commands |
| `DeleteNode`, `Reconcile`, `SaveEndpointLease`, `Register`, `OtherSave` | the daemon's calls, by what they change and which files they save |

A call of the daemon changes memory and saves in one critical section, which is
why `pc` has one place per process. What the files hold is reduced to nodes,
bindings, and which bindings have an endpoint; a file is missing, empty, torn or
readable. A process is killed, the machine is not: that a rename reaches the disk
before a power failure is not modelled. `said`, `owed`, `log`, `cut` and
`orphans` are history variables: `cut` tells that an `Open` was stopped between its two
renames, `orphans` which endpoints a call of the daemon had dropped when it was stopped
there. What a failed save does to queues and approvals is in
`CommandQueue`.

`KeptBindings` says what the store promises of its bindings when a request, a save
and a report take one step each: `held`, the copy in memory, changes by whole requests
(`Add`, `Delete`, `Reconcile`); `kept`, what the next `Open` would find, changes only
by a save, to exactly what is held; whoever ends leaves the next one with exactly what
is kept (`Close`); and a binding is reported only when it is both held and kept. So no
restart finds a part of a request, a request without those made before it, or less than
was reported. The refinement mapping takes `kept` from the
state file, `held` from the store of the process that has read it, which has as its own
what it has read, and `promised` from `said`. The call that changes memory is the
request, `Rename` of the state file is the save, and the end of a process, by a kill, a
failed save or the end of its command, is `Close`; reading, truncating, writing, the
runtime file and a failed save of the daemon, which goes on with what it holds, are
stutters.

### AgentLoop

| Model | Code |
|---|---|
| `conf`, `file`, `me` | node id and token as configured, the local state file, and what the agent goes by |
| `Load`, `LoadFails`, `Generate`, `CreateWrite`, `WriteFails` | `New`, `loadOrCreateLocalState`: the identity is written before it is used |
| `Turn`, `Enroll`, `EnrollReturns` | `Run`, `enroll`, `register`, `join`; `UpsertPendingNode`, `agentJoin`, `UpsertJoinedNode` |
| `Authenticate`, `ReadBindings`, `ReadMembers`, `PollReturns` | `authenticateAgent`, the end of `agentPoll` (`monitorPeersForNode`, then the memberships), `poll` and the errors `Run` tells apart |
| `enabled`, `peers`, `running`, `watch`; `Tick`, `Probe` | `Monitor.Enabled`, `monitorPeers`, `startMonitorIfNeeded`, `runMonitor` with the copy of the list it goes through |
| `CallFails`, `Kill`, `LateEnroll`, `LoseFile` | a failed call whose registration may arrive later, the end of the process, a removed state file |
| `CreateDomain`, `Approve`, `Delete`, `Bind` | the administrator; `Bind` stands for whatever changes the bindings of a node |

An identity is a number that stands for the generated id and token. Of a
membership only whether it is one as a client is kept, because that enables the
monitor. The domain of a join code exists from some point on and is not deleted.
`Empty` also stands for a state file that has no identity in it. `maker`, `lost`,
`gaveUp`, `ever` and `boundEver` are history variables.

## 3. Runs

| Run | What it asks | Instance | Result |
|---|---|---|---|
| `queue` | order, at most once, durability, the inductive invariant, refinement; a pending command is executed | 2 nodes, 2 commands, 2 faults | holds |
| `queue_retry` | the last, without excluding interrupted polls | 1 node, 2 commands, 2 faults | **violated** |
| `registry_safety` | refinement, bindings, endpoints | 2 nodes, 1 domain, 2 handlers, rotating keys, two manual bindings with one id | holds |
| `registry_live` | polls repair missing and stale bindings | 2 nodes, 1 handler, 1 failed save | holds |
| `recovery` | cooldown, lease on its way, no older mapping, the inductive invariant; a new mapping reaches the clients | 2 clients, threshold 2, 1 change, 1 manual run, 1 fault | holds |
| `recovery_stale` | the last, without excluding cooldowns | 1 client, threshold 2, 2 changes, no fault | **violated** |
| `natter_agent` | current configuration, saves arrive, WireGuard around a run | 2 domains, 1 interface, 2 saves, 2 runs, 1 fault | holds |
| `agent_loop` | durable identity, approval, own bindings, deletion; service and watching | 2 agents (one with a join code, both may claim one id), 2 identities, 3 acts of the administrator, 1 fault, 1 lost file | holds |
| `persistence` | kept bindings, migration, endpoints with their bindings, refinement | 2 nodes, a manual and an automatic binding, any old file, 2 crashes, 1 failed save, one process at a time | holds |
| `persistence_beside` | kept bindings with an offline command beside the daemon | the same, no fault | **violated** |
| `apply_endpoint` | success is in effect, one endpoint changes, the old file is kept, UCI halves | every file of at most 4 lines ending in a newline, every UCI configuration of at most 3 sections, 2 peers, 1 failure | holds |
| `wgconf_open` | one endpoint changes | every file of at most 3 lines without a last newline, 2 peers, 1 crash | **violated** |

Why the bounds are enough. Two commands are the fewest with which one can be
skipped or overtaken, and two faults let a broken poll and a failed save or a
restart follow each other; two nodes are needed for a report to close the entry of
the other. For bindings one server and one client are a link, and two handlers at
work are enough for every pair of store calls to interleave in every order; the
views let the server change its key and the client drop its peers. Two clients are
the fewest that compete for one cooldown. `recovery` has one change of the
mapping, with the run by the administrator and a fault that leaves a late report
behind as what can get in its way; two changes are in `recovery_stale`, and the
proof of `NeverOlder` is for any number. Two memberships that share an interface
are what the order of applying them can confuse; two saves and two runs let a run
follow a save it must see and a run that was killed. That a membership may move to
another interface is not in that instance but in the proofs. With two agents one
can claim the id of the other, lose its file, or register late; three acts of the
administrator are create, approve and bind, or approve, delete and approve again.
Two crashes are what it takes to stop the save that follows a save that was
stopped; the old file is any there can be. Four lines hold a peer header, its key,
an endpoint and one line that belongs to another section (the proofs are for any
length); three UCI sections hold
a peer twice and another one between them, and the one failure is what leaves a
half staged for the next command.

`IndInv` of `CommandQueue` and of `Recovery` contains `TypeOK`, so these runs do
not list it again. `CompletedWasHandled`, `KeysUnique`, `MembersAreApproved` and
`DownOnlyInRun` are stated in the modules and proved; no run repeats them.

`EndpointTakesEffect` compares the file line by line: one endpoint line has changed
or come in (`Moved` says where the others are then), and every section reads as
before but the first one of the peer, which reads the new endpoint.

`SYMMETRY` is used only in `registry_safety`, over handlers. `RegistrySafety.cfg`
also uses the view `Essential`, which drops `status`, `leases` and `queued`: no
action reads them except to compute their own next values, and of the properties
of that run only `TypeOK` mentions them. `CHECK_DEADLOCK FALSE` is set where a
bound really ends the run (`Recovery`), and in `wgconf_open`, where a file that is
up to date leaves nothing to do. The other modules are checked for deadlock.

### What the violated runs show

* `queue_retry` — a poll whose connection broke leaves a handler behind that
  takes the next command, marks it delivered and writes it to a connection
  nobody reads. The agent's retry does not reach that command. The
  troubleshooting section of the repository's README says the agent retries
  automatically.
* `recovery_stale` — the monitor marks a peer before it reports it and reports
  it once; a report within the cooldown is answered and forgotten. If the mapping
  changes again during a cooldown, the clients stay stale for good. The feature
  list promises a `natter.run` when a client peer becomes stale.
* `wgconf_open` — a line inserted behind a last line without newline is glued to
  it: the value of that line is spoilt and the endpoint is not set, while the
  result says it was changed.

* `persistence_beside` — `add-binding` rewrites the state file and reports the
  binding as saved; a daemon that was running never reads the file again, and its
  next save writes it without the binding. The repository's README names
  `add-binding` as the way to create a binding by hand, of a system whose daemon
  was started in the first step.

Met on the way, without a run of their own:

* `autoBindingID` joins names with dashes, so the link of domain `home-lab` with
  server `a` and that of domain `home` with server `lab-a` share one id, and one
  of them is left without a binding at every reconciliation. `Registry` models
  this; the instance of `registry_safety` has no two names that collide
  (`InstanceIds`), and `EveryLinkIsBound`, `EndpointsAreOwn` and the refinement of
  `AgreedLinks` are proved on that condition (`IdsDistinguish`). What happens where ids
  collide is no claim of any property.
* `Open` killed between its two renames has dropped the endpoints of an old state file,
  and `DeleteNode` killed there leaves endpoints without a binding, which
  `add-binding` under the same id would take up. `MigrationKept` excepts the first
  (`cut`), `EndpointHasBinding` bounds the second (`orphans`).
* An endpoint set on the running interface (`config_type` `runtime`) is lost by
  the reload that follows at once when there is a reload method.
  `AppliedIsInEffect` leaves that combination out.
* An `endpoint.apply` that ends between the two `uci set` leaves a host staged
  which the commit of the next command, for another peer, publishes with the old
  port. `HalvesAreFailures` says that this is all that can happen, and that the
  peer's own next success repairs it.
* An agent whose state file is lost gets a new identity; with a configured id and
  a generated token it is then refused until the administrator deletes its node.
  A state file cut short in the middle stops every later start (`LoadFails`).
* `agentRegister` and `agentPoll` write the inventory in a critical section that
  does not look the node up, so a handler already at work brings inventory of a
  deleted node back (`registry_safety` lets this happen and shows that no
  automatic binding comes back with it).
* An agent that is killed while WireGuard is down leaves it down; with `wg-quick`
  no later run can stop what is down already, so none starts it again either
  (`DownOnlyInRun` and `StoppedIsStarted` are about runs without a fault).

## 4. Fairness

* `CommandQueue`: weak fairness of what the agent's loop and the daemon's
  handlers do next; none of them stops by itself, and every call has a deadline.
  `DaemonStart` is fair because the service files restart the daemon. Nothing is
  assumed of faults, of who queues commands, or of approvals; `PendingIsHandled`
  therefore asks for a stretch without faults, and excludes the handler of an
  interrupted poll (`queue_retry` shows why).
* `Registry`: weak fairness of the calls of a handler, which runs to its end;
  strong fairness of the polls of a node, because other requests may hold the
  one handler of the instance again and again although the daemon would start
  another goroutine. Nothing is assumed of the administrator.
* `Recovery`: weak fairness of time (handshakes age, cooldowns end, monitors
  tick) and of every call and command under way. A late report, changes of the
  mapping, manual runs and faults may or may not happen. The mapping is required
  to stay: a property with "unless it changes" on its right-hand side.
* `NatterAgent`: weak fairness of the agent's steps taken together, which are
  those of one goroutine: its loop does not stop, every call has a deadline and
  natter a timeout. The timeout kills natter itself; that its children then close
  their output, which `CombinedOutput` waits for, is assumed. Nothing is assumed
  of saves, runs and faults.
* `AgentLoop`: weak fairness of the steps of an agent, of the daemon's handler for
  it, and of its monitor, three goroutines that do not stop; every call has a
  deadline. Nobody has to start an agent, approve a node or fail. Faults and acts
  of the administrator are bounded, so `ApprovedIsServed` and `ListIsWatched` are
  about what holds once they are over, whatever they were.
* `ApplyEndpoint`, `WGConf` and `Persistence` have no liveness property: a failed
  `endpoint.apply` is not retried, and a daemon may refuse its file for good.

## 5. Proofs

`CommandQueueProofs` proves, for every set of nodes and every bound:

* `TypeCorrect` — `Spec => []TypeOK`;
* `Inductive` — `Spec => []IndInv`;
* `OrderedAtMostOnce`, `Durable`, `Completed` — `InOrder`, `HandledIsDurable`,
  `CompletedWasHandled`;
* `Refinement` — `Spec => Delivery!CDSpec`, which implies that no failure can
  make an agent execute a command twice, out of order, or one of another node.

The only assumption is `CommandQueueAssumption`: the two bounds are natural
numbers. `Node` may be infinite.

The argument. `InOrder` is not inductive: that what an agent has started is
ascending says nothing about what the daemon hands out next. `IndInv` adds, of
*both* copies of a queue (memory and file), that its ids ascend, that they belong
to the node, that every pending entry is newer than the command in hand and than
all that were started, and that completed ones were started (`QueuesSound`, made
of `SoundQueue` in `QueueOps`); of an agent, that its response is newer than all
it started and that it reports only what it started (`AgentSound`,
`ReportsSound`). The file has to be part of it because a crash makes it the
memory. The one step where the two copies must change together is `Deliver`: the
command is in the response only if the save succeeded, which is why the file no
longer shows it as pending. `Durable` and `Completed` follow from `IndInv`
without another induction, and so does each step of the refinement: only
`QueueCommand` and `Receive` change `target` or `handled`.

`QueueOpsProofs` holds the lemmas about the queue: appending a newer id,
delivering the first pending entry and completing a started one keep
`SoundQueue`, each stated once with `ASSUME ... PROVE`. The proof of the inductive step has one
step per action, and under it one per part of `IndInv` the action can disturb.

`RegistryProofs` proves, for every set of nodes, domains, interfaces, views and
handlers, `TypeCorrect`, `UniqueKeys`, `MembersApproved`, `BindingsJoinApproved`,
`StaleGoes`, and, on conditions given below, `EndpointsOwn`, `LinksBound` and
`Refinement`. `RegistryAssumption` says that names are sequences of parts, that
views, initial memberships and bindings added by hand are of the nodes, domains and
interfaces of the instance, that bindings added by hand are not automatic, and that the number of
failed saves is bounded. `MembersAreApproved` and `AutoBindingsJoinApproved` are
proved one on top of the other: a reconciliation binds members, a deletion removes
the bindings of the node in the same critical section. `StaleBindingHasReconciler`
needs to know what a handler still has to do: `TypeOK` therefore gives the
sequences of calls a handler can have before it (`Plans`), and the proof shows
that in each of them the call to `Reconcile` comes before the handler ends, and
that the call leaves no stale binding. That no save failed is part of the
property.

`EndpointsOwn`, `LinksBound` and `Refinement` have the hypothesis `IdsDistinguish`:
two links never get one id. The code does not ensure it (see above), and without it
they are false: the binding of one link replaces that of the other, with its
endpoint. The hypothesis is met wherever the node names have one number of dashes,
for instance none, and the interface names too; `EvenNamesDistinguish` proves that
from the way `autoBindingID` joins names. `LinksBound` also needs `ManualApart`,
that the administrator gives no binding the id of an automatic one. The inductive
invariant is `BindingsNamed`: every binding is one of those added by hand, or has the
names of its link and the id they make. It gives what the code relies on when it looks
up a binding by its id: under `IdsDistinguish` the automatic binding stored under the
id of a wanted one is of the same link (`NamedOnce`), so that storing it anew moves no
endpoint to another server and drops no link. `EndpointsOwn` follows the endpoints:
a lease gives them to bindings of its own server and interface (`LeaseIsOwn`), and
what reconciles, deletes or adds a binding either keeps the binding of an endpoint or
drops both (`EndpointStaysOwn`). `LinksBound` is an action property: a wanted link
that is not stored has a binding of the same link already, added by hand
(`UnstoredByHand`). For `Refinement`, `ReconcileAgrees` shows that a reconciliation
keeps an agreed link even if its binding is replaced, and `ByHandAgrees` that a
binding added by hand costs at most one link.

`RecoveryProofs` proves, for every set of clients, threshold and bound,
`TypeCorrect`, `CooldownHolds`, `Inductive`, `LeaseArrives` and `NoneGoesBack`.
`RecoveryAssumption` says that the threshold is positive and the bounds are
numbers. `RunsCounted` ties the automatic runs of a cooldown to the faults so far.
`LeaseIsOnItsWay` and `NeverOlder` hold because, without faults, the server
reports one result at a time: `IndInv` adds that at most one result is under way,
as a call or as a handler, and that it is the newest there is (`ResultsInTurn`),
and that what is queued for a client ascends and is not older than what it has
applied (`QueuesInOrder`).

`NatterAgentProofs` proves, for any domains, interfaces, configurations and
bounds, `TypeCorrect`, `RunsAreCurrent`, `DownInRun` and `ResultsWhenUp`.
`NatterAgentAssumption` gives the shape of configurations; the local one is at most
one. `DownOnlyInRun` and `ResultWhenUp` are inductive with `TypeOK`.
`RunIsCurrent` is not: `CurrentInv`, in the proof module, follows the bound on
its way — no membership is older than what a waiting command asks for, then no
membership in the answer, and after the answer was applied nor is the entry of the
interface. It needs that the memberships are read after the command left the
queue, and that all of them are applied before the run.

`AgentLoopProofs` proves, for any agents, names, tokens, configurations, peers and
bounds, `TypeCorrect`, `IdentitySurvives`, `JoinedAgentsWereApproved`,
`AgentsWatchTheirOwn` and `DeletedNodesStayOut`. `AgentLoopAssumption` says, beside
the types, that a configured token belongs to one agent and that generated
identities differ from configured names and tokens. `JoinedWasApproved` needs `ApprovalInv`:
a node that is approved was approved for the token it has, and so were the
credentials of an agent that is joined or is told "approved". `WatchInv` adds to
`WatchedWasBound` that what is bound now was bound once, and that a process which
does not know its identity yet has its own list only. `IdentityIsDurable` needs to
follow an identity from its making: `FileInv` says that what is in a state file was
made by its agent, and that an agent about to write one has none there; `UseInv`,
that only identities safely in a file (`Safe`) are used in a call, in the registry
or in a late registration. `DeletedStaysOut` needs that nobody but one agent uses a
token (`TokenInv`), so that a joined agent whose node is pending again must have
had a registration that was late (`OutInv`).

`PersistenceProofs` proves, for any nodes, bindings and bounds, `TypeCorrect`,
`SavedStays`, `Refinement`, `MigrationLosesNothing` and `EndpointsHaveBindings`, all
but the first under `~Beside`, an assumption of each theorem: one process has the
files at a time (`persistence_beside` shows what happens otherwise). `KeptInv`
is the argument: whoever has opened a store has all that was promised in memory
(`Keeps`), what is being written says it too (`Files`), and nobody else is at work
(`Alone`); the rename of what says it publishes it. `Refinement` needs of the same
invariant that a store that is not saving the state file agrees with it, and that what
is renamed is what is held; its lemmas say what is held before and after a step
(`HeldNow`, `HeldNext`), and its steps go to the one step of `KeptBindings` they stand
for. `PromiseIsEnough` proves from `KeptBindings` alone that what was reported is kept:
reports are of what is held and kept, and no request but a deletion takes a binding
that is not automatic out of what is held. For the migration `MoveInv`
follows the old endpoints from the state file to memory and to the runtime file
(`Moves`, `FilesMove`): until the rename of the state file they are in the old
one, and after it in the memory of the process that goes on to save the runtime
file. This is where a stop between the two renames loses them, and why the
property excepts it. `EndpointHasBinding` relates the two files, which are never saved
in one step; `PairInv` says where they may differ. As long as no save failed (`Calm`), every process agrees with the files on what it
has not saved yet (`InStep`), the endpoints in the files match the bindings, or are
among `orphans`, unless a call of the daemon has saved one file of the two (`Matching`),
and the old endpoints in a state file are of its own bindings (`OldBound`), so that an
`Open` or a command that is stopped between its renames leaves nothing unmatched. A
call of the daemon that is killed there leaves what it had dropped, and no more; the
next `Open` keeps it, as the code does.

`ApplyEndpointProofs` proves, for any keys, addresses, start files, UCI
configurations and bounds, `TypeCorrect`, `SectionsAreSound`, `HalvesAreCutShort`,
`OldStays`, `RepeatsChangeNothing`, `UpdatesTakeEffect` and `SuccessIsInEffect`; the
last three under `ClosedStart`, that the start files end in a newline (`wgconf_open`
shows why).
`UciInv` says where a section with two halves can come from: a staged one belongs
to the command under way or to a peer in `failed` (`SameSections`, `WhereHalves`,
`WhoseHalves`, `UciRequest`). `OldInv` says that while the file is open for writing
the newest backup is what it was. `EffectInv` ties the place a command has
reached to what it has stored. The file results rest on two lemmas about what `Put`
makes of a file that ends in a newline, each with a case for replacement and one for
insertion: `PutIsInPlace`, that the endpoint is at the first place the scan would
look, and `PutChanges`, that nothing else reads differently. For the second, sections
have no line in common (`BodiesApart`), a section whose lines are the same, or the
same one line further down, reads the same (`MovedSection`), and a line inserted at
the end of a section moves exactly the sections behind it (`InsertedChanges`).
`PutInv` carries the result of the scan over the writes between it and the file.

Every invariant, action property and refinement a passing run checks is proved. Only
model-checked is all liveness: `PendingIsHandled`, `Repaired`,
`RecoversOutsideCooldown`, `SavedArrives`, `StoppedIsStarted`, `ApprovedIsServed` and
`ListIsWatched`. TLAPS does not handle liveness under fairness or `ENABLED` here, and
no statement about a recursive definition was needed.

## 6. Not modelled

* Tokens and hashes, the JSON encoding, the web UI, LuCI, packaging: they hold no
  state that an operation of the system depends on. Admin requests other than
  those above read the registry.
* Dry-run, which changes nothing.
* Power failures: a file that was renamed is taken to be on disk.
* The event log but for the events of an old state file: it is appended to and
  read by people.
* The configuration fields of a node in old state files, which the daemon clears.
* Children of natter that outlive it, and whoever edits UCI or the wg-quick file
  beside the agent: code that is not here.

## 7. Plan

Done: `QueueOps`, `CommandQueue` with `CommandDelivery`, `Registry` with `AgreedLinks`,
`Recovery`, `NatterAgent`, `AgentLoop`, `Persistence` with `KeptBindings`, `WGConf` with
`ApplyEndpoint`, each with its proofs. What is left, in this order:

1. The safety half of the liveness properties, for every instance: that a pending
   command, a wanted link or an interface that was stopped keeps somebody who has
   still to act on it, of the kind of `StaleBindingHasReconciler` and
   `LeaseIsOnItsWay`.
2. What `AgreedLinks` and `CommandDelivery` imply, proved from them and carried over by
   the refinements, as `PromiseIsEnough` does for `KeptBindings`.
3. A composition of `Recovery` with `CommandQueue` in place of the abstract
   channel, and of `NatterAgent` in place of its natter run.
