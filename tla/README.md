# YZboard-Node: specifications

YZboard-Node is the agent that runs proxy kernels (xray, sing-box) on a server, as a
panel (YZboard) tells it to, and reports traffic back. These modules model the parts of
it whose correctness depends on the order of events; TLC checks them on small
instances and TLAPS proves their safety properties for every value of the constants.
Paths below are relative to `src/internal/` unless they begin with `cmd/` or `compat/`.

## The system

| Part | State it keeps | Operations | Hard because | Correct when | Modules |
|---|---|---|---|---|---|
| Report pipeline (`service/`, `tracker/`) | last counters, pending deltas, the batch to retry, backoff | sample, cut a batch, push, retry, final flush | requests time out after the panel processed them; shutdown meets a push in flight | every byte billed once | TrafficReport, TrafficBilling |
| Node service (`service/`) | last configuration and users, failure fingerprint, applied state, pull and report flags | set-up, apply a configuration, users, a user delta; poll; report; shut down | one main goroutine, but polls, pushes, reports and renewals run beside it | the kernel serves what the panel wants or nothing; failures are remembered and not retried | NodeRuntime |
| Control plane (`controlplane/`, `panel/`) | ETags, WebSocket connection, queues, mailbox | initial fetch, poll, push, resync, discovery | queues drop, connections break, ETags hide changes | the node ends up with the panel's state | NodeSync, NodeMailbox |
| Machine orchestrator (`machine/`) | nodes, mailboxes, status channels, node statuses | rediscover, start, stop, route events, aggregate status | rediscovers run concurrently | every wanted node runs, its pushes arrive, none survives a shutdown | MachineOrchestrator |
| Firewall (`firewall/`, `portset/`) | plans by owner, ownership record on disk, rules in the system | apply, release, reconcile, close, recover | crashes between record and rule; several back ends and owners; an administrator | no rule without a record, no gap in a port another node still wants | Firewall, FirewallPlan, PortMerge |
| xray kernel (`kernel/xray/`) | instance, retired instances, user book, dispatcher's device slots | start, reload, stop, add and remove users, statistics | old instances drain in the background while the ticker samples them | a byte is settled once; slots are those of open connections | XrayKernel, XrayDispatcher, KernelUsers |
| sing-box kernel (`kernel/singbox/`) | instance, options, users, connection tracker | the same, users replaced in place, relay users in three parts with rollback | each part may fail; connections meet every stage | updates are all or nothing; books are exact | SingBox, ConnTracker, KernelUsers |
| Limiter, speed tracker (`limiter/`) | users, buckets | update, look up | check and create under different locks | a bucket has its user's limit | ConnTracker |
| AnyTLS sessions (`compat/sing-anytls/`) | sessions, streams, die hooks, idle pool | open, close, reuse, break | both ends close at once | a live session is in exactly one hand | AnyTls |
| Certificates (`cert/`) | material, mode, renewal goroutine, files | reconfigure, start, renew, persist | ACME renews in the background; the process dies between two files | key and certificate match, renewed material reaches the kernel | CertManager |
| Time (`timesync/`) | calibration, consumers, state | check, use, stop | a minority of servers lies; the last calibration ages | the corrected time is right and fresh | TimeSync |
| Configuration (`config/`) | root configuration, derived instances | load, inherit, environment, defaults, validate, reload | every step builds on the one before | no two services share a directory, a reload moves none | RootConfig |
| Process (`cmd/xboard-node/`, `config/watcher.go`) | generation, reload channel, health, signals | start, reload, shut down | signals, reloads and ends race | one generation at a time, a shutdown ends | Process |
| Administration (`cmd/xbctl/`) | configuration, credentials, metadata, binaries, lock | bind, remove, kernel, upgrade, uninstall | several files and binaries, any step may fail | files agree, an upgrade is all or nothing | Xbctl |

Interaction: the panel reaches a service by WebSocket (directly, or through the
orchestrator's mux and the node's mailbox) and by REST polls; all of it ends in handlers
of the service's main goroutine, which call certificate manager, firewall, clock and
kernel in a fixed order. A ticker samples the kernel's counters into the tracker, another
cuts batches that a push goroutine sends. Above them the process starts a service (or an
orchestrator) for every instance of the configuration file and starts all anew when the
file changes. `PROJECT.json` lists every hazard by line.

## Modules

**TrafficReport** (abstract specification: **TrafficBilling**). One cell of the traffic
maps is a key. `Carry` is the kernel moving a byte, `TrackTick` the sample,
`StartReport`, `Post`, `ReportFails`, `ReportSucceeds`, `OnFailure`, `OnSuccess`,
`ClearActive`, `PushDone` the push goroutine, `FinalSample` .. `FinalSucceeds` the steps of
`pushReportSync`. The network delivers or loses a request, the answer may be lost after
the panel accepted, and the panel settles an id once (external). `TrafficBilling` knows
only what was carried and what is billed: the bill grows, never beyond the traffic, and
equals it after a clean exit.

**NodeRuntime**. Every handler runs on the main goroutine and is one step, written as an
operator from the state record `rt` to the record the handler leaves: the same calls in
the same order (`Reconfigured`, `Prepared`, `Serve`, `FailRuntime`, ...), with an outcome
`o` that says which call fails. A kernel is the snapshot it serves. A certificate renewal
is a step of the ACME goroutine, and may also fall between a failed attempt and its
fingerprint (`o.renewal`). `StopsWhenEmpty` distinguishes xray from sing-box.

**NodeSync** with **NodeMailbox**. Three modes: `push` (panel with WebSocket), `rest`,
`machine`. The wire is a sequence lost with its connection; `events`, `statuses` and
`result` are the bounded channels; the poll goroutine takes one step per request, and
reads and writes the ETags when the client does; the main goroutine's handlers are
operators on the record `s`. The outcome of applying a wish is a choice here, its
consequences for the ETags are not. `NodeMailbox` has one operator per method. The
applied/failed detail of a wish belongs to NodeRuntime, which keeps the wish in either
case; that is why the two modules need not be composed to compare `s` with the panel.

**MachineOrchestrator**. The main loop and the goroutines of sync.nodes pushes are workers
with a program counter through `rediscover`, `startNode` and `stopNode`, one step per lock
section (`Scan`, `Reconcile`, `Find`, `Cancel`, `Await`, `Forget`, `Insert`, `Route`, `Show`,
`Launch`); a handle is the goroutine of a node, whose steps are those of `Service.Run` that
the orchestrator sees (`RunBegins`, `SetUp`, `ApplySnapshot`, `RunEnds`) and its way out
(`Unregister`, `FinishNode`, `ShowFailure`, `Close`). An answer of the panel may be old by the
time it is used. A node is given a mailbox and its handle; what is in the mailbox is
NodeSync's subject. The status handler, called after the unlock, is told with the lock held
here. A handle that is done and that nobody holds is used again, and the actual kernel
(`nodeHandle.kernel`) is only logged, so it is left out.

**Firewall** with **FirewallPlan** and **PortMerge**. `FirewallPlan` is pure: `PlanForNode` derives the ports
of a protocol, `Merge` and `Without` are the range algebra of `portset/`. In `Firewall`
a call of the manager (`Apply`, `Release`, `Reconcile`, `Close`, `Boot`) walks through its
commands one by one: read the host (`Scan`), record before adding, add, remove, then
forget. Every command may fail, time out and take effect later, or be the last before a
crash; saving the record may fail before or after the rename; an administrator edits the
host between commands. ufw and firewalld differ in what they list and in what they say
when a rule exists. `disk` is what survives a crash.

**XrayKernel** models `xray.go` and `lifecycle.go`: `Start`, `Reload`, `Stop`, user updates by
`UserDiff` or restart, the retired instances that `Recycle` drains in the background, and
the readings of the ticker (`GetUserTraffic`) against them. **XrayDispatcher** is the
device limit of `dispatcher.go`: its counting maps, with one step per access, since the
dispatcher looks up, counts and registers without holding a lock throughout.
**KernelUsers** has the user-list operators both kernels share.

**SingBox** models `singbox.go`, `relay.go`, `relay_users.go` and the way the service drives them.
Operations exclude each other (`SingBox.mu`) and are cut into the parts that a connection can
tell apart: `Construct`, `CloseSockets`, `CloseBox`, `BootBox`; `Prepare`, `Admit`, `Switch`,
`Revoke`, `Finish` of a relay update; `UndoSwitch`, `UndoRules`, `UndoMap`, `UndoClose` of its
rollback. **ConnTracker** is `conntracker.go` and `traffic.go` with `limiter/`: the gate by device (local and global),
the connection count over TCP and UDP (`ActiveCount`), `connMap` of every TCP connection that is admitted, known user or
not, the end of a flow in its two lock sections, and `GetLimiter` and `UpdateBuckets` with the gap between their two locks. A flow's bytes
are owed to three totals (user, landing node, user at it), which are added to one by one (`AddTraffic`), maybe after
the connection was closed or its box replaced; a rebuilt tracker shares the totals of the kernel.

**AnyTls** is the session layer of `compat/sing-anytls/session`: two ends, frames in both directions,
the die hooks and the client's pool of idle sessions.

**CertManager** covers every mode, `Reconfigure`, the persisted pair (two files written
one after the other), ACME issue and renewal with its goroutine, crash and restart.
**TimeSync** covers checks, the median of the servers that answered, states and the logging
of their changes outside the lock, consumers, start and stop. **RootConfig** is the chain of
`config.go` from a file and an environment to the services that run. **Process** is
`main.go` with watcher, debounce, reload, signals, grace period and health table.
**Xbctl** is the administration command with the files and binaries it writes in order (`Follows`). The configuration file has
instances, a binding at its top level (the format before instances), or both; every write may fail, the command may be killed between any two, and `done`
keeps what the administrator was told. `Serve` stops the service after the last removal and ends well whether or not that worked, as `removeBinding` does.

**DataPlane** (XrayDispatcher, ConnTracker, SingBox, AnyTls), **Lifecycles** (XrayKernel, Firewall,
Process) and **Services** (CertManager, TimeSync, RootConfig, Xbctl) are sums: every behaviour is one
of one part, chosen at the start (`part`), and the variables of the other parts are `"off"`. The parts share no
state and are small, so one run answers for all of them and nothing of a part is cut. A sum's
properties join those of its parts: `DispatcherExact` is `LimitedExact`, `UnlimitedBounded` and `LinksExact`,
`TrackerExact` is `BooksExact` and `SpeedFollows`, `BindingsSound` is `KeepsWord` and `TokensFollow`, `RulesHold` is `AckedStayServed` and `Recorded`, `GenerationSound`
is `OneGeneration` and the health table, and so on; every part's own invariants stand in its module.

The **MC** modules give constants; the **Proofs** modules hold the theorems, one for each
module of the core and one for each sum (SingBoxProofs holds the larger argument about sing-box, which
DataPlaneProofs uses). **PortMerge** is the loop of `portset.Merge` as a fold over the sorted ranges;
its `MergeJoins` compares it with `FirewallPlan!Merge`, which says what the loop computes.

## Runs

| Run | Question | Bounds |
|---|---|---|
| TrafficReport | is a byte lost or billed twice? is TrafficBilling implemented? is a batch settled, does shutdown end? | one cell in each of two maps, 2 bytes each, 2 batches besides the final ones, 2 push goroutines |
| NodeRuntime | does the kernel serve what is wanted, is a failure kept and not retried, does renewed material reach the kernel? | 2 configurations, one identity with 2 UUIDs, 2 materials |
| NodeRuntimeRefused | violation: material that was never tried is refused as failed | the same with one UUID |
| NodeSync | do ETags name complete polls only, is a mailbox woken, is a resync answered, does the node converge? | all three modes, 2 configurations, 1 user, 1 dial, queues of 1, one change of the configuration or of the users, with pushes two of the users |
| NodeSyncStale | violation: a poll that starts before the last result is taken leaves the node on an old configuration | push mode, one change of the configuration |
| MachineOrchestrator | one service per node? its own mailbox? none left after shutdown? are the panel's nodes served in the end? | 1 node, 2 kernels, 2 handles, ticker and one push, 1 change, 1 failure |
| MachineHealth | violation: all nodes run and the aggregate stays "starting" | the same with one kernel, an empty machine at first |
| DataPlane | are device slots, connection books, user sets and session pool exact? | xray: 3 connections of 2 sources, or 2 while the limit is edited twice; sing-box: 2 clients, 3 kinds of node, 6 user lists, 3 changes; tracker: 2 flows, 2 addresses, 2 trackers, up to 2 updates; AnyTLS: 1 session of 2 streams, 1 break |
| Lifecycles | is a byte of a retired instance settled once? does a served port stay open? does one generation run? does everything settle? | xray: 2 configurations of 2 nodes, 4 user lists, 3 starts, 3 requests; firewall: 2 owners, 3 plans, 3 ports, 2 calls and 1 mishap or 1 call and 2; process: 5 files, 2 edits, 2 signals, 1 failure |
| FirewallRecord | violation: a rule without a record | 3 calls, 1 mishap, saves that fail after the rename |
| Services | is a certificate pair sound, the clock right, the layout of directories stable, are upgrade and bindings consistent? | certificates: 8 configurations, 3 reconfigurations, 1 renewal, 1 mishap; clock: 3 servers of which 1 lies, 2 consumers, 4 ticks; files: 2 top levels, up to 3 of 7 instances, 4 environments, 1 reload; xbctl: 2 bindings, at first a file without any or with one at its top level, installed or not, 3 commands, 2 mishaps |
| ReloadLost | violation: a configuration saved while the services restart is never loaded | 2 good files, 2 edits |

The bounds are enough because the hazards need few participants: two batches (the one
retried and the one after it), one failure before a change and one after, two changes (the
old push and the new state), one mishap and the next call. Queues of capacity 1 make a full
queue happen at once; the code's 16 and 4 only postpone it. One node is enough for the
orchestrator because workers compete node by node: no section touches two nodes except
`Reconcile`, whose other nodes are like the first; two handles are the one that ends and
its successor. Three connections are what it takes for a slot to be freed, taken and counted
by three different ones. `CHECK_DEADLOCK FALSE` is used where the process may stop
(shutdown) or the bounds end the environment. The runs with symmetry check no liveness.

**Fairness.** Tickers fire and goroutines that can run do; HTTP requests end (30 s client
timeout). Of the network it is only asked that a request repeated without end gets
through (strong fairness of `Post(TRUE)`, `ConfigAnswered`, `UsersAnswered`, and weak fairness of a
successful poll in NodeRuntime). Nothing is asked of the panel's changes, of the
connection, of applying a wish or of the ACME goroutine. The orchestrator's
ticker comes again (`WF` of the main loop at rest), a cancelled context is seen by its `select`
(`SF` of `StopAll`: the ticker may be chosen first, but not for ever) and a node's goroutine goes on; setups that
fail are bounded and not asked for, nor is any push or later snapshot. In NodeSync the five-minute
limit on polls while the WebSocket is connected is left out: a tick that polls is one
that comes later. In Lifecycles each part has a weak fairness of its own: the kernel's
operations and its background drains (bounded by their timers) go on; the firewall manager is started
again, ticks and goes on with its call; the process goes on, the grace period of a shutdown ends,
and a service that is cancelled ends. Mishaps, signals, edits and the administrator are never asked for.

`Converges` says what the code does deliver: in push and rest mode the node ends up with the
panel's state unless a push was lost after the first one, or a poll started while the result of the last
one still waited (`Overlaps`). A push with an empty list of users is dropped by `handleDataEvent` (`panel/ws.go:449`)
with neither an event nor a resync; it counts as lost while the service has users or is about to be told of some
(`News`), because the ETag of an earlier poll without users then hides the change from every later one. Without the last condition it is `PollsHeal`, which fails: the waiting result puts an
old configuration back, and what the next poll brings is dropped because it equals the configuration
that was wished when it started. Without the first one, an old push that is still queued undoes what a poll brought, and
the ETag hides it. With two changes of the configuration and no users (not a run of its own: 200 000 states,
push and rest mode apart) `Converges` was checked as well. `FollowsPanel` makes the same point for the nodes of a machine:
whatever old answers, failures and competing rediscovers did, the ticker's next answer corrects
it. It does not correct the node's *status*: `HealthCatchesUp` fails, because
`reconcileNodeStatuses` of a late rediscover forgets a node that runs, the next one calls it
starting, and a service is silent until it applies another snapshot. `Recorded` fails only where a save
fails after its rename (it holds in Lifecycles, where it does not), and `FileIsFollowed` only for a file saved while the
services restart; `PROJECT.json` describes both under "findings".

## Proofs

*TrafficReport.* The invariants are not inductive by themselves. `IInv` adds where every
batch is: ids on the network are at most `reportSeq`; a copy of the outstanding id equals
the outstanding batch; every other id on the network is accepted; the phases of pusher, `wg` and
main goroutine exclude each other. Conservation follows because the panel bills an id
exactly when it moves from outstanding to accepted. Refinement: `PanelAccept` maps to a
bill, `Carry` to carry, the last step of a clean shutdown to the settlement, all else stutters.
`FinalFlushIsAlone` (no push beside the final flush) is proved and, being part of the others' argument,
not run by itself.

*NodeRuntime.* `IInv` says the record is `Good`: a running kernel matches wish and firewall, a
failure is stopped and current, unserved material is announced. One lemma per helper
shows that it leaves a good record, for any outcome; the step proof cites one lemma per
action. `NoRetryOfFailed` is an action property proved from the same invariant: an update
that changes nothing is blocked. `FailuresHold` and `StatusTruthfulHolds` are proved only.

*NodeSync.* `IInv` adds where a poll stands: while it asks, what it would restore (`saved`) is
committed, and what the client holds is ahead of `delivered` only by the configuration the poll
has got; so a failure restores a committed pair and a success delivers what is held. A poll
runs only beside the main loop. Handlers touch ETags and poll in three ways only (`Handled`:
keep, reset, launch), one lemma each. Mailbox: every operator that marks something dirty sets
`waking`, and whoever takes the token takes everything dirty.

*MachineOrchestrator.* `IInv` says that `nodes` and the handles name each other (`Owned`: a node's
handle is in a phase before `finishNode`, and every handle in such a phase is its node's), from which one
service per node follows; that a handle about to leave `nodes` has no mailbox any more
(`Routed`); that the worker that prepares a handle is the only one (`Held`); that there is no
node before the WebSocket is tried (`Booting`), and what `stopAll` waits for (`Ending`). Two
lemmas carry most steps: `Moved` (a worker goes on, nodes and handles stay) and
`Served` (a goroutine goes on with its handle). The proof shows also that the delete of
`stopNode` after `<-h.done` never deletes anything: `finishNode` has done it.

*SingBox.* `IInv` says for every stage of an operation whom inbound, rules and tracker know
(`Knows`), that the operation in progress is about what was last asked for (`Place`), and how far a
rollback has come (`Undone`). What a delta adds to the books is what it adds to the wish
(`MergeAddsNew`, `SubtractSame`), which is why a delta that changes no UUID may be applied in place.
`OneUserSetHolds` reads the invariant off between operations; `PermittedRoutedHolds` needs
`TrackedIsRouted`: at a relay entry the tracker never knows a user that the rules do not, except after a
rollback has restored the rules and before it restores the tracker.

*Dispatcher and tracker.* A book is exact when it equals the number of connections that are at a step
where they are counted (`DispCounts`, `TrackCounts`). One step moves one connection, so the number changes by at most one,
and the proofs show that the book changes with it. `ConnSound` says what a connection holds on its way from look-up to
registration. `TotalsInv` accounts for every total: what is in it and what open or closed flows still owe it are all the bytes carried, because
every tracker that is asked shares the kernel's totals. For the speed (`SpeedInv`): a speed that is in a bucket, or read and on its way to one, is the
panel's of the update it was read after (`since`); no race is left out, a stale bucket is one whose `since` is an earlier update.

*AnyTLS.* `Hands` lists the hands a live session may be in (the idle pool, a caller, a stream whose die
hook is registered, a hook that runs) and says that each excludes the others; a session has at most one open stream
because whoever opens one holds the session alone.

*xray kernel.* Two invariants. `ServesStages` says at every step of a call what is served: the new instance is
a `Candidate` until it is swapped in, a failed call leaves the kernel `Down`, and an edit of users goes from one list to
the other. `BytesKept` is the accounting: what a node was billed and what its instances still hold never
exceeds what was carried, and what was carried before the last reading is billed or still
held. The bytes of a node are a sum over all instances. The fold of the community modules is a recursive function;
that it has a value and adds up is proved without induction, by taking a smallest subset of a finite
set for which it would not (`LeastSubset`), so the sums are proved for any number of instances.

*Firewall.* `FireInv` adds to `Recorded` that the record in memory is the one on disk (`RecordKept`),
what is left for the call in progress to do (`Work`: it adds what is recorded and wanted, removes what is not wanted
and forgets only what is gone), and that a rule of ours in the host, when a call has read it, is
listed or was opened by that call (`Known`). Assumed: `SaveIsSafe`, a failed save leaves the old file; the run FirewallRecord is what happens
without it. `ServeInv` is about the ports of other nodes and needs no such assumption: while nobody else has touched the host, what a call saw
there stays until it removes rules (`SeenStays`), what it has opened lets traffic in (`OpenedAdmits`), and it removes only what
no plan wants (`Removes`); the wanted rules cover every plan because merging covers its ranges (`MergeRulesCover`).
`MergeExact`: the merged ranges have the same ports as the ranges, and neither overlap nor touch. `PlanIsValid`: the plan of any node is refused or
made of valid rules, which is what `FirewallConstants` assumes of the plans of a run, and no redirect takes the port it leads to.

*Process.* `ProcInv` says which services and managers there are at each step of `runWithReload`; the next generation begins only when
every service of the present one has ended. `HealthBooked`: each line of the health table is what the
service of the component said last. Restarts are counted by a potential: the generation, the debounce timers, what
waits in the reload channel, the configuration just taken and the edits to come add up to at most `MaxEdits + 1`, so a process restarts at most
once for every edit of its file.

*Certificates.* Both writers (service and renewal) hold a pair made of two halves that belong together (`Written`), ACME runs for the
configuration being applied or for the one in the kernel (`AcmeFollows`), and material that the kernel does not have is announced
by the flag, or by a renewal that is about to set it (`Material`). *Time.* `MedianIsRight`: while more than half of the servers heard tell the
truth, the median of the answers is the truth, for any numbers of servers and answers; a calibration is used for
three intervals only, and a change of need is not lost between the lock and the log (`Telling`).
*Configuration.* What runs is what a loaded and validated file asks for (`Loaded`, `Launched`), and what the last start left in memory comes from a
file with the same top level (`Remembered`). Directories nobody set by hand are apart because each lies
under an identifier that validation keeps apart or under the instance's own, and the start refuses two equal ones; they stay when the order changes because
`AutoInstanceID` and `InstanceBase` look at what an instance says and at the number of instances only. *xbctl.* `Recoverable` says for
every step of an upgrade and of its rollback where the old programs are. For the bindings, `TokensFollow` is inductive because every command writes the configuration before the tokens; `Wanted` says that the
configuration a command holds in memory has the tokens' bindings, and `Halfway` which of configuration, credentials and metadata
already have what it is about to report, wherever earlier commands ended.

*Sums.* The invariant of a sum is the conjunction of those of its parts, each under its `part`; the step proof takes the
part's own step lemma.

All safety invariants and all action properties without liveness that the passing runs check are
theorems; so is the refinement of TrafficBilling.

Assumed: only the named assumptions on the constants. Bounds are naturals; `None` is no configuration; two identities are equal when ID and
UUID are; a list of users has one user of an ID (`UserList` in `BoxConstants` and `KernelConstants`); a landing is no relay
entry; connections, flows and NTP servers are finitely many; certificate files hold a certificate and a key
(`CertConstants`); handles, workers and nodes have different names. TLC evaluates each of them in a run.

What stays with TLC: liveness, whose fairness is out of reach of the prover (`EveryBatchSettled`,
`ShutdownTerminates`, `RenewalReachesKernel`, `ResyncAnswered`, `Converges`, `FollowsPanel`, `ShutdownEnds`, `Progress`); the
findings; and `MergeJoins`, that the loop of `portset.Merge` computes `Merge`, which is induction over the list and is
evaluated for all sets of up to 4 ranges of 5 ports.

## Met while modelling, and not a run of its own

These follow from the code and are visible in the modules; no document of the repository denies
them, or no run was spent on them.

- Removing the last user of an xray node stops the kernel, and the next tick reports a failure
  (`kernel/xray/xray.go:439`, `service/service.go:847`).
- A push that removes the last user is dropped as empty, with neither an event nor a resync (`panel/ws.go:449`). After a poll
  that brought no users and a push that brought some, later polls are answered 304 and the removed users keep their service.
- The baseline of a mailbox is not renewed by polls, so a later delta may be merged into an old list
  (`controlplane/mailbox.go:54`).
- The report backoff called exponential (`service/service.go:128`) never exceeds one tick, since
  `OnFailure` always finds `skipRemaining` at 0.
- A late `stopNode` can take the mailbox from a node that was started anew.
- xray's `RemoveUsers` leaves open connections alone, although `kernel/kernel.go` says they are terminated; sing-box nodes
  that are no relay entry switch the inbound before the tracker; during the last step of a relay rollback a session may
  leave by the default outbound.
- The dispatcher writes to a nil map when the last connection of a known address closes between look-up and
  count (`kernel/xray/dispatcher.go:297`), and leaks a slot when a user turns from limited to unlimited in between. The
  tracker's device gate reads two maps under two locks, so a limit may be overshot.
- `cert/`: mode `self` reuses any persisted pair; two writers of the pair may leave halves that do not match at rest
  (they are refused on load); a late renewal reads the domain of the moment.
- `xbctl`: rewriting the configuration drops what it has no field for (inline `panel.token`, top-level `health_port`,
  a `standalone` instance, inline certificate contents); `bind` and `remove` take no installation lock; a killed upgrade leaves its lock. A removal
  that fails after the configuration was written is not repaired by a retry, which finds no binding: its token stays. After the last removal the failure
  of the stop is discarded (`main.go:894`) and success is reported. A binding at the top level is written back as an instance when it is
  removed (`main.go:951`): it is configured without a token, and the service is stopped; likewise, removing the last instance of a file that also
  has one brings that back. `bind` writes the version `unknown` into the metadata.
- A bucket stored by a connection that read the speed before an update and stored after it keeps the old speed until the next update
  (`limiter/speedtracker.go:116`).
- `config/`: nodes of one instance share its certificate directory; nodes with a kernel block and no directory of their own share
  the base directory; a second instance moves the first one's default directory; `MACHINE_ID` turns every
  instance into machine mode; the layout check compares URLs as written.
- A firewalld addition that lands after its timeout stays behind like an administrator's rule.

## Not modelled

- Kernel configuration builders (`kernel/*/config.go`): a translation of fields to the JSON of a third-party
  kernel; the field by field result has no state and no order, and a model would repeat the text.
- Parsing and validation of node models: a configuration is accepted or refused here.
- Monitor, logging, build information: I/O and formatting.
- `compat/sing-shadowsocks`: a third-party protocol library; packets and cryptography.
- `src/tests/relay-probe`: a test tool. Menus, listings, downloads and `doctor` of xbctl: text and I/O.
- Numbers that only tune timers (intervals, timeouts, backoff lengths), device snapshots in NodeSync, the rate arithmetic of the
  token buckets, padding of AnyTLS, decoding of NTP packets.
- A message that the reader of a broken connection still handles while the writer returns
  is treated as handled before the break.
- xray, sing-box, certmagic, ACME, the panel, ufw, firewalld, nft and iptables themselves are external: each of their calls may
  fail, and does what the code relies on otherwise.
