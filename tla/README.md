# A verification of gbase8s-operator

The operator keeps clusters of the GBase 8s database running on Kubernetes. A
cluster is one primary and several RSS nodes (replicas), each in a pod of a
StatefulSet, and a few pods of the connection manager (CM). The operator creates
the API objects of a cluster, makes one database node the primary and the others
its replicas, probes the primary, fails over to a replica when the primary does
not answer, and turns a deposed primary into a replica when it comes back.

This directory holds TLA+ modules for the parts of the operator that decide
something, TLC configurations that check them on small instances, and proofs,
checked with TLAPS, for instances of every size.

## 1. Inventory

### Parts, their state and their operations

| part | source | state | operations |
|---|---|---|---|
| reconciler | `controllers/gbase8scluster_controller.go`, `watch_filter.go` | none of its own; the work queue of controller-runtime, the API server | `Reconcile`, `createPVs`, `createPVCs`, `SetupWithManager` |
| cluster manager | `controllers/cluster_manager.go` (`ClusterManager`) | `clusterMap`, `rwLock` | `AddCluster`, `UpdateCluster`, `DelCluster`, `modifyParam` |
| cluster thread | `controllers/cluster_manager.go` (`clusterManager`, `clusterThread`) | `detecting`, `currFailedCount`, `detectingFlag`, `primaryPod`, `podList`, three tickers, three channels | `procModifyParam`, `procFailover`, `procUpdateGbase8sCluster`, `procUpdateCmCluster`, `startDetecting` |
| node information | `controllers/NodeInfo.go`, helpers in `cluster_manager.go` | none | `ParseNodeInfo`, `findRealGbase8sPrimary`, `isGbase8sClusterNormal`, `getNodesRssStatus` |
| builder | `controllers/gbase8s_cluster_builder.go` | files in the pods | `BuildCluster`, `BuildTrust`, `BuildGbase8sSqlhost`, `BuildCmSqlhost` |
| pod helpers | `controllers/pod.go` | none | `GetAllPods`, `GetHostTemplate` |
| clients | `util/exec.go`, `util/httpClient.go`, `entity/` | none | `Exec`, `Get`, `Post` |
| templates | `controllers/*_statefulset.go`, `*_service.go`, `*pv.go` | none | build API objects |
| API types, start, logging, charts | `api/v1`, `main.go`, `controllers/log.go`, `charts`, `config` | none | - |

### How they interact

* controller-runtime calls `Reconcile` for a Gbase8sCluster on every change of
  it or of a StatefulSet it owns, never twice at a time for one name.
* `Reconcile` creates what is missing, then calls `AddCluster` with the pods it
  has listed and the detecting parameters, `BuildCluster`, and `UpdateCluster`.
  For a resource that is gone it calls `DelCluster` instead.
* `AddCluster` starts a goroutine for a new cluster. For a known one it sends two
  messages on the unbuffered `cfgQueue`; `DelCluster` sends on the unbuffered
  `destroyClusterManager`; both hold `rwLock` meanwhile. `UpdateCluster` sends
  on `activeUpdateCluster`, of capacity one, and drops the signal if it is full.
* The thread selects between its tickers and channels and handles one event at
  a time. Its handlers talk to the pods: by HTTP to the agent on port 8000
  (probing and failover), and by `kubectl exec` (update and start of detecting).
* The pods change on their own at any time: kubelet and StatefulSet controller
  start, restart and replace them; the database keeps its role on disk.

### What is hard about it

Failures between two commands of a handler; answers that get lost although the
command was executed; a probe that fails for a healthy primary; an operator that
is replaced and has forgotten everything; deposed primaries that come back;
lists of pods and parsed states that are out of date when used; blocking sends
under a lock; channels that are closed while others send. `PROJECT.json` lists
each hazard at its line with the properties that watch it.

### What makes each part correct

* *cluster thread*: fails over only when justified, and then does; promotes only
  a replica of the lost primary; never destroys the data of the promoted node;
  knows who is primary; repairs what comes back; converges when faults stop.
* *cluster manager*: one thread per cluster; no send on a closed channel; every
  call returns; a thread follows its resource.
* *node information*: recovers from the text what the node says; names the same
  primary the table at `cluster_manager.go:343` promises.
* *reconciler*: what the resource asks for is what the API server has in the end,
  also after errors, stale reads and scaling; a claim is there before the pod
  that would have it made without a volume.
* *builder*: every pod that is there in the end has files that name all pods, and
  the signal to link the databases comes after the files.
* *connection manager update*: the connection manager runs in each of its pods.

## 2. Modules

| module | models | composed from |
|---|---|---|
| `NodeInfo` | the database nodes as the commands change them, the parsed answer, the choice of a primary | |
| `ClusterThread` | one cluster: `clusterThread` and its handlers, the Reconcile calls that feed it, the pods, faults | extends `NodeInfo` |
| `Leadership` | abstract: who leads, and how a node may change its role | implemented by `ClusterThread` |
| `ClusterRegistry` | `ClusterManager`: the map, the lock, the channels, the life of a thread, concurrent calls | |
| `ManagerLifecycle` | abstract: a cluster has a thread or none, started, changed and stopped by a call of its own | implemented by `ClusterRegistry` |
| `Reconciler` | `Reconcile` up to `AddCluster`: the objects at the API server, the caches, the work queue, the garbage collector | |
| `PodFiles` | `BuildCluster`, command by command, and `procUpdateCmCluster`, while pods come and go | |
| `MCClusterThread`, `MCClusterRegistry`, `MCReconciler`, `MCPodFiles` | instances for TLC | extend the module they name |
| `ClusterThreadProofs` | lemmas about the commands and the parser, type correctness | extends `ClusterThread` |
| `ClusterThreadSafety` | proofs of the safety properties | extends `ClusterThreadProofs` |
| `ClusterThreadTracking` | proofs that no node is forgotten | extends `ClusterThreadSafety` |
| `ClusterThreadRefinement` | proof that `Leadership` is implemented | extends `ClusterThreadSafety` |
| `ClusterRegistryProofs` | proofs of the safety of the registry, that whoever holds its lock gets on, and that `ManagerLifecycle` is implemented | extends `ClusterRegistry` |
| `ReconcilerProofs` | type correctness, that claims come before the pods, and that nothing is left undone at rest | extends `Reconciler` |
| `PodFilesProofs` | type correctness, and that files come before the signal | extends `PodFiles` |

The five models meet where one calls the other. `Reconciler` ends with
`AddCluster`, which `ClusterRegistry` models for many clusters and concurrent
calls; `ClusterThread` begins with the thread it has started and takes the list of
pods and the parameters from it; `PodFiles` is what happens between `AddCluster` and
the signal, and what the thread does when the databases are linked. Each
abstracts the neighbours to what their own properties promise: `PodFiles` lets
`procUpdateGbase8sCluster` succeed when its pods run and are two at least, which
is `Convergence` of `ClusterThread`; `ClusterThread` takes files for written and StatefulSets for
created, which are `SignalAfterFiles` and `StatefulSetsFollow`.

### ClusterThread

The database is a function `db` from pods to what a node has on disk (server
type, source, registered secondaries) and whether it runs. Four commands change
it (`AddRss`, `SetStandard`, `SetRss`, and their combination `PromoteNode`); the
operator sees it only through `ParseNodeInfo`, which loses type and source of a
node that is not on line. The other variables are the fields of `clusterManager`
under short names (`primary` is `primaryPod`, `sub` the names in `SubStatus`,
`failed` is `currFailedCount`, `gOn` and `cOn` say whether the two update tickers
run), the locals of the handler in progress, and the Reconcile call in progress.

One action is one step between two points where the outside can interfere: a
probe, the collection of answers, one command to one pod, one message. So a pod
may crash, be evicted or come back between any two commands of a handler. The
answers of one collection are read at once: they come from different pods and
reading one earlier or later only means another moment of that pod's own life.

| action | code |
|---|---|
| `ProbeTick` | `procFailover`, the probe and the counter |
| `Collect` | `procFailover`, `nodeList` and `secondaryNodeList` |
| `Promote(v)` | one candidate: nothing executed, executed but the answer lost, done, or failed with stderr |
| `Rejoin(q)`, `RejoinDone` | the other RSS nodes, then the signal |
| `UpdateFails`, `UpdateKnown`, `UpdateUnknown` | `procUpdateGbase8sCluster` up to the first command |
| `UpdateAdd`, `UpdateSetRss(q)` | `addSecondary`, `setRssServerType` for one node |
| `UpdateWaits`, `UpdateDone` | its return with "wait", and with nil, `startDetecting` included |
| `CmTick`, `TakeActive`, `CfgPodList`, `CfgDetecting` | the other events of the loop |
| `ReconcileList` | `Reconcile` before `AddCluster` |
| `ReconcileSignals`, `ReconcileBuildFails` | `Reconcile` after it: `BuildCluster` returns nil, or an error and there is no signal |
| `OperatorRestart` | a new process and its first `AddCluster` |
| `Crash`, `Recover`, `Boot`, `Evict`, `PodCreated`, `SpecChange` | the outside |

Every kind of fault has a budget (`MaxFaults`), which bounds TLC's search; the
proofs are for any budget. `glitch` is a request that fails without effect,
`lost` one that fails with effect, `stderr` a failover command that fails on its
node. The counter is cut at `FailedCap`, which every value of `Counts` respects,
so the comparison with `detectingCount` is not changed by it.

`streak` and `lastPromoted` are history variables: the failed probes of the
current primary since its last good answer and under the parameters in force,
and the pod that last executed the failover command.

The connection managers' pods are not in this module. Whether `BuildCluster` finds
one that answers `GetHostTemplate` (`gbase8s_cluster_builder.go:242`) is a free
choice once all database pods exist. A changed `detectingInterval` is a change of
the resource that `CfgDetecting` delivers: it resets `currFailedCount`
(`cluster_manager.go:109`), as a changed `detectingCount` does.

`Leadership` is what remains when probes, tickers, messages and faults are taken
away: `leader` is `primaryPod`, `role` and `from` are server type and source on the
nodes' disks. A node is promoted only as the leader's own replica, data are
copied from the leader only (from anybody while the cluster forms), and the
leader is never overwritten. A promotion may leave the old leader: the answer to
the command got lost.

### ClusterRegistry

A worker is a goroutine in `Reconcile`; its steps are the places where it can
wait: for the lock, for a thread to receive, for `BuildCluster`. `AddNew`,
`UpdateCluster` and `DelUnknown` take and release the lock without waiting in
between, so each is one action; `AddExisting` and `DelExisting` take it and
later actions release it. A handler of a thread is only a stretch of time
(`busy`). `Mgrs` are the objects that may exist at a time; one is used again
after nobody refers to it. controller-runtime runs one worker as the operator
configures it; the model has any number, which is what `rwLock` is for.
`skipped` records the keys whose last Reconcile gave up without an error, at
`gbase8scluster_controller.go:330`.

In `ManagerLifecycle` there is no map, lock or channel: `thread[k]` is the content
the thread of a cluster works with, its pods and its parameters apart, since two
messages carry them. Under the mapping, a thread that has been told to end is
none as soon as `DelCluster` has sent its message.

### Reconciler

One Gbase8sCluster. `api` is what the API server has of each type of object,
`cache` what the informers have delivered; a read of `Reconcile` is answered by
`cache`, a write goes to `api` and fails with AlreadyExists or NotFound if `cache`
was behind. One type of object catches up in one action (`Sync`) and may stay
behind as long as it likes. `Stages` is the order of `Reconcile`: volumes and
claims of a part, the reading of both StatefulSets, services, StatefulSets, and
the ClusterManager. One action is one request. `up` says whether some database
container runs and answers `GetHostTemplate`; containers start and stop as they
like, so the first Reconcile of a new cluster can, and in practice does, end
without `AddCluster`.
`missed` is a history variable: the last Reconcile that came so far found `up`
false.

| action | code |
|---|---|
| `Gone`, `Begin` | `Get` of the resource, `DelCluster` when it is gone |
| `Ensure(type, p)`, `VolumesDone` | `createPVs`, `createPVCs`, one node at a time |
| `GetStatefulSet(p)` | the read that counts a missing one as 0 replicas |
| `EnsureService(p)` | the service |
| `CreateStatefulSet`, `UpdateStatefulSet`, `KeepStatefulSet` | the StatefulSet, by the replicas read before |
| `AddCluster`, `NoHostTemplate` | the end with the ClusterManager, or, when no database container answers, with an error that is swallowed (`gbase8scluster_controller.go:328`) |
| `RequestFails` | any return with an error |
| `Sync`, `Resync` | informers, `Owns` and the event filter |
| `Create`, `Change`, `Delete`, `Collect`, `ClaimFromTemplate`, `OperatorRestart` | the user, the controllers of Kubernetes, a new process |
| `ContainerStarts`, `ContainerStops` | the database containers |

An object is known by its owner, the `uid` of the resource that was read; the
owner of a volume is not in its namespace, so volumes are never collected. A
claim that the StatefulSet controller makes from the template has owner 0.

### PodFiles

One command to one pod is one action, so pods restart, are evicted or scaled
between any two. A file says for how many pods it was written; pods of a
StatefulSet are numbered, so that is all their names can differ in. `Begin` to
`Signal` is `BuildCluster` (`NotBuilt` its early return with nil, `BuildFails` those
with an error, `Write(c)` one file in one pod, whose error is only logged), and
`TakeActive` to `CmDone` the thread (`CmPod(c)` is one turn of the loop in
`procUpdateCmCluster`). `Gbase8sFails` is also the refusal of a single database
(`cluster_manager.go:596`): it stops the ticker and the connection managers are
never started. No part is asked to have 0 replicas (`PodFilesAssumption`): there
`Reconcile` fails before it comes to `BuildCluster` once the StatefulSet exists
(`gbase8scluster_controller.go:295`). `excuse` is a history variable: since the
pods were listed, a write failed, a listed pod was not running, or pods or
resource changed.

## 3. Runs

| run | instance | shows |
|---|---|---|
| `thread_crash` | 3 pods, count 1; 1 crash, 1 eviction, 1 glitch | `TypeOK`, `SubStatusSound`, `PromotionKept`, `DeposedTracked`, `StrayTracked`, `PromotesReplica`, `ImplementsLeadership` |
| `thread_operator` | 2 pods, counts 1 and 2; 1 crash, glitch, lost answer, API error, operator restart, change of `detectingCount` or `detectingInterval` | `FailoverJustified`, `BelievedIsPrimary`, `SubStatusSound`, `AdoptsLinked`, `ImplementsLeadership` |
| `thread_failover` | 3 pods; 1 crash, 1 glitch, 1 failing failover command; pods may stay down | `FailoverHappens` (of behaviours in which no failover command fails on its node), `DeposedTracked` |
| `thread_recovery` | 2 pods; 1 crash, eviction, lost answer, operator restart; pods come back | `Convergence` |
| `registry` | 2 workers, 2 keys, 2 managers, 2 contents, symmetric | `TypeOK`, `NoSendOnClosed`, `OneManagerPerCluster`, `HolderMeetsThread`, `MapFollowsResource`, `ImplementsLifecycle`, no deadlock |
| `registry_live` | the same with 1 content, without symmetry | `CallsReturn` |
| `reconciler` | databases only, no listed nodes, 0 to 2 replicas, 2 creations or changes, 1 failing request or restart, containers start and stop | `TypeOK`, `StatefulSetsSettled`, `ManagerSettled`, `StatefulSetsFollow`, `ServicesFollow`, `ManagerFollows` |
| `reconciler_faults` | both parts, 1 listed node, 1 replica each, 1 creation, 1 failing request or restart, containers start and stop | `ClaimsSelectVolumes`, `StatefulSetsSettled`, `ManagerSettled` |
| `pod_files` | 1 or 2 databases, 2 CM pods, 1 scaling of the databases, 1 fault | `TypeOK`, `SignalAfterFiles`, `FilesComplete`, `CmRuns` |
| `thread_zero_count` | 2 pods, count 0, no fault | violates `FailoverJustified` |
| `thread_stderr` | a failover command fails on its node | violates `BelievedIsPrimary` |
| `thread_restart` | 1 crash, 1 operator restart | violates `PromotionKept` |

*Why the bounds are enough to be interesting.* Three pods are the smallest
cluster where failover has a choice, a third node must change its source and a
deposed primary returns to a cluster that works; one crash, one eviction and one
failed request suffice for a second failover while the first is unfinished. With
two pods the cluster has no spare: every interleaving with the operator's own
failures stays small enough to be searched entirely. Two registry workers with
two keys meet in the lock and in the map; two managers let a key be created
again while its old thread ends. What a larger instance could add to a safety
property is the subject of the proofs. Two creations or changes let a resource
be scaled, or deleted and made again while the objects of the old one are not
collected and the caches still show them, and a fault at every point; the second
run of `Reconciler` trades one of them for the second part and the volumes, and
checks safety only. In `PodFiles` two CM pods are the smallest number where the
loop over them can end before its end. One or two databases are both sides of
the check that refuses a single one, and scaling from one to the other makes
every file out of date. The connection managers are not scaled in this run, which
would make it too large; `FilesBeforeSignal` is proved for that too.

The configurations of `ClusterThread`, `Reconciler` and `PodFiles` switch off the
deadlock check: when the user and the faults are used up, everything rightly
comes to rest.

### What the violated runs show

* `thread_zero_count`: with `detectingCount` left out, every probe, also a good
  one, starts a failover. `values.yaml:70` promises it after that many failures.
* `thread_stderr`: a candidate whose failover command failed is adopted; the log
  line says the failover failed. Nobody may be primary then, and no further
  failover follows while that node answers: this is why `FailoverHappens` claims
  nothing of a behaviour with such a failure.
* `thread_restart`: after a failover and a replacement of the operator the
  deposed primary may win, and the promoted node is restored from it.

`BelievedIsPrimary` and `SubStatusSound` therefore hold without `stderr` faults,
`PromotionKept` without `stderr`, `lost` and `restart` faults.
`DeposedTracked` and `StrayTracked` hold without API errors and lost answers: an
API error stops the update ticker (`cluster_manager.go:831`), and a failover
whose answer got lost sends no signal, so nothing starts the update before the
next Reconcile.

Both, and `AdoptsLinked`, also fail with four pods and a replaced operator. TLC finds it in 25 steps
of an instance of `ClusterThread` with four pods, count 1, one crash and one
restart, too large to be searched to its end and therefore not among the runs: the
primary crashes, a replica is promoted, the operator is replaced after one of
the other two has been restored, and the old primary comes back to the one
that still follows it. Now two primaries have a connected replica each,
`isGbase8sClusterNormal` (`cluster_manager.go:446`) is true, `UpdateUnknown`
succeeds without naming a primary, `startDetecting` takes one of the two, and
the ticker stops. With three pods or fewer this cannot happen, which is proved.

### Fairness

A handler that has begun runs to its end (weak fairness of `Handler`): every
request has a timeout. Go's `select` chooses among ready cases at random, so an
event that is ready again and again is taken (strong fairness of the events).
`Reconcile` is called again for every StatefulSet event and on every resync
(weak fairness of `ReconcileList`), and again and again some connection manager's
container answers it (strong fairness of `ReconcileSignals`): a cluster without one
is not linked, since `BuildCluster` then fails before the signal. The StatefulSet
controller creates missing pods and a container that starts comes on line (weak
fairness of `PodCreated` and `Boot`). `UpdateUnknown` leaves out the waits before it
reads the nodes (`cluster_manager.go:627` to `:644`: each container is shown as
running, two `runserver` processes in each pod), which the model can pass at any
time; so `Convergence` assumes that a pod that is on line passes them in the end.
It also assumes that registering a name the database knows already succeeds. That a
crashed container comes back is assumed only by `RecoverySpec`; `FairSpec`,
under which `FailoverHappens` is checked, lets it stay down. In the registry, a
mutex and a channel receive serve whoever waits long enough (strong fairness of
a call), handlers end, and a closed manager is collected. Nothing is assumed of
the outside otherwise: faults, changes of resources and new events may happen or
not.

In `Reconciler`, the worker goes on, informers catch up and the garbage collector
gets to every object (weak fairness). `StatefulSetsFollow` needs no more: every
stale read is followed by an error or an event of a watched object. The other two
properties have the premise that `Reconcile` is repeated now and then
(`WF_vars(Resync)`), which the informers' resync period grants; without it a service
that is collected late is not made again, for services are not watched, and an
end of `Reconcile` without `AddCluster` may be the last one: nobody watches pods, and
the event of the StatefulSet's status may come before the cache shows that the
container runs. `ManagerFollows` has the further premise that in the end some
database container stays up, as long as there is a resource.

In `PodFiles`, `Reconcile` is repeated and runs to its end, the cache catches up,
and as long as kubelet and StatefulSet controller have something to do one of
them does it (weak fairness); the events of the thread are
taken if they are ready again and again (strong fairness: `select` is random), and
`procUpdateGbase8sCluster` succeeds in the end if it may again and again, which is
what `Convergence` says of it.

## 4. Proofs

All theorems are about any set of pods or any sets of workers, keys, managers
and contents, any lists of nodes and any numbers of replicas, faults and
changes; the only assumptions are those of the constants (`PodsAssumption`,
`ThreadAssumption`, `NoneAssumption`, `RegistryAssumption`, `ReconcilerAssumption`,
`PodFilesAssumption`) and the premises a theorem states.

`ClusterThreadProofs.TypeCorrect`: `TypeOK` is inductive. The lemmas before it say
what each command does to the database, what the parser and the sets derived
from the answers contain, and that budgets stay natural numbers.

`ClusterThreadSafety`:

* `FailoverIsJustified` (premise: 0 is not a value of `detectingCount`).
  `FailoverJustified` is not inductive: it needs `CountInv`, that the counter
  never exceeds the failed probes in a row and that a failover under way has
  reached the threshold: new parameters reset the counter with the streak, and
  only between two probes. The premise is what `thread_zero_count` refutes without.
* `PromotesOnlyReplicas`, without premises. `HandlerInv` relates the locals of
  the handler to the database while other actions interleave (every candidate
  has the lost primary as its source), and `Shaped` says that only RSS nodes
  have one. `DbStep` reduces all steps to four commands and steps that leave the
  disks alone.
* `BelievedPrimary` and `SubStatusIsSound` (premise: no `stderr` fault), together,
  as `PrimaryInv`: the primary is one and knows the nodes in `SubStatus`. The
  step is inductive only with `HandlerInv`: a handler registers nodes on, and
  restores nodes from, the primary the thread knows, and never restores it.
* `PromotionIsKept` (premises: no `stderr`, `lost` and `restart` fault), by
  `PromotedInv`: the last promoted pod is the one the thread takes for the
  primary, so `BelievedPrimary` applies.

`ClusterThreadTracking`: `AdoptsOnlyLinked`, `DeposedIsTracked` and
`StraysAreTracked`. The first says that a thread without a primary, a new
operator above all, takes one up only in a cluster that is completely linked;
the other two are the safety core of `Convergence`: a cluster in which nothing
is going on is linked. All three have the premise that the operator is not
replaced or there are at most three pods. `AdoptsOnlyLinked` needs no other,
whatever is lost or fails. The other two exclude lost answers and API errors,
and `StraysAreTracked` excludes `stderr` faults as well, because they put names
into `SubStatus` that `addSecondary` then skips. The properties say nothing of a
handler in progress, so three invariants follow it through:

* `TrackInv`: an update that will end with nil still has every node that is not fed
  by its primary among those it restores (such a node does not name the primary
  as its source, `UnfedHaveNoSource`), and every node that a primary of its own
  choice does not know among those it registers (`MissedAreUnregistered`). So
  when it ends one node feeds and knows all the others, and `startDetecting` can
  find no other (`DoneIsLinked`). A failover that may still be given up leaves the
  update ahead.
* `RegInv`: the nodes that a known primary does not know, which needs `PrimaryInv`:
  names in `SubStatus` are registered.
* `LoneInv`: without a replacement, and while no primary is known, at most one node
  takes itself for one, which is then chosen (`ChosenIsLeader`).

An update that names no primary ends with nil only if the cluster looks normal.
`NormalIsComplete` shows that it then is, when at most one node calls itself
primary or there are at most three pods: two primaries with a connected replica
each are four different pods.

`ClusterThreadRefinement`: `LeadershipImplemented` (premise: no `stderr` fault). The
mapping is `Roles`; each command to a node is one step of `Leadership`, everything
else a stutter. What makes the guards of `Leadership` true comes from `HandlerInv`
and `Shaped`, and from two more invariants: the handler never restores the node
it works for (`TargetInv`), and only a primary has registered nodes (`SubsInv`).

`ClusterRegistryProofs`: `IndInv` relates lock, map, threads and calls: who holds
the lock (`LockInv`), that one worker has a key (`KeyInv`), that a call works on
the manager the map has (`TargetInv`), and that a manager in the map is alive
unless it is just being deleted (`MapInv`). `TypeCorrect`, `ChannelSafety` and
`SingleManager` follow. `RegistryFollowsResources` adds `ReadInv`: what a call has
read is current unless its key is queued again. `HolderIsServed` is the safety core
of `CallsReturn`: whoever holds `rwLock` over a blocking send meets a thread that
runs and has not been told to end, so it waits for a handler at most. It follows
from `IndInv` and from `MadeInv`, that a thread which does not run yet is being
started by the call that made it. `LifecycleImplemented` shows, with
these invariants, that every step is one of `ManagerLifecycle` or a stutter.

`ReconcilerProofs`: `TypeCorrect`, and `ClaimsSelect`: while the first resource lives,
no claim of a listed node is made from the template. The claim is owned by the
resource, so it is not collected (`ClaimsOwned`); only this resource has been read,
whatever the caches say (`ReadFirst`); and `Reconcile` has made all claims of a part
before it comes to a StatefulSet (`ClaimsFirst`, with `NextStageIs`: no stage is left
out). A second resource of the same name has no such promise: the claims of the
first may still be known to the cache and collected later.

`StatefulSetsAreSettled` and `ManagerIsSettled`, without premises, are the safety
cores of `StatefulSetsFollow` and `ManagerFollows`: when nothing is queued there is
nothing left to do, however stale the reads were and whatever failed. The
ClusterManager works with what the cache holds, or with nothing if that is
nothing. There is one exception, and the theorem names it: `missed`, a last
Reconcile that found no database container to ask. It ends without an error, so
nothing but a later event or resync makes it good, and `ManagerFollows` needs
`Resync` for it. The
inductive invariant `SettledInv` says what a Reconcile in progress may rely on
as long as its name is not queued again: it works with what the caches hold now
(`seen` is `View`), and the StatefulSets behind it are `Served`, which lets the cache
be behind the API server only in a way that a later event will report. `GenInv`
tells a new content of the resource from all that a cache may hold. The proof
also found an assumption the module had used without saying so: `None` is not a
StatefulSet (`NoneAssumption`).

`PodFilesProofs`: `TypeCorrect`, and `FilesBeforeSignal`: `UnexcusedInv` says which
pods may still lack which file at each step of `BuildCluster`, as long as nothing
has happened that excuses it.

Only model-checked: the liveness properties `FailoverHappens`, `Convergence`,
`CallsReturn`, `StatefulSetsFollow`, `ServicesFollow`, `ManagerFollows`,
`FilesComplete` and `CmRuns`. Four of them have a safety core that is proved, as
said above: what they add is that rest is reached. The other four have none: a
service that is missing, a file that was not written and a connection manager
that does not run may all be left at rest until `Reconcile` is called again, and
a failover that is needed is a state of the thread that only its next tick ends.
Fairness and ENABLED are out of TLAPS's reach, as is induction over data; the
models have no recursive operator.

## 5. Not modelled, and why

* Values of `detectingInterval` and `timeout`: they set the pace (that a change of
  `detectingInterval` also resets the counter is in `CfgDetecting`); that an
  interval of 0 makes `time.NewTicker` panic at `cluster_manager.go:919` is
  outside the models.
* Server statuses other than on line and starting up (quiescent, backup,
  shutting down): `procUpdateGbase8sCluster` treats them as on line.
* A registration command that fails after some of its servers.
* A number of databases that changes: `ClusterThread` keeps its pods. Scaling is
  in `Reconciler` (StatefulSets) and `PodFiles` (pods, files, CM processes).
* The text that `ParseNodeInfo` and `GetHostTemplate` cut up, and that of the files.
* What a running connection manager has read. It is never told to read again:
  the reload announced at `cluster_manager.go:732` is commented out, so a property
  about it would fail.
* Images, templates and other content of a StatefulSet: `Reconcile` compares the
  number of replicas only, so a change of those alone is never applied.
* The list of nodes of a resource, which is fixed when it is created; two
  volumes and claims per node are one. Listed nodes and replicas are independent,
  as in the code.
* Two operators at a time: leader election is taken to work.
* A part with 0 replicas: `Reconcile` takes its StatefulSet for a missing one,
  tries to create it again and fails for ever. The properties of `Reconciler` leave
  that case out by name (`Stuck`), `PodFiles` by `PodFilesAssumption`.
* Templates, API types, start, logging and charts: no state.

## 6. Plan

Done: the database thread, the registry, the reconciler, files and connection
managers, two abstract specifications with proofs that they are implemented,
proofs of every invariant the runs check, and the safety cores of four of the
liveness properties.

Left, in the order of their worth:

1. `findRealGbase8sPrimary` as the code's loop over a list of nodes, with the
   lemma that it returns a member of `RealPrimaries`, and a member of the table at
   `cluster_manager.go:343`.
2. What a promotion keeps when the operator is replaced: the weakest premise on
   the links of the promoted node under which `PromotionKept` still holds.
3. A resource that is deleted and made again while its claims are collected:
   what `ClaimsSelectVolumes` leaves out.
4. Scaling the databases: pods that leave and join in `ClusterThread`, and what
   stays of them in `podList`, `SubStatus` and on the primary
   (`cluster_manager.go:608`).
