# Verification of the static route operator

TLA+ models of the operator's control logic, TLC runs that check them on small
instances, and TLAPS proofs of the main results for every instance. The paths
below are relative to the repository.

The operator runs one pod per node. Each pod realises the cluster's
`StaticRoute` objects as IP routes in its node's kernel and reports the outcome
in the one status list that all pods share. There is no leader: what keeps the
pods out of one another's way is the API server's optimistic concurrency and a
finalizer that the fastest pod sets and the last one removes.

## 1. Inventory

| Component | State | Operations | Interacts with | What is hard | What makes it correct |
|---|---|---|---|---|---|
| **StaticRoute resource** `api/v1/staticroute_types.go`, **wrapper** `controllers/staticroute/wrapper.go` | spec, finalizer, status list | `setFinalizer`, `isProtected`, `isChanged`, `statusMatch`, `addToStatus`, `alreadyInStatus`, `removeFromStatus` | used by the reconciler on a private copy | equality of spec and recorded state; the address loop of `isProtected` | a node changes its own entry only; spec and status come to agree |
| **StaticRoute controller** `controllers/staticroute/staticroute_controller.go` | two work queues per pod, a reconciliation in progress per queue | `reconcileImpl`: selectors, protected subnets, gateway, then `addOperation`, `deleteOperation`, the deferred report | API server (get, update, status update), route manager, kernel (`RouteGet`) | stale copies, conflicts, lost answers, a crash between any two calls, the pod's two controllers on one object, edits and label changes under way | the finalizer is held while a status shows the route; nothing vanishes under a node; the status is honest; selected nodes end provisioned; deletions drain |
| **Route manager** `pkg/routemanager` | `managedRoutes`, watchers, a netlink subscription | `RegisterRoute`, `DeRegisterRoute`, `IsRegistered`, `RegisterWatcher`, `DeRegisterWatcher`, `Run` | called by both workers over unbuffered channels; netlink | a loop that calls the kernel and the watchers itself, a map read behind its back, deletions that arrive late or not at all | calls are atomic; damage to a managed route is noticed; calls return |
| **Node controller** `controllers/node/node_controller.go` | a work queue per pod, the listed copies while it cleans | on a Node's deletion, `nodeFinder.delete` takes its entry out of every object | API server, the caches of Nodes and StaticRoutes | every pod does it at once; the walk stops at the first failed update; the Node may come back; nobody is told twice | entries of removed Nodes go, and nothing else does |
| **Start-up** `main.go` | configuration from the environment | `mainImpl`, `parseTargetTable`, `collectProtectedSubnets`, the search for the CRD | creates all of the above | a restart forgets the managed routes; a mistake anywhere panics; the CRD may come later than the pods | no controller runs on a part of its configuration; the operator comes up when it can |
| API server, administrator, Linux kernel (external) | objects and versions; route tables | as the operator uses them | | conflicts, admission, `EEXIST`, `ESRCH` | |
| Generated deep copies, group version, version, logger interface | | | | | no behaviour of their own |

`PROJECT.json` lists the components with their status, and every hazard of the
code at its line with the properties that cover it.

## 2. Modules

| Module | Models | Built on |
|---|---|---|
| `StaticRoute` | the resource and the wrapper's methods as pure operators | |
| `ApiServer` | stored objects, resource versions, the status subresource, deletion with finalizers, the administrator's writes | `StaticRoute` |
| `StaticRouteController` | the reconcilers of all nodes over the API server, caches, queues, managers and kernels | `ApiServer` |
| `FinalizerProtocol` | abstract: what the pods promise together about the finalizer | |
| `StaticRouteProperties` | properties, the inductive invariant, the refinement mapping to `FinalizerProtocol` | `StaticRouteController` |
| `MCStaticRoute` | TLC instances | |
| `StaticRouteTyping`, `StaticRouteProofs`, `StaticRouteRefinement` | proofs: types and admission, the inductive invariant, the refinement | `StaticRouteProperties` |
| `NodeController` | the cluster: node controllers beside the reconcilers, Nodes that leave and return, pods that stop and start | `StaticRouteController` |
| `ClusterProperties`, `MCCluster`, `ClusterProofs` | properties, TLC instances, proofs of the cluster | `NodeController`, `StaticRouteProperties` |
| `HonestyProofs` | proofs: the status of a node at rest is honest, among the reconcilers alone and in the cluster | `ClusterProofs` |
| `RestProofs` | proofs: a node rests only when its work is done | `HonestyProofs` |
| `RouteTable` | abstract: a table of routes and a bag of watchers, on which every call is atomic | |
| `RouteManager` | the goroutine of `Run`, its callers, the kernel and the subscription | `RouteTable` |
| `RouteManagerProperties`, `MCRouteManager`, `RouteManagerProofs` | the same for the route manager | `RouteManager` |
| `Startup` | `mainImpl` from the environment to the running controllers, and the address loop of `isProtected` | |
| `StartupProperties`, `MCStartup`, `StartupProofs` | the same for the start-up | `Startup` |

The controller module takes the manager's calls as single steps. `RouteTable` is
the reason it may: the run `Manager` checks, and the theorem
`ManagerRefinement` proves, that the manager with its channels and its
unsynchronised map read implements such a table. A `Restart` of the controller
module is a `Forget` of the table, which is also where the manager's own ways to
end the process (`StreamEnds`, `ReadDuringWrite`) go.

### StaticRoute and ApiServer

Strings are members of small sets, classified by what the code does with them: a
subnet that `net.ParseCIDR` refuses (`Unparsable`) or that overlaps a protected
one (`Protected`), a gateway that `net.ParseIP` refuses (`Malformed`) or that the
node reaches without a next hop (`Direct`). A selector list is the set of node
labellings it accepts, `None` when absent, `EmptyList` when empty, `BadSelectors`
when the label package refuses it. `Encoded` is what a write makes of it: an empty
list is left out (`omitempty`) and comes back as an absent one, which
`reflect.DeepEqual` in `isChanged` tells from the empty list of the spec. `Spec.Gateway` and the gateway in a status are kept apart: the status
shows the gateway in use, `0.0.0.0` before there is one, and `<nil>` when
`selectGateway` returned none, which the CRD's pattern does not admit.

A resource version is only compared with the stored one, so the model keeps the
set of clients whose copy is current, `latest[x]`: the worker of each queue, the
node controller and the cache of each node. A write leaves at most its author there. This is exact and
needs no counter, and the state space stays finite.

### StaticRouteController

A pod has two workers because `SetupWithManager` builds two controllers over one
reconciler: one for events of StaticRoutes, one for label changes of nodes. Each
has its own queue and `MaxConcurrentReconciles` is the default 1. The watch of
StaticRoutes has `For` and no predicate, so every status write by any node is an
event for all.

`Specs[x]` are the specs the administrator may give the StaticRoute `x`.

A reconciliation begins with one action per outcome of `reconcileImpl` up to its
first call that changes something (`Begin`: `WrongSelector`, `NodeListFails`,
`NotSelected`, `Overlaps`, `InvalidGateway`, `RouteGetFails`,
`NotDirectlyRoutable`, `NoNextHop`, `Withdraw`, `Provide`). After that every call
that leaves the worker is a step of its own:

| `pc` | Action | Code |
|---|---|---|
| `finalizer` | `StoreFinalizer` | `addOperation`, `client.Update` |
| `register` | `CheckRegistered` | `IsRegistered`, `net.ParseCIDR` |
| `add` | `RegisterRoute`, `RegisterFails` | `RouteManager.RegisterRoute` |
| `report` | `NothingToReport`, `ReportStatus` | the deferred function, `Status().Update` |
| `deregister` | `DeRegisterRoute`, `DeRegisterFails` | `deleteOperation` |
| `forget` | `ForgetStatus` | `deleteOperation`, `Status().Update` |
| `release` | `ReleaseFinalizer` | `deleteOperation`, `client.Update` |

`CheckRegistered` and `RegisterRoute` are two steps because the code asks and
then registers, with the other worker of the pod in between. Every update either
is applied, or fails as `Failed` says: refused (stale copy, object gone,
inadmissible), lost before it was applied, or applied with the answer lost. A
failed reconciliation goes back to its queue unless the code returns a nil error.
Where `reconcileImpl` returns nil for all three of result, gateway and error
(`NoNextHop`), the deferred report is refused by the CRD schema, and when there is
none to make `Reconcile` dereferences nil, which controller-runtime recovers and
retries.

Disturbances: the administrator creates, edits, deletes and relabels; pods crash
and restart at any point; caches lag; calls fail. `Restart` empties the manager
and the queues, keeps the kernel, and lists the cache anew.

Labels of Nodes reach a pod through a cache of their own, `seen`: `ObserveNode`
delivers the news of any Node of the cluster, and submits all StaticRoutes to the
label queue if the event filter (`LabelsChanged`: the amount of labels, then the
old keys looked up in the new map) lets it through. `Selected` reads `seen`, as
`validateNodeBySelector` lists from the cache.

Simplifications, all of them sound for the properties: the cache jumps to the
latest version (an informer may show an intermediate one, which the worker could
equally have read before the next write); a crash and the restart are one step;
`RouteGet` answers by a fixed `Direct` and `FallbackGw` per node; the label
controller's `For(&Node{})` also enqueues the node's own name, which is not found
as a StaticRoute and dropped; label changes of Nodes without a pod are events
without news, which is `Resync`. The subnets that `isProtected` refuses are the
set `Protected` here; `Startup` says which they are.

### NodeController

The module puts a third client into every pod, `Cleaner(n)`, and makes membership
a part of the state: `labels[m]` is `None` when there is no Node `m`, and
`running` is the set of nodes whose pod runs. `HearOfNode` delivers the deletion of
a Node to the pods running then; it is the only event the filter of the controller
lets through. A reconciliation is one step up to its first update
(`NodeStillExists`, `CleanBegins`: nothing that others see happens before) and one
step for each update (`CleanEntry`), in any order, since a list from the cache has
none. The copies of all objects come from one listing; each is as current as the
cache was. An update that is refused, lost, or applied with the answer lost ends
the walk, and the request goes back to the queue (`CleanGivesUp`).

A removed Node's pod may go on until it is evicted (`PodStops`), and the DaemonSet
starts a pod on every Node there is (`PodStarts`). `docs/design.md:94` and `:108`
speak of a leader; the code elects none, so the model has none.

### Startup

`process.stage` walks through `mainImpl` in the order of the code. A call either
returns (`Call`), or fails and the process is dead (`Fails`, which is also the
panic of the goroutine of `Run`); the kubelet starts it again (`Spawn`).
`SelectTable`, `SelectFallback` and `CollectProtectedSubnets` take a variable over
or panic. A value is what the parsers make of it: a number, `Garbage` for what they
refuse, `None` for an unset variable. The CRD may be installed and removed, and the
DaemonSet may be given another environment at any time (`CrdChanges`, `Redeploy`).

`check` is a call of `isProtected` in progress, an address at a time: an address is
a number up to `Top`, `Inc` wraps around as the byte counter does, and a network is
an interval, as masks give them.

### RouteManager

`loop` says where the goroutine of `Run` is: in its `select`, between the netlink
call and the write to `managedRoutes` (`record`), calling the watchers
(`notify`), or inside a watcher that itself calls the manager (`calling`). A
registration is two steps since the map is read by `IsRegistered` in the caller's
goroutine and the kernel is changed by others meanwhile. `updates` is the stream
of route deletions with a bounded socket buffer (`Backlog`); when it overflows the
netlink library closes the channel, `Run` returns and `main` panics
(`StreamEnds`). A map read while `Run` writes is a data race: the model lets it
read or ends the process (`ReadDuringWrite`), as the Go runtime does. `calls[c]`
is the call a goroutine is in; the unbuffered channels need no state beyond it.

`main` never closes `stopChan`, and updates other than `RTM_DELROUTE` change
nothing: both are left out. `watchers` is the slice as it is: `registerWatcher`
appends whatever comes, a watcher that is there already too, and `deRegisterWatcher`
takes out the first one that is `reflect.DeepEqual`. For a caller the slice is a bag
by content, which is what `RouteTable` keeps. No code of the operator registers a watcher; watchers
are modelled from the package's interface and tests.

## 3. Runs

`-` in a budget means zero. The columns count what the administrator and the
environment may do in a run: creations, edits, deletions, label changes, resyncs,
faults (failed or lost calls), crashes; in the cluster also Nodes that leave, and
setbacks (a Node that returns, or an update of a node controller that fails).

### Passing

| Run | Instance | Budget c/e/d/l/r/f/x | Question |
|---|---|---|---|
| `Lifecycle` | 2 nodes, 1 object, 3 specs, one of a protected subnet | 2/1/1/-/-/-/1 | do the pods' writes, in every order, respect the finalizer protocol and one another's entries (`IInv`, `HealthyHeld`, `OwnEntryOnly`, `DeletionWaits`, `ImplementsProtocol`); does an edit under way, to a protected subnet or away from it, let an inadmissible route into a kernel (`OnlyAdmittedRoutes`) |
| `TwoQueues` | 1 node, both controllers, selectors that come and go | 2/1/1/1/-/1/1 | do the two workers of a pod, sharing manager and cache, leave an honest status (`HonestStatus`, `DeletionWaits`), and never rest with work to do (`RestsWhenDone`, `RestIInv`) |
| `Provisioned` | 1 node, both controllers, 8 specs, no fallback gateway, fair | 1/-/-/2/1/1/1 | does no early return leave work undone (`RestsWhenDone`); does a selected node end with the right entry and route while its labels change to and fro (`Provisioned`) |
| `Drained` | 2 nodes, no list of selectors or an empty one, fair | 2/-/1/-/-/-/- | does a deletion that finds entries complete (`Drained`), and do the pods stop writing (`Settles`) |
| `Cluster` | 2 nodes, one of which may leave, fair | 1/-/-/-/-/-/-, 1 leaves, 1 setback | does the entry of a removed Node go (`Cleaned`) and nothing else (`CleansOneEntry`, `ClusterIInv`), are the nodes that stay or return served (`MembersServed`), does the finalizer protocol survive all this (`ImplementsProtocol`) |
| `Configured` | 16 addresses, all CIDR blocks, 9 environments, fair | 2 mishaps | does no controller run on a part of its configuration (`Configured`, `StartupIInv`), does the operator come up (`ComesUp`), does `isProtected` tell overlaps (`VerdictRight`), visit no address twice (`WalksOn`) and end (`Decides`) |
| `Manager` | 2 goroutines that call for the same name, one also for another; 1 route, 2 equal watchers, one of which calls back; backlog 1; fair | | are calls atomic, do watchers come and go one at a time (`IInv`, `ImplementsTable`), is no damage unnoticed (`DamageNoticed`), do calls return (`CallsReturn`) |

### Where a document and the code disagree

Each run ends in a counterexample; `PROJECT.json` quotes the line and says what
it shows.

| Run | Property | What happens |
|---|---|---|
| `Orphans` | `NoOrphans` | the last pod with an entry removes the finalizer while another is between its route and its report: the object goes and the route stays in the kernel |
| `EmptyStatus` | `EmptyStatusReleases` | finalizer set, status empty, deletion asked for: every pod returns `alreadyDeleted` and nobody removes the finalizer |
| `Entries` | `EntriesWithdrawn` | a node whose entry is an error stores it again on every attempt to withdraw |
| `EmptySelectors` | `AppliesToAll` | a StaticRoute edited to `selectors: []`: `isChanged` holds in every reconciliation, the route is withdrawn and provided again for ever |
| `CatchesUp` | `CatchesUp` | a pod that restarts while a Node leaves is never told, and the entry of that Node stays |

`EmptySelectors` takes an edit, and `Drained` does without one, for a reason: the
first write of the operator to an object (its finalizer) encodes the whole object,
and the empty list in its spec is left out from then on. A list emptied later is
written by the administrator, and the pods that find the finalizer in place, and an
entry of another node in the status, write the status only.

### Limits of the passing properties

The properties above hold within these limits:

- `HonestStatus` fails after an edit between `RegisterRoute` and the first report:
  `IsRegistered` looks at the name only, so the status shows the new spec over the
  old route (`OwnRoute` excludes it: an edit changes the selectors, not the route;
  so do the edits of `TwoQueues`). It fails with two objects of one destination too:
  `EEXIST` makes the second adopt the first's route, and deleting one removes it
  under the other (`OwnDestination` excludes it).
- `RestsWhenDone` needs the same, and `LabelNews`: the event filter of the label
  controller lets every change of labels through. It is a property of a fixed set of
  Nodes. A Node that leaves and returns with other labels while its pod runs makes a
  deletion and a creation, which the filter drops, and what the node shows may then
  be what its former labels asked for.
- A node deselected before its first report was stored keeps its route, since
  `selectorNoLongerMatches` needs an entry. `HonestStatus` says nothing of it: the
  status shows no entry.
- Without a next hop towards the fallback address the report carries the gateway
  `<nil>`, which the CRD refuses every time: such a node never shows anything, and
  `Provisioned` asks nothing of it.
- `Drained` asks for an entry in the status when the deletion comes. It does not
  extend to edits and lost calls around it, which lead to `EmptyStatus`, nor to a
  node controller that takes the last entry out.
- `Provisioned` has labellings without empty values. A key with the empty value
  that is replaced by another key passes the event filter unseen: the amount is the
  same, and a missing key reads as the empty string.
- `Cleaned` starts where a pod has both heard of the removal and sees the entry in
  its cache. The two come by different watches: a pod that is told first of the
  Node and then of the entry does nothing, and so does everybody about an entry
  that the pod of the removed Node stores after the others have cleaned up.
- `DamageNoticed` needs a destination of its own for every route: a route
  registered over a foreign one with another gateway is recorded with the gateway
  asked for, and its loss matches nothing. It is about the announcement: the
  operator registers no watcher, so nobody puts the route back.
- `ImplementsTable` counts the watchers of one content. Which of two equal ones a
  deregistration takes out is not told apart, and a watcher registered twice is
  still called after it was deregistered once.
- A deletion that waits while its route is registered again is announced although
  the route is there. `DamageNoticed` asks for announcements, not for their truth.
- `CallsReturn` has one way out: a watcher that calls the manager back.
  `RouteDeleted` runs in the goroutine of `Run`, which then waits for itself, and
  every caller with it. In the run one of the two watchers does.
- The finalizers of an object are the operator's own or none. `setFinalizer`
  (`wrapper.go:33`) takes any finalizer for its own, and `deleteOperation`
  (`staticroute_controller.go:391`) removes all there are: beside a foreign finalizer
  the routes go in without protection, and the last node out drops it.
- The comment at `staticroute_controller.go:409-412` says that the route of an object
  deleted while the operator did not run is registered again, to be taken out of the
  kernel. A deletion never comes there: `reconcileImpl` calls `deleteOperation`,
  which passes over `ErrNotFound`, and the entry goes while the route stays. The
  model does the same (`DeRegisterRoute`); no property is about it. `HonestStatus`
  speaks of the entries shown, and here there is none.
- `Decides` says that the loop of `isProtected` ends, not that it ends soon: it
  takes a step for every address of the protected subnet.

### Bounds

Two nodes are the least that conflict over an object, and the protocol treats all
nodes but the acting one alike; the proofs lift the safety results to any number.
One object suffices because a worker touches one object per
reconciliation, and the node controller's walk over several is a step per object,
each guarded by a version of its own. What the objects of a node share, its manager,
kernel and queues, is what the proofs of `HonestStatus` and `RestsWhenDone` are about,
for any number of objects. Two creations let work on a deleted object meet its successor; two
label changes, or an edit of the selectors and a label change, let a node leave and come back; one fault and one crash can hit any
call of a run, and together in either order. The eight specs of `Assorted` take
every outcome of `reconcileImpl`.

In `Cluster` one Node leaves once, at any moment of its pod's work; the setback
either brings it back or fails one of the updates of the cleaner. With the other
node's own report, these are all the writes a cleaner can meet.

Two goroutines are what a pod has. Both register the name `x` and ask for it, and
one deregisters it, so that every call meets the other's write of its own name; the
second name, with the same route, lets a deletion match two names. A backlog of 1 lets a deletion wait, and the
socket overflow at the second. Sixteen addresses give blocks of five sizes, at both
ends of the address space, nested, adjacent and apart; two mishaps let a process
die twice, or the CRD or the environment change under it. `Limit`, `MaxWatchers`
and `Mishaps` are the only bounds written as guards; `Backlog` is the kernel's. Where
a run declares the two nodes symmetric (`NodeSymmetry`), they are interchangeable in
its constants and it checks safety only.

Deadlock is not checked in the runs of `MCStaticRoute`, `MCCluster` and `MCStartup`:
with the budget spent the operator rests, as it should. It is checked in the route
manager's.

### Fairness

`Fairness` of the controller: a reconciliation that has begun goes on (weak), the
watches deliver (weak), and a name in a work queue is eventually taken (strong,
since the queue is first in, first out, and a worker that is busy now and then
does not skip it). Nothing is assumed about calls succeeding beyond the bounded
number of faults, and nothing about the administrator.

`ClusterFairness`: every worker, every node controller and the watches of every pod
that runs keep going, and the DaemonSet starts a pod on every Node (all weak, for
the pod as a whole: with one object the order of the queue is no matter). Nothing
makes a pod stop, and nothing makes a Node return.

`FairSpec` of the manager: `Run` and the callers keep running (weak). Go's `select`
picks uniformly among the ready cases, so a case that is ready again and again is
taken (strong fairness of `Serve`, `TakeUpdate`, `StreamEnds`). A watcher that
calls back gets no fairness that would free it.

`FairSpec` of the start-up: the kubelet restarts the process, and the process and
its checks keep running (weak).

## 4. Proofs

All theorems hold for arbitrary constants under the assumptions named in the
modules, which classify the inputs (`SubnetAssumption`, `GatewayAssumption`,
`NetworkAssumption`), keep absent values apart from present ones (`NoneAssumption`,
`RecordAssumption`, `RouteAssumption`), keep workers apart from nodes (`ClientAssumption`), and type
the parameters (`ControllerAssumption`, `RequestAssumption`, `BoundAssumption`,
`EnvironmentAssumption`). TLC evaluates them in every run.

| Theorem | Statement |
|---|---|
| `StaticRouteTyping!TypeCorrect` | `Spec => []TypeOK` |
| `StaticRouteProofs!Inductive` | `Spec => []IInv` |
| `StaticRouteProofs!AlwaysHeld` | `Spec => []HealthyHeld` |
| `StaticRouteProofs!NeverVanishes` | `Spec => DeletionWaits` |
| `StaticRouteProofs!NoForeignWrites` | `Spec => OwnEntryOnly` |
| `StaticRouteRefinement!Refinement` | `Spec => ImplementsProtocol` |
| `StaticRouteTyping!AlwaysAdmitted` | `Spec => []OnlyAdmittedRoutes` |
| `HonestyProofs!HonestyInductive` | `Spec => []HonestyIInv`, if `OwnRoutes` |
| `HonestyProofs!StatusHonest` | `Spec => []HonestStatus`, if `OwnRoutes` |
| `RestProofs!RestInductive` | `Spec => []RestIInv`, if `OwnRoutes` and `LabelNews` |
| `RestProofs!RestsDone` | `Spec => []RestsWhenDone`, if `OwnRoutes` and `LabelNews` |
| `ClusterProofs!ClusterInductive` | `ClusterSpec => []ClusterIInv` |
| `ClusterProofs!OneEntryCleaned` | `ClusterSpec => CleansOneEntry` |
| `ClusterProofs!ClusterRefinement` | `ClusterSpec => ImplementsProtocol` |
| `ClusterProofs!ClusterNeverVanishes` | `ClusterSpec => DeletionWaits` |
| `ClusterProofs!ClusterNoForeignWrites` | `ClusterSpec => OwnEntryOnly` |
| `ClusterProofs!ClusterAdmitted` | `ClusterSpec => []OnlyAdmittedRoutes` |
| `HonestyProofs!ClusterHonest` | `ClusterSpec => []HonestStatus`, if `OwnRoutes` |
| `RouteManagerProofs!ManagerInductive` | `Spec => []IInv` |
| `RouteManagerProofs!ManagerRefinement` | `Spec => ImplementsTable` |
| `RouteManagerProofs!AlwaysNoticed` | `Spec => []DamageNoticed`, if distinct routes have distinct destinations |
| `StartupProofs!StartupInductive` | `Spec => []StartupIInv` |
| `StartupProofs!FullyConfigured` | `Spec => []Configured` |
| `StartupProofs!OverlapsRefused` | `Spec => []VerdictRight` |
| `StartupProofs!NeverTwice` | `Spec => WalksOn` |

`OwnRoutes` says that the administrator writes one route as each StaticRoute and
edits its selectors only, that no two StaticRoutes are about one destination in one
table, and that the pods have the controller for events of StaticRoutes. `LabelNews`
says that they have the label controller too, and that its event filter lets every
change of labels through. These are hypotheses on the administrator's input, written
as `ASSUME` of the theorems that need them and of no other; the model itself takes
any specs. The instance of `TwoQueues` satisfies all of them, and section 3
("Limits") gives the behaviour of the code that breaks the property without each.

**The controller's invariant.** `HealthyHeld` alone is not inductive: whether a
report may be stored depends on what its author knew. The strengthening says what
a copy that the server would still accept can differ in. `CacheCurrent`: a current
cache equals the stored object. `CopyCurrent`: a current worker has changed
nothing but the finalizer and its own node's entry, up to the encoding of the
selectors. `JoinersHeld`: a worker on its way to a healthy report saw no deletion,
and if its copy is current the finalizer is stored. `LeaversGone`: a worker about to
store its withdrawal holds no healthy entry of its own, and one about to release the
finalizer, if current, works on an object without entries. `DoomedHeld`: a deletion
is pending only for the sake of a finalizer. All the rest is optimistic
concurrency: a write by anyone else makes the copies stale and the conditions void.
The proof classifies every action by what it does to the stored object and
preserves each conjunct per class. A refinement step is then read off: creation,
`Doom`, `Hold`, `Join`, `Leave`, `Release`, or a stutter.

**Admission.** A route is added from a job several steps after the checks, so
the last section of `StaticRouteTyping` says of every job between `Provide` and
`RegisterRoute` that its subnet is not protected and its gateway is on a link of the
node (`AdmittedJob`). Nothing else puts a route into a kernel, and no write changes the copy of a job.

**The honest status.** `HonestStatus` relates what is stored at the API server to
what is in a pod's memory and in its kernel, and is only meant at rest, so
`HonestyIInv` has to say what holds in between. `CopiesAsk`: every copy of an object,
stored, cached or under work, asks for its one route. `ReportsPassed`: a healthy
report, on its way or stored, has passed the checks of `reconcileImpl` and shows the
route asked for. `TablesAgree`: a manager has under a name the route of that name, and
the kernel has it too; a route that is deregistered is nobody else's, which is where
`OwnDestination` is used. `Attended` is the heart of it: where a current cache shows a
healthy entry whose route is not managed (the pod crashed, or one of its workers
deregistered the route while the other one reported), the object is in a queue, or a
worker is engaged with it and will register the route, take the entry out, replace it
or come back. Every step that takes the route away leaves such a worker or such a
queue behind: a restart lists all objects, a failed call is retried, a stored withdrawal
removes the entry, and a refused one means that the cache is about to change.

**Rest.** `RestsWhenDone` is the safety half of `Provisioned`: a node never goes to rest
with work to do, so no wakeup is lost. `RestIInv` adds to the above that a worker with a
current copy has not touched its node's entry before it reports (`EntryCurrent`), and
`Owed`: if a current cache shows a status that is not what the node has to leave there,
the object is in a queue of the node, or one of its workers, with a current copy, will
come back or is on its way to write exactly what is due (`Concludes`). A worker whose
copy is stale owes nothing: news of the object that made it stale is under way, and
puts the object into the queue. The one news that makes no copy stale is a change of
labels. It can turn what a worker is about to write into the wrong verdict, and
`LabelNews` is what puts the object into the label queue then. The proof turns on
one fact, that nothing but news changes what is due for a node with a current cache:
`RestStep` says of each step of a worker that it keeps the others' copies current as
long as that cache is, and passes on what it owes.

**The cluster.** The steps of the reconcilers keep `IInv` as before; what is new is
a third writer. `CleanersCurrent` says that a copy a node controller may still
write is the stored object, so that its update takes one entry out and can neither
bring an entry back nor drop the finalizer: in the protocol it is a `Leave` on
behalf of the Node that is gone, or a stutter. A pod that stops takes its copies out
of `latest`, and one that starts gets fresh ones. Of the properties of the
reconcilers the cluster keeps all that do not need a fixed set of Nodes: besides the
protocol `DeletionWaits`, `OwnEntryOnly`, `OnlyAdmittedRoutes` and `HonestStatus`. For
the latter a cleaner that takes an entry out only removes an obligation, and a pod that
starts has every object in its queue.

**The manager's invariant.** `RecordPending`: between netlink and the map, the
caller `Run` serves still waits, and what the check found of its name is still
true, as nobody else writes the map. `DamageNoticed` needs two more conjuncts,
one for routes in the map and one for a route already in the kernel but not yet
in the map, whose deletion may be announced before it is recorded; they are
`ManagedNoticed` and `RecordNoticed` in `RouteManagerProofs`. Its hypothesis is
necessary, as section 3 says. The refinement counts: the bag of `RouteTable` is, for
each content, the number of places of the slice that hold it (`Bag`). `Append` adds
one place, and `RemoveAt` moves the places that remain one to one (`RemoveAtPlaces`),
so that the count of the content taken out drops by one and no other changes
(`RemoveCount`). No theorem asks who calls, for which name, or how often a watcher is
registered.

**The start-up's invariant.** `Settled` says for every stage of `mainImpl` which
settings it has behind it; `Passed` that of the networks and addresses a check has
gone through none overlaps the subnet asked about. A walk leaves a protected network
only when it has seen each of its addresses outside the subnet. The wrap-around of
`Inc` matters for networks that end at the last address: the walk goes on at 0,
which is outside the network, or, if the network is all there is, inside it for
ever, unless it has met the subnet before, as it has. `WalksOn`, with the same
argument, is what there is to `Decides` besides fairness: a walk without a verdict goes
on to later addresses only, of which there are finitely many.

**Only model-checked.** Liveness (`Provisioned`, `Settles`, `Drained`, `Cleaned`,
`MembersServed`, `Decides`, `ComesUp`, `CallsReturn`), which is out of reach of the
provers here. Every invariant and every action property that a passing run checks is a
theorem.

## 5. Not modelled

- What the parsers of the standard library do with a text: `net.ParseCIDR`,
  `net.ParseIP`, `strconv.Atoi` and the label package split texts into classes here.
  The key of a protected subnet's variable is matched by `strings.Contains`, while
  `README.md:56` says "starting with"; the model has a Boolean for it.
- Addresses of two families. A protected IPv6 subnet is walked address by address
  against IPv4 subnets, which in practice does not end.
- The kernel's meaning of a table number: `TARGET_TABLE=0` is admitted and netlink
  takes it for an unspecified table.
- Intermediate versions an informer may show between two stored ones, and a change
  of `RouteGet`'s answers while the operator runs.
- Logging, the wording of error texts, the generated deep copies, the group
  version, the manifests and scripts.
