----------------------- MODULE StaticRouteController -----------------------
(***************************************************************************)
(* controllers/staticroute/staticroute_controller.go: the reconcilers of   *)
(* every operator pod, working on the same StaticRoute objects.            *)
(*                                                                         *)
(* A pod runs two controllers over one reconciler, one fed by StaticRoute  *)
(* events and one by Node label events.  Each has its own work queue and a *)
(* single worker, so a node has two workers that share the informer cache, *)
(* the route manager and the kernel.                                       *)
(*                                                                         *)
(* A reconciliation is not atomic.  reconcileImpl reads the cache once and *)
(* decides (the actions that Begin one); from then on every call that      *)
(* leaves the worker is a step of its own, in the order of the code:       *)
(*                                                                         *)
(*   finalizer -> register -> add -> report            (addOperation)      *)
(*   report -> deregister                  (the deferred function)         *)
(*   deregister -> forget -> release                   (deleteOperation)   *)
(***************************************************************************)
EXTENDS ApiServer, Naturals, FiniteSets

CONSTANTS
  Controllers,  \* "route" watches StaticRoutes, "label" watches the node
  FallbackGw,   \* FallbackGw[n]: gateway towards FallbackIPForGwSelection
  Specs,        \* Specs[x]: the specs the administrator writes as x
  Limit         \* how often each of the events of Budgets may happen

Budgets == {"creates", "edits", "deletes", "relabels", "resyncs", "faults", "crashes",
            "leaves", "setbacks"}

ASSUME ControllerAssumption ==
  /\ Controllers \subseteq {"route", "label"}
  /\ FallbackGw \in [Nodes -> Gateways \union {NilGw}]
  /\ Specs \in [Names -> SUBSET RouteSpec]
  /\ Limit \in [Budgets -> Nat]

Workers == Nodes \X Controllers

NodeOf(w) == w[1]

\* The readers of an object in a pod: the informer cache, for which the node
\* stands, the two workers, and the node controller.
Readers == Nodes \X {"route", "label", "node"}

Clients == Nodes \union Readers

ASSUME ClientAssumption == Nodes \intersect Readers = {}

Route == [dst : Subnets, gw : ShownGateways, table : Tables]

ASSUME RouteAssumption == None \notin Route

VARIABLES
  cache,    \* cache[n][x]: the informer's copy of x on node n, or None
  queue,    \* queue[w]: the names in the work queue of w
  worker,   \* worker[w]: the reconciliation in progress
  managed,  \* managed[n][x]: the route the manager of n owns for x, or None
  kernel,   \* kernel[n]: the static routes in the kernel of n
  labels,   \* labels[m]: the labels of Node m, or None if there is no Node m
  seen,     \* seen[n][m]: the same in the informer cache of n
  spent     \* spent[k]: how often event k has happened

podVars == <<cache, queue, worker>>
nodeVars == <<managed, kernel>>
labelVars == <<labels, seen>>
vars == <<objects, latest, cache, queue, worker, managed, kernel, labels, seen, spent>>

PCs == {"finalizer", "register", "add", "report", "deregister", "forget", "release"}

Idle == [pc |-> "idle", name |-> None, inst |-> None, gw |-> ZeroGw, err |-> "", again |-> FALSE]

\* What a worker holds: the object it works on, its copy of it, the gateway
\* and the error to report, and whether the request goes back to the queue.
Job == [pc : PCs, name : Names, inst : Object, gw : ShownGateways, err : Errors, again : BOOLEAN]

TypeOK ==
  /\ ApiTypeOK(Clients)
  /\ cache \in [Nodes -> [Names -> Object \union {None}]]
  /\ queue \in [Workers -> SUBSET Names]
  /\ worker \in [Workers -> Job \union {Idle}]
  /\ managed \in [Nodes -> [Names -> Route \union {None}]]
  /\ kernel \in [Nodes -> SUBSET Route]
  /\ labels \in [Nodes -> Labels \union {None}]
  /\ seen \in [Nodes -> [Nodes -> Labels \union {None}]]
  /\ spent \in [Budgets -> Nat]

Init ==
  /\ ApiInit(Nodes)
  /\ cache = [n \in Nodes |-> [x \in Names |-> None]]
  /\ queue = [w \in Workers |-> {}]
  /\ worker = [w \in Workers |-> Idle]
  /\ managed = [n \in Nodes |-> [x \in Names |-> None]]
  /\ kernel = [n \in Nodes |-> {}]
  /\ labels \in [Nodes -> Labels]
  /\ seen = [n \in Nodes |-> labels]
  /\ spent = [k \in Budgets |-> 0]

Spend(k) == spent[k] < Limit[k] /\ spent' = [spent EXCEPT ![k] = @ + 1]

-----------------------------------------------------------------------------
(***************************************************************************)
(* What reconcileImpl decides from the cached object                       *)
(***************************************************************************)
\* validateNodeBySelector: the node is there and satisfies every requirement.
Selected(n, o) == o.spec.selectors \notin Unselective => seen[n][n] \in o.spec.selectors

\* selectorNoLongerMatches
Departing(n, o) == ~Selected(n, o) /\ AlreadyInStatus(o, n)

\* The reconciliation goes on after the selectors, after the protected subnets.
PastSelectors(n, o) ==
  /\ o.spec.selectors # BadSelectors
  /\ ~Selected(n, o) => AlreadyInStatus(o, n)

PastProtected(n, o) == PastSelectors(n, o) /\ ~IsProtected(o)

\* selectGateway: the gateway in use, and whether there is a usable one.
NextHop(n, o) == IF o.spec.gateway = None THEN FallbackGw[n] ELSE o.spec.gateway

Routable(n, o) ==
  IF o.spec.gateway = None THEN FallbackGw[n] # NilGw ELSE o.spec.gateway \in Direct[n]

RouteOf(o, gw) ==
  [dst   |-> o.spec.subnet,
   gw    |-> gw,
   table |-> IF o.spec.table = None THEN DefaultTable ELSE o.spec.table]

-----------------------------------------------------------------------------
(***************************************************************************)
(* Control of a worker                                                     *)
(***************************************************************************)
Goto(w, job) == worker' = [worker EXCEPT ![w] = job]

\* Mutant of Requeue: a failed reconciliation is not retried.
NoRetry(w, x, again) == UNCHANGED queue

Requeue(w, x, again) == queue' = IF again THEN [queue EXCEPT ![w] = @ \union {x}] ELSE queue

Finish(w, again) == Goto(w, Idle) /\ Requeue(w, worker[w].name, again)

\* The reconciliation ends where it began, without a call.
Skip(w, x, again) ==
  /\ queue' = IF again THEN queue ELSE [queue EXCEPT ![w] = @ \ {x}]
  /\ UNCHANGED <<objects, latest, cache, worker, nodeVars, labelVars>>

\* It goes on with job; the copy is as current as the cache is.
Start(w, x, job) ==
  /\ queue' = [queue EXCEPT ![w] = @ \ {x}]
  /\ latest' = [latest EXCEPT ![x] = IF NodeOf(w) \in @ THEN @ \union {w} ELSE @]
  /\ Goto(w, job)
  /\ UNCHANGED <<objects, cache, nodeVars, labelVars>>

NewJob(x, pc, o, gw, err, again) ==
  [pc |-> pc, name |-> x, inst |-> o, gw |-> gw, err |-> err, again |-> again]

\* An early return of reconcileImpl: the deferred function reports err,
\* unless reportStatus was cleared because the selectors stopped matching.
Refuse(w, x, o, gw, err, again) ==
  IF Departing(NodeOf(w), o)
  THEN Skip(w, x, again)
  ELSE Start(w, x, NewJob(x, "report", o, gw, err, again))

-----------------------------------------------------------------------------
(***************************************************************************)
(* reconcileImpl up to its first call: w, of node n, has taken x from its  *)
(* queue and its copy o from the cache.  One action per outcome.           *)
(***************************************************************************)
\* wrongSelectorErr, returned with a nil error
WrongSelector(w, x, o) ==
  /\ o.spec.selectors = BadSelectors
  /\ Start(w, x, NewJob(x, "report", o, ZeroGw, "", FALSE))
  /\ UNCHANGED spent

\* nodeGetError
NodeListFails(w, x, o) ==
  /\ o.spec.selectors \notin Unselective \union {BadSelectors}
  /\ Spend("faults")
  /\ Start(w, x, NewJob(x, "report", o, ZeroGw, "list", TRUE))

\* nodeNotFound, and the node has no entry to withdraw
NotSelected(w, x, n, o) ==
  /\ o.spec.selectors # BadSelectors
  /\ ~Selected(n, o)
  /\ ~AlreadyInStatus(o, n)
  /\ Skip(w, x, FALSE)
  /\ UNCHANGED spent

\* overlapsProtected
Overlaps(w, x, n, o) ==
  /\ PastSelectors(n, o)
  /\ IsProtected(o)
  /\ Refuse(w, x, o, ZeroGw, "overlap", FALSE)
  /\ UNCHANGED spent

\* invalidGatewayError, returned with a nil error and a nil gateway
InvalidGateway(w, x, n, o) ==
  /\ PastProtected(n, o)
  /\ o.spec.gateway \in Malformed
  /\ Refuse(w, x, o, NilGw, "", FALSE)
  /\ UNCHANGED spent

\* routeGetError
RouteGetFails(w, x, n, o) ==
  /\ PastProtected(n, o)
  /\ o.spec.gateway \notin Malformed
  /\ Spend("faults")
  /\ Refuse(w, x, o, NilGw, "get", TRUE)

\* gatewayNotDirectlyRoutableError
NotDirectlyRoutable(w, x, n, o) ==
  /\ PastProtected(n, o)
  /\ o.spec.gateway \notin {None} \union Malformed \union Direct[n]
  /\ Refuse(w, x, o, o.spec.gateway, "nextHop", FALSE)
  /\ UNCHANGED spent

\* The route towards the fallback address has no gateway: res, gateway and
\* err are all nil.  The report is always refused and, when there is none to
\* make, Reconcile dereferences the nil res: the request comes back anyway.
NoNextHop(w, x, n, o) ==
  /\ PastProtected(n, o)
  /\ o.spec.gateway = None
  /\ FallbackGw[n] = NilGw
  /\ Refuse(w, x, o, NilGw, "", TRUE)
  /\ UNCHANGED spent

\* Mutant of MustWithdraw: the deletion timestamp is not looked at.
StaysUnlessChanged(n, o) == IsChanged(o, n, NextHop(n, o)) \/ Departing(n, o)

\* The route has to go: the object is being deleted, was edited, or does not
\* select the node any more.  alreadyDeleted when the node has no entry.
MustWithdraw(n, o) == o.deleting \/ IsChanged(o, n, NextHop(n, o)) \/ Departing(n, o)

Withdraw(w, x, n, o) ==
  /\ PastProtected(n, o)
  /\ Routable(n, o)
  /\ MustWithdraw(n, o)
  /\ IF AlreadyInStatus(o, n)
     THEN Start(w, x, NewJob(x, "deregister", RemoveFromStatus(o, n), NextHop(n, o), "",
                             IsChanged(o, n, NextHop(n, o))))
     ELSE Skip(w, x, FALSE)
  /\ UNCHANGED spent

\* Mutant of Provide: the finalizer is left to somebody else.
ProvideUnheld(w, x, n, o) ==
  /\ PastProtected(n, o)
  /\ Routable(n, o)
  /\ ~MustWithdraw(n, o)
  /\ Start(w, x, NewJob(x, "register", o, NextHop(n, o), "", FALSE))
  /\ UNCHANGED spent

\* addOperation, with or without the finalizer to set first
Provide(w, x, n, o) ==
  /\ PastProtected(n, o)
  /\ Routable(n, o)
  /\ ~MustWithdraw(n, o)
  /\ Start(w, x, NewJob(x, IF o.finalizer THEN "register" ELSE "finalizer", o, NextHop(n, o), "", FALSE))
  /\ UNCHANGED spent

\* crNotFound and crGetError, then the object
Begin(w, x) ==
  LET n == NodeOf(w)
      o == cache[n][x] IN
  /\ worker[w].pc = "idle"
  /\ x \in queue[w]
  /\ \/ o = None /\ Skip(w, x, FALSE) /\ UNCHANGED spent
     \/ Spend("faults") /\ Skip(w, x, TRUE)
     \/ /\ o # None
        /\ \/ WrongSelector(w, x, o)
           \/ NodeListFails(w, x, o)
           \/ NotSelected(w, x, n, o)
           \/ Overlaps(w, x, n, o)
           \/ InvalidGateway(w, x, n, o)
           \/ RouteGetFails(w, x, n, o)
           \/ NotDirectlyRoutable(w, x, n, o)
           \/ NoNextHop(w, x, n, o)
           \/ Withdraw(w, x, n, o)
           \/ Provide(w, x, n, o)

-----------------------------------------------------------------------------
(***************************************************************************)
(* A call to the API server that sends o, for the object or for its status *)
(* subresource.  It is applied and answered, or it fails: refused because  *)
(* the copy is stale or o not admissible, lost on the way, or applied with *)
(* the answer lost.  keep: does the worker go on with the object.          *)
(***************************************************************************)
Put(x, part, o) == IF part = "status" THEN WithStatus(x, o) ELSE WithMeta(x, o)

Acceptable(w, o) == Accepts(worker[w].name, w) /\ Admissible(o)

Applied(w, part, o, keep) ==
  LET x == worker[w].name IN
  /\ Acceptable(w, o)
  /\ Store(x, Put(x, part, o), w, keep)
  /\ UNCHANGED spent

Unapplied(w, keep) ==
  /\ UNCHANGED objects
  /\ IF keep THEN UNCHANGED latest ELSE Drop(worker[w].name, w)

Failed(w, part, o, keep) ==
  LET x == worker[w].name IN
  \/ ~Acceptable(w, o) /\ Unapplied(w, keep) /\ UNCHANGED spent
  \/ Spend("faults") /\ Unapplied(w, keep)
  \/ /\ Spend("faults")
     /\ Acceptable(w, o)
     /\ Store(x, Put(x, part, o), w, keep /\ Put(x, part, o) = objects[x])

-----------------------------------------------------------------------------
(***************************************************************************)
(* addOperation                                                            *)
(***************************************************************************)
\* Mutant of StoreFinalizer: the update is made to the object as it is stored
\* now, and the reconciliation goes on with that.
RefetchedFinalizer(w) ==
  LET job == worker[w]
      o   == SetFinalizer(objects[job.name]) IN
  /\ job.pc = "finalizer"
  /\ objects[job.name] # None
  /\ Store(job.name, o, w, TRUE)
  /\ Goto(w, [job EXCEPT !.pc = "register", !.inst = o])
  /\ UNCHANGED <<cache, queue, nodeVars, labelVars, spent>>

StoreFinalizer(w) ==
  LET job == worker[w]
      o   == SetFinalizer(job.inst) IN
  /\ job.pc = "finalizer"
  /\ \/ /\ Applied(w, "object", o, TRUE)
        /\ Goto(w, [job EXCEPT !.pc = "register", !.inst = o])
     \/ /\ Failed(w, "object", o, TRUE)
        /\ Goto(w, [job EXCEPT !.pc = "report", !.inst = o, !.err = "update", !.again = TRUE])
  /\ UNCHANGED <<cache, queue, nodeVars, labelVars>>

\* IsRegistered, then ParseCIDR, whose failure is returned as a nil error.
CheckRegistered(w) ==
  LET job == worker[w] IN
  /\ job.pc = "register"
  /\ Goto(w, [job EXCEPT !.pc =
       IF managed[NodeOf(w)][job.name] = None /\ job.inst.spec.subnet \notin Unparsable
       THEN "add"
       ELSE "report"])
  /\ UNCHANGED <<apiVars, cache, queue, nodeVars, labelVars, spent>>

\* RegisterRoute.  The kernel refuses a second route to the same destination
\* in a table with EEXIST, whatever its gateway, and the manager adopts it.
Exists(n, route) == \E r \in kernel[n] : r.dst = route.dst /\ r.table = route.table

RegisterRoute(w) ==
  LET job   == worker[w]
      n     == NodeOf(w)
      route == RouteOf(job.inst, job.gw) IN
  /\ job.pc = "add"
  /\ managed[n][job.name] = None
  /\ managed' = [managed EXCEPT ![n][job.name] = route]
  /\ kernel' = IF Exists(n, route) THEN kernel ELSE [kernel EXCEPT ![n] = @ \union {route}]
  /\ Goto(w, [job EXCEPT !.pc = "report"])
  /\ UNCHANGED <<apiVars, cache, queue, labelVars, spent>>

\* registerRouteError: the name is taken already, or the kernel refuses.
RegisterFails(w) ==
  LET job == worker[w] IN
  /\ job.pc = "add"
  /\ IF managed[NodeOf(w)][job.name] # None THEN UNCHANGED spent ELSE Spend("faults")
  /\ Goto(w, [job EXCEPT !.pc = "report", !.err = "register", !.again = TRUE])
  /\ UNCHANGED <<apiVars, cache, queue, nodeVars, labelVars>>

-----------------------------------------------------------------------------
(***************************************************************************)
(* The deferred function of reconcileImpl                                  *)
(***************************************************************************)
\* With the deletion asked for, deleteOperation follows, and its result
\* replaces the one of the reconciliation.
AfterReport(w, job, again) ==
  IF job.inst.deleting
  THEN Goto(w, [job EXCEPT !.pc = "deregister", !.again = FALSE]) /\ UNCHANGED queue
  ELSE Finish(w, again)

\* The entry in the copy says all there is to say already.
NothingToReport(w) ==
  LET job == worker[w] IN
  /\ job.pc = "report"
  /\ StatusMatch(job.inst, NodeOf(w), job.gw, job.err)
  /\ Unapplied(w, job.inst.deleting)
  /\ AfterReport(w, job, job.again)
  /\ UNCHANGED <<cache, nodeVars, labelVars, spent>>

ReportStatus(w) ==
  LET n   == NodeOf(w)
      job == worker[w]
      o   == AddToStatus(RemoveFromStatus(job.inst, n), n, job.gw, job.err)
      new == [job EXCEPT !.inst = o] IN
  /\ job.pc = "report"
  /\ ~StatusMatch(job.inst, n, job.gw, job.err)
  /\ \/ Applied(w, "status", o, o.deleting) /\ AfterReport(w, new, job.again)
     \/ Failed(w, "status", o, o.deleting) /\ AfterReport(w, new, TRUE)
  /\ UNCHANGED <<cache, nodeVars, labelVars>>

-----------------------------------------------------------------------------
(***************************************************************************)
(* deleteOperation                                                         *)
(***************************************************************************)
\* Mutant of DeRegisterRoute: the route stays in managedRoutes.
DeRegisterKeepsName(w) ==
  LET job == worker[w]
      n   == NodeOf(w) IN
  /\ job.pc = "deregister"
  /\ kernel' = [kernel EXCEPT ![n] = @ \ {managed[n][job.name]}]
  /\ Goto(w, [job EXCEPT !.pc = "forget"])
  /\ UNCHANGED <<apiVars, cache, queue, managed, labelVars, spent>>

\* DeRegisterRoute; a route nobody manages (ErrNotFound) and one the kernel
\* does not have (ESRCH) are as good as removed.
DeRegisterRoute(w) ==
  LET job == worker[w]
      n   == NodeOf(w) IN
  /\ job.pc = "deregister"
  /\ managed' = [managed EXCEPT ![n][job.name] = None]
  /\ kernel' = [kernel EXCEPT ![n] = @ \ {managed[n][job.name]}]
  /\ Goto(w, [job EXCEPT !.pc = "forget"])
  /\ UNCHANGED <<apiVars, cache, queue, labelVars, spent>>

\* deRegisterError
DeRegisterFails(w) ==
  LET job == worker[w] IN
  /\ job.pc = "deregister"
  /\ managed[NodeOf(w)][job.name] # None
  /\ Spend("faults")
  /\ Drop(job.name, w)
  /\ Finish(w, TRUE)
  /\ UNCHANGED <<objects, cache, nodeVars, labelVars>>

\* Mutant of NoEntries: one node without an entry is enough.
SomeoneLeft(o) == \E n \in Nodes : o.status[n] = None

NoEntries(o) == \A n \in Nodes : o.status[n] = None

\* The status without the entry is stored; the last one out goes on.
ForgetStatus(w) ==
  LET job == worker[w] IN
  /\ job.pc = "forget"
  /\ \/ /\ NoEntries(job.inst)
        /\ Applied(w, "status", job.inst, TRUE)
        /\ Goto(w, [job EXCEPT !.pc = "release"])
        /\ UNCHANGED queue
     \/ /\ ~NoEntries(job.inst)
        /\ Applied(w, "status", job.inst, FALSE)
        /\ Finish(w, job.again)
     \/ /\ Failed(w, "status", job.inst, FALSE)
        /\ Finish(w, TRUE)
  /\ UNCHANGED <<cache, nodeVars, labelVars>>

\* We were the last one.
ReleaseFinalizer(w) ==
  LET job == worker[w]
      o   == [job.inst EXCEPT !.finalizer = FALSE] IN
  /\ job.pc = "release"
  /\ \/ Applied(w, "object", o, FALSE) /\ Finish(w, job.again)
     \/ Failed(w, "object", o, FALSE) /\ Finish(w, TRUE)
  /\ UNCHANGED <<cache, nodeVars, labelVars>>

\* The worker has begun: it goes on to the next call.
Step(w) ==
  \/ StoreFinalizer(w)
  \/ CheckRegistered(w)
  \/ RegisterRoute(w)
  \/ RegisterFails(w)
  \/ NothingToReport(w)
  \/ ReportStatus(w)
  \/ DeRegisterRoute(w)
  \/ DeRegisterFails(w)
  \/ ForgetStatus(w)
  \/ ReleaseFinalizer(w)

-----------------------------------------------------------------------------
(***************************************************************************)
(* Events                                                                  *)
(***************************************************************************)
\* The administrator creates, edits and deletes StaticRoutes.
UserCreates(x) ==
  /\ \E s \in Specs[x] : Create(x, s)
  /\ Spend("creates")
  /\ UNCHANGED <<podVars, nodeVars, labelVars>>

UserEdits(x) ==
  /\ \E s \in Specs[x] : Edit(x, s)
  /\ Spend("edits")
  /\ UNCHANGED <<podVars, nodeVars, labelVars>>

UserDeletes(x) ==
  /\ Delete(x)
  /\ Spend("deletes")
  /\ UNCHANGED <<podVars, nodeVars, labelVars>>

\* The watch of node n delivers the stored version of x.
Observe(n, x) ==
  /\ n \notin latest[x]
  /\ cache' = [cache EXCEPT ![n][x] = objects[x]]
  /\ latest' = [latest EXCEPT ![x] = @ \union {n}]
  /\ queue' = [queue EXCEPT ![<<n, "route">>] = @ \union {x}]
  /\ UNCHANGED <<objects, worker, nodeVars, labelVars, spent>>

\* An event without news of x: the periodic resync or, in the label queue, new
\* labels of a Node that has no pod.
Resync(w, x) ==
  /\ cache[NodeOf(w)][x] # None
  /\ x \notin queue[w]
  /\ queue' = [queue EXCEPT ![w] = @ \union {x}]
  /\ Spend("resyncs")
  /\ UNCHANGED <<apiVars, cache, worker, nodeVars, labelVars>>

\* The administrator changes the labels of Node n.
Relabel(n) ==
  /\ labels[n] # None
  /\ \E l \in Labels \ {labels[n]} : labels' = [labels EXCEPT ![n] = l]
  /\ Spend("relabels")
  /\ UNCHANGED <<apiVars, podVars, nodeVars, seen>>

\* Mutant of LabelsChanged: the number of labels alone is compared.
AmountChanged(old, new) ==
  /\ None \notin {old, new}
  /\ Cardinality(DOMAIN new) # Cardinality(DOMAIN old)

\* What Go reads from a map at a key it does not have: the empty string.
ValueAt(l, k) == IF k \in DOMAIN l THEN l[k] ELSE ""

\* The event filter of the label controller: it drops the creation and the
\* deletion of a Node, and compares the amount of labels and the old ones.
LabelsChanged(old, new) ==
  /\ None \notin {old, new}
  /\ \/ Cardinality(DOMAIN new) # Cardinality(DOMAIN old)
     \/ \E k \in DOMAIN old : ValueAt(new, k) # old[k]

\* The watch of n delivers the news of Node m, any node of the cluster: when
\* its labels changed every StaticRoute is submitted for reconciliation.
ObserveNode(n, m) ==
  /\ seen[n][m] # labels[m]
  /\ seen' = [seen EXCEPT ![n][m] = labels[m]]
  /\ queue' = IF LabelsChanged(seen[n][m], labels[m])
              THEN [queue EXCEPT ![<<n, "label">>] = @ \union {x \in Names : cache[n][x] # None}]
              ELSE queue
  /\ UNCHANGED <<apiVars, cache, worker, nodeVars, labels, spent>>

\* The pod of n dies, at any point of its reconciliations: the manager forgets
\* its routes, the kernel does not.
Die(n) ==
  /\ worker' = [w \in Workers |-> IF NodeOf(w) = n THEN Idle ELSE worker[w]]
  /\ managed' = [managed EXCEPT ![n] = [x \in Names |-> None]]
  /\ UNCHANGED <<objects, kernel, labels>>

\* The copies of x that are current and not held by the pod of n.
HeldElsewhere(n, x) == {c \in latest[x] : c # n /\ (c \in Readers => NodeOf(c) # n)}

\* A new pod lists its caches anew, which submits every existing StaticRoute to
\* the route controller.
ListAll(n) ==
  /\ cache' = [cache EXCEPT ![n] = objects]
  /\ seen' = [seen EXCEPT ![n] = labels]
  /\ queue' = [w \in Workers |->
                 IF NodeOf(w) # n THEN queue[w]
                 ELSE IF w[2] = "route" THEN {x \in Names : objects[x] # None} ELSE {}]
  /\ latest' = [x \in Names |-> HeldElsewhere(n, x) \union {n}]

Restart(n) == Die(n) /\ ListAll(n) /\ Spend("crashes")

User == \E x \in Names : UserCreates(x) \/ UserEdits(x) \/ UserDeletes(x)

Watch ==
  \E n \in Nodes :
    \/ \E m \in Nodes : ObserveNode(n, m)
    \/ \E x \in Names : Observe(n, x)

Disturbance ==
  \/ \E n \in Nodes : Relabel(n) \/ Restart(n)
  \/ \E w \in Workers, x \in Names : Resync(w, x)

Next ==
  \/ \E w \in Workers : Step(w) \/ \E x \in Names : Begin(w, x)
  \/ Watch
  \/ User
  \/ Disturbance

Spec == Init /\ [][Next]_vars

\* Every pod keeps running: a reconciliation that has begun goes on, the work
\* queue hands out every name in it eventually (it is first in, first out, so
\* a name is not passed over forever), and the watches deliver.
Fairness ==
  /\ \A w \in Workers : WF_vars(Step(w))
  /\ \A w \in Workers, x \in Names : SF_vars(Begin(w, x))
  /\ \A n, m \in Nodes : WF_vars(ObserveNode(n, m))
  /\ \A n \in Nodes, x \in Names : WF_vars(Observe(n, x))

FairSpec == Spec /\ Fairness

=============================================================================
