----------------------- MODULE StaticRouteProperties -----------------------
(***************************************************************************)
(* What the reconcilers of all nodes guarantee together, and what the      *)
(* documentation says they do.                                             *)
(***************************************************************************)
EXTENDS StaticRouteController

-----------------------------------------------------------------------------
(***************************************************************************)
(* What there is to do for a node                                          *)
(***************************************************************************)
\* The entry a reconciliation that nothing disturbs leaves for node n, as
\* gateway and error; None where the CRD admits no such entry.
Verdict(n, o) ==
  IF o.spec.selectors = BadSelectors THEN <<ZeroGw, "">>
  ELSE IF IsProtected(o) THEN <<ZeroGw, "overlap">>
  ELSE IF o.spec.gateway \in Malformed \/ NextHop(n, o) = NilGw THEN <<None, "">>
  ELSE IF Routable(n, o) THEN <<NextHop(n, o), "">>
  ELSE <<o.spec.gateway, "nextHop">>

Wanted(n, x) ==
  /\ objects[x] # None
  /\ ~objects[x].deleting
  /\ \/ objects[x].spec.selectors \in Unselective \union {BadSelectors}
     \/ labels[n] \in objects[x].spec.selectors

\* The status shows what became of the route on n.
Told(n, o) ==
  LET e == o.status[n]
      v == Verdict(n, o) IN
  v[1] # None => /\ e # None
                 /\ e.state.subnet = o.spec.subnet
                 /\ e.state.gateway = v[1]
                 /\ e.error = v[2]

\* The route is in the kernel if it can be.
Routed(n, o) ==
  LET v == Verdict(n, o) IN
  v[1] \in Gateways /\ v[2] = "" /\ o.spec.subnet \notin Unparsable => RouteOf(o, v[1]) \in kernel[n]

\* If x selects n, n has done what there is to do.
Served(n, x) == Wanted(n, x) => Told(n, objects[x]) /\ Routed(n, objects[x])

-----------------------------------------------------------------------------
(***************************************************************************)
(* Safety                                                                  *)
(***************************************************************************)
\* The entry of n says that the route is in place: no error, and a gateway.
Healthy(o, n) ==
  /\ o.status[n] # None
  /\ o.status[n].error = ""
  /\ o.status[n].state.gateway \in Gateways

HealthyNodes(x) == {n \in Nodes : objects[x] # None /\ Healthy(objects[x], n)}

\* As long as the status of a StaticRoute shows a node providing the route,
\* its finalizer is set: addOperation stores it before the route and its
\* report, and deleteOperation, on some other node perhaps, never takes it
\* off under a node whose entry it has not seen go.
HealthyHeld == \A x \in Names : HealthyNodes(x) # {} => objects[x].finalizer

\* A StaticRoute does not vanish under a node whose status says it provides
\* the route, whoever takes the last step: the administrator deleting an
\* object without finalizer, or a pod removing the finalizer.
DeletionWaits ==
  [][\A x \in Names : objects[x] # None /\ objects'[x] = None => HealthyNodes(x) = {}]_vars

\* Nodes write back the whole object they read, with the one status list they
\* share, and still no step of a node's controllers undoes an edit of the
\* administrator or changes an entry but the node's own: what was computed from
\* a stale copy is refused.
OwnEntryOnly ==
  [][\A w \in Workers, x \in Names :
       worker'[w] # worker[w] /\ objects[x] # None /\ objects'[x] # None
         => /\ objects'[x].spec \in {objects[x].spec, Encoded(objects[x].spec)}
            /\ \A n \in Nodes \ {NodeOf(w)} : objects'[x].status[n] = objects[x].status[n]]_vars

\* Only routes a StaticRoute may have reach the kernel, whatever was edited
\* while a reconciliation was under way: never one that overlaps a protected
\* subnet, nor one through a gateway that is not on a link of the node.
OnlyAdmittedRoutes ==
  \A n \in Nodes : \A r \in kernel[n] :
    /\ r.dst \notin Unparsable \union Protected
    /\ r.gw \in Direct[n] \union ({FallbackGw[n]} \ {NilGw})

\* Nothing is under way or pending on node n for x, and n knows its news.
AtRest(n, x) ==
  /\ n \in latest[x]
  /\ \A w \in Workers : NodeOf(w) = n => worker[w].name # x /\ x \notin queue[w]

\* Once a node is at rest its status is honest: a healthy entry for a subnet
\* that parses shows the state of a route which is managed and in the kernel,
\* after any interleaving of the node's two workers, refused and lost calls,
\* selectors edited, label changes and restarts.  It takes OwnRoutes: an edit of
\* the route may overtake its first report, and two objects with one
\* destination share a route.
HonestStatus ==
  \A n \in Nodes, x \in Names :
    LET o == objects[x] IN
    /\ AtRest(n, x)
    /\ n \in HealthyNodes(x)
    /\ o.status[n].state.subnet \notin Unparsable
    => LET route == RouteOf([spec |-> o.status[n].state], o.status[n].state.gateway) IN
       /\ managed[n][x] = route
       /\ route \in kernel[n]

\* A node comes to rest only when its work is done: what selects it is served,
\* and of anything else its status shows no route in place, be it deselected by
\* an edit or by new labels, or about to be deleted.  No wakeup is lost between
\* a decision and the news that overtakes it, no failed call is left at that.
\* Like HonestStatus it takes OwnRoutes; and LabelNews, the event filter lets all
\* changes of labels through.
RestsWhenDone ==
  \A n \in Nodes, x \in Names :
    AtRest(n, x) /\ seen[n][n] = labels[n] /\ objects[x] # None
      => IF Wanted(n, x) THEN Served(n, x) ELSE n \notin HealthyNodes(x)

-----------------------------------------------------------------------------
(***************************************************************************)
(* Why the safety properties hold: what is true of the copies of an object *)
(* that carry its stored resourceVersion.  The conjunction is inductive.   *)
(***************************************************************************)
\* A cache that is up to date holds the stored object.
CacheCurrent ==
  \A n \in Nodes, x \in Names : n \in latest[x] => cache[n][x] = objects[x]

\* A worker whose copy is up to date is working on it, and has changed nothing
\* in it but the finalizer and the entry of its own node.  Where it has an
\* empty list of selectors the stored spec may have none.
CopyCurrent ==
  \A w \in Workers, x \in Names : w \in latest[x] =>
    /\ worker[w] \in Job
    /\ worker[w].name = x
    /\ objects[x] # None
    /\ Encoded(worker[w].inst.spec) = Encoded(objects[x].spec)
    /\ worker[w].inst.deleting = objects[x].deleting
    /\ \A n \in Nodes \ {NodeOf(w)} : worker[w].inst.status[n] = objects[x].status[n]

\* w is past the finalizer, on the way to report a healthy entry.
Joining(w) ==
  \/ worker[w].pc \in {"register", "add"}
  \/ worker[w].pc = "report" /\ worker[w].err = "" /\ worker[w].gw \in Gateways

\* Such a worker saw no deletion, and the finalizer is there if nothing changed.
JoinersHeld ==
  \A w \in Workers :
    /\ Joining(w) \/ worker[w].pc = "finalizer" => ~worker[w].inst.deleting
    /\ \A x \in Names : Joining(w) /\ w \in latest[x] => objects[x].finalizer

\* A worker about to store the status without its node's entry has no healthy
\* entry in its copy, and one about to remove the finalizer saw none at all.
LeaversGone ==
  \A w \in Workers :
    /\ worker[w].pc \in {"deregister", "forget"} => ~Healthy(worker[w].inst, NodeOf(w))
    /\ \A x \in Names : worker[w].pc = "release" /\ w \in latest[x] => NoEntries(objects[x])

\* A deletion is pending only for the sake of a finalizer.
DoomedHeld == \A x \in Names : objects[x] # None /\ objects[x].deleting => objects[x].finalizer

IInv ==
  /\ TypeOK
  /\ CacheCurrent
  /\ CopyCurrent
  /\ JoinersHeld
  /\ LeaversGone
  /\ HealthyHeld
  /\ DoomedHeld

-----------------------------------------------------------------------------
(***************************************************************************)
(* Why HonestStatus holds, and what it takes                               *)
(***************************************************************************)
\* The administrator writes one route as x, and edits its selectors only.
OwnRoute ==
  \A x \in Names : \A s, t \in Specs[x] :
    s.subnet = t.subnet /\ s.gateway = t.gateway /\ s.table = t.table

\* The route that s asks for on node n.
Asked(n, s) == LET o == [spec |-> s] IN RouteOf(o, NextHop(n, o))

\* No two StaticRoutes are about one destination in one table.
OwnDestination ==
  \A n \in Nodes : \A x, y \in Names : \A s \in Specs[x], t \in Specs[y] :
    x # y => Asked(n, s).dst # Asked(n, t).dst \/ Asked(n, s).table # Asked(n, t).table

\* Every StaticRoute keeps one route of its own, and every pod hears of it.
OwnRoutes == OwnRoute /\ OwnDestination /\ "route" \in Controllers

\* o asks for the route of x.
AsksFor(x, o) ==
  \E s \in Specs[x] :
    o.spec.subnet = s.subnet /\ o.spec.gateway = s.gateway /\ o.spec.table = s.table

\* All copies of x do, wherever they are.
CopiesAsk ==
  \A x \in Names :
    /\ objects[x] # None => AsksFor(x, objects[x])
    /\ \A n \in Nodes : cache[n][x] # None => AsksFor(x, cache[n][x])
    /\ \A w \in Workers : worker[w].name = x => AsksFor(x, worker[w].inst)

\* reconcileImpl found that node n may have the route of o, through gw.
Passed(n, o, gw) == gw = NextHop(n, o) /\ ~IsProtected(o) /\ Routable(n, o)

\* The entry of n in the status of o shows what o asks for.
Shows(n, o) ==
  LET state == o.status[n].state IN
  /\ state.subnet = o.spec.subnet
  /\ state.table = o.spec.table
  /\ Passed(n, o, state.gateway)

\* A healthy report is made of what was checked, and what is stored shows it.
ReportsPassed ==
  /\ \A w \in Workers :
       Joining(w) \/ worker[w].pc = "finalizer"
         => Passed(NodeOf(w), worker[w].inst, worker[w].gw)
  /\ \A x \in Names : \A n \in HealthyNodes(x) : Shows(n, objects[x])

\* A manager has under the name x the route of x, and the kernel has it too;
\* there is nothing else in the kernel.
TablesAgree ==
  \A n \in Nodes :
    /\ \A x \in Names : managed[n][x] # None
         => managed[n][x] \in {Asked(n, s) : s \in Specs[x]} \intersect kernel[n]
    /\ kernel[n] \subseteq {Asked(n, s) : s \in UNION {Specs[x] : x \in Names}}

\* The status shows node n provide a route of x that its manager does not have.
Unprovided(n, x) ==
  /\ n \in HealthyNodes(x)
  /\ objects[x].spec.subnet \notin Unparsable
  /\ managed[n][x] = None

\* w will not leave its object at that: it is to register the route, to take the
\* entry out, to replace the entry by an unhealthy one, or to come back.
Engaged(w) ==
  \/ worker[w].pc \in {"finalizer", "register", "add", "deregister", "forget"}
  \/ /\ worker[w].pc = "report"
     /\ \/ worker[w].again
        \/ /\ ~Joining(w)
           /\ ~StatusMatch(worker[w].inst, NodeOf(w), worker[w].gw, worker[w].err)

\* w will look at x (again), or is engaged with it.
Attends(w, x) == x \in queue[w] \/ (worker[w].name = x /\ Engaged(w))

\* Where a current cache shows such a node, one of its workers attends to it.
Attended ==
  \A n \in Nodes, x \in Names :
    Unprovided(n, x) /\ n \in latest[x] => \E w \in Workers : NodeOf(w) = n /\ Attends(w, x)

HonestyIInv ==
  /\ IInv
  /\ CopiesAsk
  /\ ReportsPassed
  /\ TablesAgree
  /\ Attended

-----------------------------------------------------------------------------
(***************************************************************************)
(* Why RestsWhenDone holds, and what it takes                              *)
(***************************************************************************)
\* Every change of a Node's labels is news for its label controller.
LabelNews == "label" \in Controllers /\ \A k, l \in Labels : k # l => LabelsChanged(k, l)

\* x selects n, as far as n knows its labels.
Expected(n, x) ==
  /\ ~objects[x].deleting
  /\ objects[x].spec.selectors = BadSelectors \/ Selected(n, objects[x])

\* The status is as n has to leave it.
Done(n, x) == IF Expected(n, x) THEN Told(n, objects[x]) ELSE ~Healthy(objects[x], n)

\* The pcs of a worker that has not touched its node's entry.
Untouched == {"finalizer", "register", "add", "report"}

\* w is on its way to tell the verdict, or to take the entry out.
Concludes(w, x) ==
  IF Expected(NodeOf(w), x)
  THEN worker[w].pc \in Untouched /\ <<worker[w].gw, worker[w].err>> = Verdict(NodeOf(w), objects[x])
  ELSE \/ worker[w].pc \in {"deregister", "forget"}
       \/ worker[w].pc = "report" /\ worker[w].inst.deleting

\* w will look at x (again), or does what is left to do, with a current copy.
Owes(w, x) ==
  \/ x \in queue[w]
  \/ /\ worker[w].name = x
     /\ w \in latest[x]
     /\ worker[w].again \/ Concludes(w, x)

Owed ==
  \A n \in Nodes, x \in Names :
    n \in latest[x] /\ objects[x] # None /\ ~Done(n, x)
      => \E w \in Workers : NodeOf(w) = n /\ Owes(w, x)

\* A current copy has the stored entry, until its worker reports.
EntryCurrent ==
  \A w \in Workers, x \in Names :
    w \in latest[x] /\ worker[w].pc \in Untouched
      => worker[w].inst.status[NodeOf(w)] = objects[x].status[NodeOf(w)]

\* There is a Node for every pod, and every pod has seen it.
NodesThere == \A n, m \in Nodes : labels[m] # None /\ seen[n][m] # None

RestIInv ==
  /\ HonestyIInv
  /\ EntryCurrent
  /\ NodesThere
  /\ Owed

-----------------------------------------------------------------------------
(***************************************************************************)
(* The finalizer protocol                                                  *)
(***************************************************************************)
Phase(x) ==
  IF objects[x] = None THEN "absent" ELSE IF objects[x].deleting THEN "deleting" ELSE "live"

Held(x) == objects[x] # None /\ objects[x].finalizer

\* The abstract state, read off the stored objects.
phase == [x \in Names |-> Phase(x)]
held == [x \in Names |-> Held(x)]
joined == [x \in Names |-> HealthyNodes(x)]

Protocol == INSTANCE FinalizerProtocol WITH Resources <- Names, Members <- Nodes

\* The reconcilers of all nodes, with their caches, conflicts and retries,
\* implement the finalizer protocol of docs/design.md.
ImplementsProtocol == Protocol!ProtocolSpec

-----------------------------------------------------------------------------
(***************************************************************************)
(* Liveness, under FairSpec                                                *)
(***************************************************************************)
\* When the administrator stops, every node a StaticRoute selects shows in
\* its status what became of the route there, and has the route in its kernel
\* if it can, whatever conflicts, lost calls, restarts and label changes came
\* before.
Provisioned == \A n \in Nodes, x \in Names : <>[]Served(n, x)

\* The pods stop writing: the status update of one node is an event for all,
\* and still they do not keep one another busy with the same object.
Settles == <>[][UNCHANGED objects]_vars

\* A deletion that finds a node in the status completes: every node takes its
\* entry back, however often their writes conflict, and the last one out takes
\* the finalizer along.
Drained ==
  \A x \in Names :
    (objects[x] # None /\ objects[x].deleting /\ ~NoEntries(objects[x])) ~> (objects[x] = None)

-----------------------------------------------------------------------------
(***************************************************************************)
(* What the documentation, comments and tests say and the code does not do *)
(***************************************************************************)
\* docs/design.md:75: "When the `.status` is empty, the fastest Pod will remove
\* the finalizer and the CR will be removed by the API-server."  Only the pod
\* that emptied it tries, once.
EmptyStatusReleases ==
  \A x \in Names :
    (objects[x] # None /\ objects[x].deleting /\ NoEntries(objects[x])) ~> (objects[x] = None)

\* docs/design.md:75: after the deletion was asked for, "the Pods are in charge
\* to remove themselves from the `.status`".  A pod whose entry is an error
\* runs deleteOperation without taking the entry out.
EntriesWithdrawn ==
  \A x \in Names, n \in Nodes :
    (objects[x] # None /\ objects[x].deleting /\ objects[x].status[n] # None)
      ~> (objects[x] = None \/ objects[x].status[n] = None)

\* docs/design.md:75: the finalizer "will prevent the deletion of the CR until
\* all Pod cleaned up the IP routes on the nodes".  A pod still between its
\* route and its status report is not waited for, and once the StaticRoute is
\* gone its reconciliations end at the cache: the route stays in the kernel.
NoOrphans ==
  \A n \in Nodes :
    (\A x \in Names : AtRest(n, x) /\ objects[x] = None) => kernel[n] = {}

\* api/v1/staticroute_types.go:43: "Selector defines the target nodes by
\* requirement (optional, default is apply to all)".  With "selectors: []" every
\* reconciliation finds its own entry changed, and takes the route away again.
AppliesToAll ==
  \A n \in Nodes, x \in Names :
    <>[](objects[x] # None /\ objects[x].spec.selectors \in Unselective => Served(n, x))

=============================================================================
