--------------------------- MODULE NodeController ---------------------------
(***************************************************************************)
(* controllers/node/node_controller.go: when a Node is deleted, every pod  *)
(* that hears of it takes the entry of that Node out of the status of the  *)
(* StaticRoutes.  It runs beside the reconcilers of StaticRouteController, *)
(* in a cluster whose Nodes leave and return and whose pods stop and       *)
(* start.                                                                  *)
(*                                                                         *)
(* A node controller lists the StaticRoutes from the cache once and then   *)
(* updates them one by one; the first update that fails ends the           *)
(* reconciliation, which is retried from the beginning.                    *)
(***************************************************************************)
EXTENDS StaticRouteController

CONSTANT Removable  \* the Nodes that the administrator may remove

VARIABLES
  running,   \* the nodes whose pod is running
  departed,  \* departed[n]: the names in the work queue of n's node controller
  cleaning   \* cleaning[n]: the Node it cleans up after, and what is to do

clusterVars == <<running, departed, cleaning>>
allVars == <<vars, clusterVars>>

\* The node controller of n as a client of the API server.
Cleaner(n) == <<n, "node">>

Resting == [node |-> None, todo |-> [x \in Names |-> None]]

\* node is the Node that is gone, todo[x] the listed copy of x with its entry.
Cleaning == [node : Nodes, todo : [Names -> Object \union {None}]]

ClusterTypeOK ==
  /\ TypeOK
  /\ running \in SUBSET Nodes
  /\ departed \in [Nodes -> SUBSET Nodes]
  /\ cleaning \in [Nodes -> Cleaning \union {Resting}]

ClusterInit ==
  /\ Init
  /\ running = Nodes
  /\ departed = [n \in Nodes |-> {}]
  /\ cleaning = [n \in Nodes |-> Resting]

-----------------------------------------------------------------------------
(***************************************************************************)
(* reconcileImpl                                                           *)
(***************************************************************************)
Idling(n) == n \in running /\ cleaning[n] = Resting

Dequeue(n, m) == departed' = [departed EXCEPT ![n] = @ \ {m}]

\* nodeStillExists: the cache has the Node (again).
NodeStillExists(n, m) ==
  /\ Idling(n)
  /\ m \in departed[n]
  /\ seen[n][m] # None
  /\ Dequeue(n, m)
  /\ UNCHANGED <<vars, running, cleaning>>

\* The copies of the cache that have an entry of m.
Listed(n, m) ==
  [x \in Names |->
     IF cache[n][x] # None /\ AlreadyInStatus(cache[n][x], m) THEN cache[n][x] ELSE None]

\* Mutant of CleanBegins: the copies are not the ones in the cache.
CleanBeginsBlind(n, m) ==
  /\ Idling(n)
  /\ m \in departed[n]
  /\ seen[n][m] = None
  /\ cleaning' = [cleaning EXCEPT ![n] = IF Listed(n, m) = Resting.todo THEN Resting
                                         ELSE [node |-> m, todo |-> Listed(n, m)]]
  /\ latest' = [x \in Names |-> latest[x] \union {Cleaner(n)}]
  /\ Dequeue(n, m)
  /\ UNCHANGED <<objects, podVars, nodeVars, labelVars, spent, running>>

\* The StaticRoutes are listed; each copy is as current as the cache is.  A
\* read that fails (nodeGetError, staticRouteListError) puts the request back,
\* which changes nothing.
CleanBegins(n, m) ==
  /\ Idling(n)
  /\ m \in departed[n]
  /\ seen[n][m] = None
  /\ cleaning' = [cleaning EXCEPT ![n] = IF Listed(n, m) = Resting.todo THEN Resting
                                         ELSE [node |-> m, todo |-> Listed(n, m)]]
  /\ latest' = [x \in Names |->
                  (latest[x] \ {Cleaner(n)})
                    \union {c \in {Cleaner(n)} : n \in latest[x] /\ Listed(n, m)[x] # None}]
  /\ Dequeue(n, m)
  /\ UNCHANGED <<objects, podVars, nodeVars, labelVars, spent, running>>

\* The update of x is done: on to the next one, if any.
CleanNext(n, x) ==
  LET todo == [cleaning[n].todo EXCEPT ![x] = None] IN
  /\ cleaning' = [cleaning EXCEPT ![n] = IF todo = Resting.todo THEN Resting ELSE [@ EXCEPT !.todo = todo]]
  /\ UNCHANGED departed

\* Mutant of CleanGivesUp: the request is not put back.
CleanForgets(n) ==
  /\ cleaning' = [cleaning EXCEPT ![n] = Resting]
  /\ UNCHANGED departed

\* deleteRouteError: whatever is left to do, it starts all over.
CleanGivesUp(n) ==
  /\ cleaning' = [cleaning EXCEPT ![n] = Resting]
  /\ departed' = [departed EXCEPT ![n] = @ \union {cleaning[n].node}]

\* nodeFinder.delete takes the entry out of x, and updates the status: applied
\* and answered, refused, lost, or applied with the answer lost.
CleanEntry(n, x) ==
  LET o == RemoveFromStatus(cleaning[n].todo[x], cleaning[n].node)
      accepted == Accepts(x, Cleaner(n)) /\ Admissible(o)
      applied == accepted /\ Store(x, WithStatus(x, o), Cleaner(n), FALSE)
      unapplied == Drop(x, Cleaner(n)) /\ UNCHANGED objects IN
  /\ n \in running
  /\ cleaning[n].todo[x] # None
  /\ \/ applied /\ CleanNext(n, x) /\ UNCHANGED spent
     \/ ~accepted /\ unapplied /\ CleanGivesUp(n) /\ UNCHANGED spent
     \/ Spend("setbacks") /\ (unapplied \/ applied) /\ CleanGivesUp(n)
  /\ UNCHANGED <<podVars, nodeVars, labelVars, running>>

-----------------------------------------------------------------------------
(***************************************************************************)
(* Events                                                                  *)
(***************************************************************************)
\* The watch tells n of Node m: the event filter of the node controller lets
\* deletions through.
HearOfNode(n, m) ==
  /\ n \in running
  /\ ObserveNode(n, m)
  /\ departed' = IF labels[m] = None THEN [departed EXCEPT ![n] = @ \union {m}] ELSE departed
  /\ UNCHANGED <<running, cleaning>>

\* The administrator removes Node m from the cluster, or it comes back.
NodeLeaves(m) ==
  /\ m \in Removable
  /\ labels[m] # None
  /\ labels' = [labels EXCEPT ![m] = None]
  /\ Spend("leaves")
  /\ UNCHANGED <<apiVars, podVars, nodeVars, seen, clusterVars>>

NodeReturns(m) ==
  /\ labels[m] = None
  /\ \E l \in Labels : labels' = [labels EXCEPT ![m] = l]
  /\ Spend("setbacks")
  /\ UNCHANGED <<apiVars, podVars, nodeVars, seen, clusterVars>>

\* The pod of n dies, or is evicted after its Node: its memory is gone.
PodStops(n) ==
  /\ n \in running
  /\ running' = running \ {n}
  /\ Die(n)
  /\ cache' = [cache EXCEPT ![n] = [x \in Names |-> None]]
  /\ seen' = [seen EXCEPT ![n] = [m \in Nodes |-> None]]
  /\ queue' = [w \in Workers |-> IF NodeOf(w) = n THEN {} ELSE queue[w]]
  /\ latest' = [x \in Names |-> HeldElsewhere(n, x)]
  /\ departed' = [departed EXCEPT ![n] = {}]
  /\ cleaning' = [cleaning EXCEPT ![n] = Resting]
  /\ IF labels[n] = None THEN UNCHANGED spent ELSE Spend("crashes")

\* The DaemonSet starts a pod on every Node there is.  The deletions that were
\* missed are no event for it.
PodStarts(n) ==
  /\ n \notin running
  /\ labels[n] # None
  /\ running' = running \union {n}
  /\ Die(n)
  /\ ListAll(n)
  /\ UNCHANGED <<departed, cleaning, spent>>

-----------------------------------------------------------------------------
(***************************************************************************)
(* The cluster: what StaticRouteController describes happens where the pod *)
(* is running.                                                             *)
(***************************************************************************)
PodWorks(w) ==
  /\ NodeOf(w) \in running
  /\ Step(w) \/ \E x \in Names : Begin(w, x)
  /\ UNCHANGED clusterVars

PodCleans(n) ==
  \/ \E m \in Nodes : NodeStillExists(n, m) \/ CleanBegins(n, m)
  \/ \E x \in Names : CleanEntry(n, x)

PodHears(n) ==
  \/ \E m \in Nodes : HearOfNode(n, m)
  \/ \E x \in Names : n \in running /\ Observe(n, x) /\ UNCHANGED clusterVars

Elsewhere ==
  /\ \/ User
     \/ \E n \in Nodes : Relabel(n)
     \/ \E w \in Workers, x \in Names : NodeOf(w) \in running /\ Resync(w, x)
  /\ UNCHANGED clusterVars

Membership == \E n \in Nodes : NodeLeaves(n) \/ NodeReturns(n) \/ PodStops(n) \/ PodStarts(n)

ClusterNext ==
  \/ \E w \in Workers : PodWorks(w)
  \/ \E n \in Nodes : PodCleans(n) \/ PodHears(n)
  \/ Elsewhere
  \/ Membership

ClusterSpec == ClusterInit /\ [][ClusterNext]_allVars

\* The workers, the node controller and the watches of every pod that runs keep
\* going, in whatever order they take what there is; the DaemonSet starts a pod
\* on every Node.
ClusterFairness ==
  /\ \A w \in Workers : WF_allVars(PodWorks(w))
  /\ \A n \in Nodes :
       /\ WF_allVars(PodCleans(n))
       /\ WF_allVars(PodHears(n))
       /\ WF_allVars(PodStarts(n))

FairClusterSpec == ClusterSpec /\ ClusterFairness

=============================================================================
