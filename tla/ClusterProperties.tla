------------------------- MODULE ClusterProperties -------------------------
(***************************************************************************)
(* What the node controllers guarantee in a cluster whose Nodes leave and  *)
(* return, and what becomes of the guarantees of StaticRouteProperties.    *)
(***************************************************************************)
EXTENDS NodeController, StaticRouteProperties

\* What a node controller listed and may still write is the stored object.
CleanersCurrent ==
  \A n \in Nodes, x \in Names :
    Cleaner(n) \in latest[x] /\ cleaning[n].todo[x] # None => cleaning[n].todo[x] = objects[x]

ClusterIInv ==
  /\ ClusterTypeOK
  /\ IInv
  /\ CleanersCurrent

\* A node controller writes the status list of all nodes, and takes nothing
\* out of it but the entry of the Node it cleans up after: what it listed
\* before somebody else's update is refused.
CleansOneEntry ==
  [][\A n \in Nodes, x \in Names :
       cleaning'[n] # cleaning[n] /\ objects'[x] # objects[x]
         => objects'[x] = [objects[x] EXCEPT !.status[cleaning[n].node] = None]]_allVars

-----------------------------------------------------------------------------
(***************************************************************************)
(* Liveness, under FairClusterSpec                                         *)
(***************************************************************************)
\* Node m is gone for good, as far as anybody knows, and so is its pod.
Gone(m) == labels[m] = None /\ m \notin running

\* The cache of n shows an entry of m in the status of x.
Leftover(n, m, x) == cache[n][x] # None /\ AlreadyInStatus(cache[n][x], m)

\* A pod that has heard of the removal of m, and knows of an entry of m, sees
\* to it that the entry goes, however often its updates conflict or fail.
Cleaned ==
  \A n \in Nodes, x \in Names : \A m \in Removable \ {n} :
    (n \in running /\ m \in departed[n] /\ Gone(m) /\ Leftover(n, m, x))
      ~> \/ objects[x] = None
         \/ ~AlreadyInStatus(objects[x], m)
         \/ ~Gone(m)
         \/ n \notin running

\* Every pod that keeps running provides its node with what it should have,
\* even if the Node left and came back while others clean up after it.
MembersServed ==
  \A n \in Nodes, x \in Names : <>[](n \in running) => <>[]Served(n, x)

-----------------------------------------------------------------------------
(***************************************************************************)
(* What the documentation says and the code does not do                    *)
(***************************************************************************)
\* docs/design.md:108: "the full review of the Nodes and CRs are performed to
\* catch up with any missing events".  The deletion of a Node is an event for
\* the pods running then, and only once.
CatchesUp ==
  \A n, m \in Nodes, x \in Names :
    ~<>[](n \in running /\ seen[n][m] = None /\ Gone(m) /\ Leftover(n, m, x))

=============================================================================
