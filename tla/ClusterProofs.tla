--------------------------- MODULE ClusterProofs ---------------------------
(***************************************************************************)
(* Proofs that the guarantees of the reconcilers survive node controllers, *)
(* Nodes that leave and return and pods that stop and start, for any       *)
(* number of them.                                                         *)
(*                                                                         *)
(* A step of the cluster is one of StaticRouteController's Next, which the *)
(* proofs of StaticRouteProofs cover, or one of the NodeController's own.  *)
(***************************************************************************)
EXTENDS ClusterProperties, StaticRouteRefinement

\* The node controller is a client of its own, of the pod of its node.
LEMMA CleanerClient ==
  ASSUME NEW n \in Nodes
  PROVE  /\ Cleaner(n) \in Clients /\ Cleaner(n) \in Readers
         /\ Cleaner(n) \notin Workers /\ Cleaner(n) \notin Nodes
         /\ NodeOf(Cleaner(n)) = n
         /\ \A m \in Nodes \ {n} : Cleaner(m) # Cleaner(n)
BY ControllerAssumption, ClientAssumption DEF Cleaner, Clients, Readers, Workers, NodeOf

\* Whatever the rest of the operator does takes a version from a node
\* controller, and never gives it one.
LEMMA CleanerUndisturbed ==
  ASSUME IInv, [Next]_vars, NEW k \in Nodes
  PROVE  Undisturbed(Cleaner(k))
<1>1. TypeOK /\ Cleaner(k) \in Clients /\ Cleaner(k) \notin Workers /\ Cleaner(k) \notin Nodes
  BY CleanerClient DEF IInv
<1>2. CASE \E w \in Workers : StepOK(w)
  BY <1>1, <1>2 DEF StepOK
<1>3. CASE User
  <2>1. PICK x \in Names : UserStep(x)
    BY <1>1, <1>3, UserSteps
  <2> QED BY <1>1, <2>1 DEF UserStep, Undisturbed, TypeOK, ApiTypeOK
<1>4. CASE Watch
  <2>1. ASSUME NEW n \in Nodes, NEW m \in Nodes, ObserveNode(n, m)
        PROVE  Undisturbed(Cleaner(k))
    BY <2>1 DEF ObserveNode, apiVars, Undisturbed
  <2>2. ASSUME NEW n \in Nodes, NEW x \in Names, Observe(n, x)
        PROVE  Undisturbed(Cleaner(k))
    BY <1>1, <2>2 DEF Observe, Undisturbed, TypeOK, ApiTypeOK
  <2> QED BY <1>4, <2>1, <2>2 DEF Watch
<1>5. CASE Disturbance
  BY <1>1, <1>5
     DEF Disturbance, Restart, Die, ListAll, HeldElsewhere, Relabel, Resync, apiVars, Undisturbed, TypeOK, ApiTypeOK
<1>6. CASE UNCHANGED vars
  BY <1>6 DEF vars, Undisturbed
<1> QED BY <1>2, <1>3, <1>4, <1>5, <1>6, NextCases

\* Node controllers that stand still while their objects do stay current.
LEMMA CleanersKept ==
  ASSUME CleanersCurrent, UNCHANGED cleaning, \A k \in Nodes : Undisturbed(Cleaner(k))
  PROVE  CleanersCurrent'
BY DEF CleanersCurrent, Undisturbed

-----------------------------------------------------------------------------
(***************************************************************************)
(* The steps of the node controller                                        *)
(***************************************************************************)
\* What CleanEntry does to the objects and to the copies of all.
CleanerStep(n, x) ==
  /\ UNCHANGED <<cache, queue, worker, managed, kernel, labels, seen, running>>
  /\ cleaning[n] \in Cleaning
  /\ \A k \in Nodes \ {n} : cleaning'[k] = cleaning[k]
  /\ \/ UNCHANGED objects
     \/ /\ objects[x] \in Object
        /\ objects' = [objects EXCEPT ![x] = [objects[x] EXCEPT !.status[cleaning[n].node] = None]]
  /\ \A c \in Clients \ {Cleaner(n)} : Undisturbed(c)
  /\ \A y \in Names : Cleaner(n) \in latest'[y] => y # x /\ Cleaner(n) \in latest[y]

\* A node controller at work knows the Node it cleans up after.
LEMMA CleaningBusy ==
  ASSUME ClusterTypeOK, NEW n \in Nodes, NEW x \in Names, cleaning[n].todo[x] # None
  PROVE  cleaning[n] \in Cleaning /\ cleaning[n].node \in Nodes /\ cleaning[n].todo[x] \in Object
<1>1. cleaning[n] \in Cleaning \union {Resting} /\ Resting.todo[x] = None
  BY DEF ClusterTypeOK, Resting
<1> QED BY <1>1 DEF Cleaning

\* Its update takes out one entry of the stored object, or does nothing.
LEMMA CleanEntryOK ==
  ASSUME ClusterIInv, NEW n \in Nodes, NEW x \in Names, CleanEntry(n, x)
  PROVE  CleanerStep(n, x) /\ TypeOK'
<1> DEFINE c == Cleaner(n)
           m == cleaning[n].node
           o == RemoveFromStatus(cleaning[n].todo[x], m)
<1>1. /\ TypeOK /\ c \in Clients /\ m \in Nodes
      /\ cleaning[n] \in Cleaning /\ cleaning[n].todo[x] \in Object
  BY CleaningBusy, CleanerClient DEF ClusterIInv, ClusterTypeOK, CleanEntry
<1>2. UNCHANGED <<cache, queue, worker, managed, kernel, labels, seen, running>>
  BY DEF CleanEntry, podVars, nodeVars, labelVars
<1>3. \A k \in Nodes \ {n} : cleaning'[k] = cleaning[k]
  BY DEF CleanEntry, CleanNext, CleanGivesUp, ClusterIInv, ClusterTypeOK
<1>4. spent' \in [Budgets -> Nat]
  <2>1. "setbacks" \in Budgets
    BY DEF Budgets
  <2> QED BY <1>1, <2>1, SpendType DEF CleanEntry, TypeOK
<1>5. CASE Drop(x, c) /\ UNCHANGED objects
  <2>1. /\ \A k \in Clients \ {c} : Undisturbed(k)
        /\ \A y \in Names : c \in latest'[y] => y # x /\ c \in latest[y]
    BY <1>1, <1>5 DEF Drop, Undisturbed, TypeOK, ApiTypeOK
  <2>2. latest' \in [Names -> SUBSET Clients]
    BY <1>1, <1>5 DEF Drop, TypeOK, ApiTypeOK
  <2> QED BY <1>1, <1>2, <1>3, <1>4, <1>5, <2>1, <2>2 DEF CleanerStep, TypeOK, ApiTypeOK
<1>6. CASE Accepts(x, c) /\ Store(x, WithStatus(x, o), c, FALSE)
  <2>1. cleaning[n].todo[x] = objects[x] /\ objects[x] \in Object
    BY <1>1, <1>6 DEF Accepts, ClusterIInv, CleanersCurrent, CleanEntry
  <2>2. WithStatus(x, o) = [objects[x] EXCEPT !.status[m] = None]
    BY <1>1, <2>1 DEF WithStatus, RemoveFromStatus, Object
  <2>3. WithStatus(x, o) \in Object
    BY <1>1, <2>1, <2>2 DEF Object, Status
  <2>4. /\ objects' = [objects EXCEPT ![x] = WithStatus(x, o)]
        /\ latest' = [latest EXCEPT ![x] = IF WithStatus(x, o) = objects[x] THEN @ \ {c} ELSE {}]
    BY <1>6 DEF Store
  <2> HIDE DEF o
  <2>5. /\ \A k \in Clients \ {c} : Undisturbed(k)
        /\ \A y \in Names : c \in latest'[y] => y # x /\ c \in latest[y]
    BY <1>1, <2>4 DEF Undisturbed, TypeOK, ApiTypeOK
  <2>6. ApiTypeOK(Clients)'
    BY <1>1, <2>3, <2>4 DEF TypeOK, ApiTypeOK
  <2> QED BY <1>1, <1>2, <1>3, <1>4, <2>1, <2>2, <2>4, <2>5, <2>6 DEF CleanerStep, TypeOK
<1> QED BY <1>5, <1>6 DEF CleanEntry

\* Without an entry no finalizer is missed, and no other copy was overtaken.
LEMMA CleanerStepOK ==
  ASSUME IInv, NEW n \in Nodes, NEW x \in Names, CleanerStep(n, x), TypeOK'
  PROVE  IInv'
<1>1. TypeOK /\ UNCHANGED <<cache, worker>> /\ Cleaner(n) \notin Workers /\ Cleaner(n) \notin Nodes
  BY CleanerClient DEF IInv, CleanerStep
<1>2. /\ \A w \in Workers : Undisturbed(w)
      /\ \A k \in Nodes : Undisturbed(k)
  BY <1>1, WorkerNode DEF CleanerStep, Clients
<1>3. CASE UNCHANGED objects
  BY <1>1, <1>2, <1>3, CacheKept, HeldKept, AllKept DEF IInv
<1>4. ASSUME NEW m, objects[x] \in Object,
             objects' = [objects EXCEPT ![x] = [objects[x] EXCEPT !.status[m] = None]]
      PROVE  IInv'
  <2>1. /\ objects'[x] = [objects[x] EXCEPT !.status[m] = None]
        /\ \A y \in Names \ {x} : objects'[y] = objects[y]
    BY <1>1, <1>4 DEF TypeOK, ApiTypeOK
  <2>2. /\ objects[x] # None
        /\ objects'[x].finalizer = objects[x].finalizer
        /\ objects'[x].deleting = objects[x].deleting
        /\ \A k \in Nodes : objects'[x].status[k] \in {objects[x].status[k], None}
    BY <1>4, <2>1, RecordAssumption DEF Object, Status
  <2>3. HealthyHeld'
    <3>1. ASSUME NEW y \in Names, NEW k \in HealthyNodes(y)'
          PROVE  k \in HealthyNodes(y) /\ objects'[y].finalizer = objects[y].finalizer
      <4>1. k \in Nodes /\ objects'[y] # None /\ Healthy(objects'[y], k)
        BY <3>1 DEF HealthyNodes, Healthy
      <4>2. CASE y = x
        <5>1. objects'[x].status[k] = objects[x].status[k]
          BY <2>2, <4>1, <4>2 DEF Healthy
        <5> QED BY <2>2, <4>1, <4>2, <5>1 DEF HealthyNodes, Healthy
      <4>3. CASE y # x
        BY <2>1, <4>1, <4>3 DEF HealthyNodes
      <4> QED BY <4>2, <4>3
    <3> QED BY <3>1 DEF HealthyHeld, IInv
  <2>4. DoomedHeld'
    BY <2>1, <2>2 DEF DoomedHeld, IInv
  <2> QED BY <1>1, <1>2, <2>3, <2>4, CacheKept, AllKept DEF IInv
<1> QED BY <1>3, <1>4 DEF CleanerStep

\* The other node controllers lose the version, and this one has no copy of x.
LEMMA CleanersAfterStep ==
  ASSUME ClusterIInv, NEW n \in Nodes, NEW x \in Names, CleanEntry(n, x), CleanerStep(n, x)
  PROVE  CleanersCurrent'
<1>1. \A k \in Nodes \ {n} : Undisturbed(Cleaner(k)) /\ cleaning'[k] = cleaning[k]
  BY CleanerClient DEF CleanerStep
<1>2. ASSUME NEW y \in Names, Cleaner(n) \in latest'[y], cleaning'[n].todo[y] # None
      PROVE  cleaning'[n].todo[y] = objects'[y]
  <2>1. y # x /\ Cleaner(n) \in latest[y] /\ cleaning[n] \in Cleaning
    BY <1>2 DEF CleanerStep
  <2>2. Resting.todo[y] = None
    BY DEF Resting
  <2>3. cleaning'[n].todo[y] = cleaning[n].todo[y]
    <3> DEFINE todo == [cleaning[n].todo EXCEPT ![x] = None]
    <3>1. todo[y] = cleaning[n].todo[y]
      BY <2>1 DEF Cleaning
    <3>2. cleaning'[n] \in {Resting, [cleaning[n] EXCEPT !.todo = todo]}
      <4>1. CleanNext(n, x) \/ CleanGivesUp(n)
        BY DEF CleanEntry
      <4> HIDE DEF todo
      <4>2. CASE CleanGivesUp(n)
        BY <4>2 DEF CleanGivesUp, ClusterIInv, ClusterTypeOK
      <4>3. CASE CleanNext(n, x)
        BY <4>3 DEF CleanNext, todo, ClusterIInv, ClusterTypeOK
      <4> QED BY <4>1, <4>2, <4>3
    <3>3. [cleaning[n] EXCEPT !.todo = todo].todo = todo
      BY <2>1 DEF Cleaning
    <3> HIDE DEF todo
    <3> QED BY <1>2, <2>2, <3>1, <3>2, <3>3
  <2>4. objects'[y] = objects[y]
    BY <2>1 DEF CleanerStep, ClusterIInv, ClusterTypeOK, TypeOK, ApiTypeOK
  <2> QED BY <1>2, <2>1, <2>3, <2>4 DEF ClusterIInv, CleanersCurrent
<1> QED BY <1>1, <1>2 DEF ClusterIInv, CleanersCurrent, Undisturbed

\* What is listed is current where the cache is.
LEMMA CleanBeginsOK ==
  ASSUME ClusterIInv, NEW n \in Nodes, NEW m \in Nodes, CleanBegins(n, m)
  PROVE  ClusterIInv'
<1>1. /\ ClusterTypeOK /\ TypeOK /\ IInv /\ CleanersCurrent
      /\ Cleaner(n) \in Clients /\ Cleaner(n) \notin Workers /\ Cleaner(n) \notin Nodes
  BY CleanerClient DEF ClusterIInv, IInv
<1>2. /\ UNCHANGED <<objects, cache, queue, worker, managed, kernel, labels, seen, spent, running>>
      /\ departed' = [departed EXCEPT ![n] = @ \ {m}]
      /\ cleaning' = [cleaning EXCEPT ![n] = IF Listed(n, m) = Resting.todo THEN Resting
                                             ELSE [node |-> m, todo |-> Listed(n, m)]]
  BY DEF CleanBegins, Dequeue, podVars, nodeVars, labelVars
<1>3. Listed(n, m) \in [Names -> Object \union {None}]
  BY <1>1 DEF Listed, TypeOK
<1>4. /\ latest' \in [Names -> SUBSET Clients]
      /\ \A c \in Clients \ {Cleaner(n)} : Undisturbed(c)
      /\ \A x \in Names : Cleaner(n) \in latest'[x] => n \in latest[x] /\ Listed(n, m)[x] # None
  BY <1>1, <1>2 DEF CleanBegins, TypeOK, ApiTypeOK, Undisturbed
<1>5. TypeOK'
  BY <1>1, <1>2, <1>4 DEF TypeOK, ApiTypeOK
<1>6. ClusterTypeOK'
  <2>1. cleaning' \in [Nodes -> Cleaning \union {Resting}]
    BY <1>1, <1>2, <1>3 DEF ClusterTypeOK, Cleaning
  <2> QED BY <1>1, <1>2, <1>5, <2>1 DEF ClusterTypeOK
<1>7. IInv'
  <2>1. /\ \A w \in Workers : Undisturbed(w)
        /\ \A k \in Nodes : Undisturbed(k)
    BY <1>1, <1>4, WorkerNode DEF Clients
  <2> QED BY <1>1, <1>2, <1>5, <2>1, CacheKept, HeldKept, AllKept DEF IInv
<1>8. CleanersCurrent'
  <2>1. \A k \in Nodes \ {n} : Undisturbed(Cleaner(k)) /\ cleaning'[k] = cleaning[k]
    BY <1>1, <1>2, <1>4, CleanerClient DEF ClusterTypeOK
  <2>2. ASSUME NEW x \in Names, Cleaner(n) \in latest'[x], cleaning'[n].todo[x] # None
        PROVE  cleaning'[n].todo[x] = objects'[x]
    <3>1. n \in latest[x] /\ Listed(n, m)[x] # None
      BY <1>4, <2>2
    <3>2. Listed(n, m)[x] = cache[n][x]
      BY <3>1 DEF Listed
    <3>3. cleaning'[n].todo[x] = Listed(n, m)[x]
      BY <1>1, <1>2, <2>2 DEF ClusterTypeOK, Resting
    <3> QED BY <1>1, <1>2, <3>1, <3>2, <3>3 DEF IInv, CacheCurrent
  <2> QED BY <1>1, <2>1, <2>2 DEF CleanersCurrent, Undisturbed
<1> QED BY <1>6, <1>7, <1>8 DEF ClusterIInv

-----------------------------------------------------------------------------
(***************************************************************************)
(* The cluster                                                             *)
(***************************************************************************)
\* Every step is one of the reconcilers, the administrator and the watches, or
\* one of these.
LEMMA ClusterCases ==
  ASSUME ClusterTypeOK, [ClusterNext]_allVars
  PROVE  \/ /\ [Next]_vars
            /\ UNCHANGED <<running, cleaning>>
            /\ departed' \in [Nodes -> SUBSET Nodes]
         \/ \E n, m \in Nodes : CleanBegins(n, m)
         \/ \E n \in Nodes, x \in Names : CleanEntry(n, x)
         \/ \E n \in Nodes : NodeLeaves(n) \/ NodeReturns(n)
         \/ \E n \in Nodes : PodStops(n) \/ PodStarts(n)
<1> DEFINE Base == /\ [Next]_vars
                   /\ UNCHANGED <<running, cleaning>>
                   /\ departed' \in [Nodes -> SUBSET Nodes]
<1>1. ASSUME NEW w \in Workers, PodWorks(w) PROVE Base
  BY <1>1 DEF PodWorks, Next, clusterVars, ClusterTypeOK
<1>2. ASSUME NEW n \in Nodes, PodCleans(n)
      PROVE  Base \/ (\E m \in Nodes : CleanBegins(n, m)) \/ (\E x \in Names : CleanEntry(n, x))
  <2>1. ASSUME NEW m \in Nodes, NodeStillExists(n, m) PROVE Base
    BY <2>1 DEF NodeStillExists, Dequeue, ClusterTypeOK
  <2> HIDE DEF Base
  <2> QED BY <1>2, <2>1 DEF PodCleans
<1>3. ASSUME NEW n \in Nodes, PodHears(n) PROVE Base
  <2>1. ASSUME NEW m \in Nodes, HearOfNode(n, m) PROVE Base
    BY <2>1 DEF HearOfNode, Next, Watch, ClusterTypeOK
  <2>2. ASSUME NEW x \in Names, Observe(n, x), UNCHANGED clusterVars PROVE Base
    BY <2>2 DEF Next, Watch, clusterVars, ClusterTypeOK
  <2> HIDE DEF Base
  <2> QED BY <1>3, <2>1, <2>2 DEF PodHears
<1>4. ASSUME Elsewhere PROVE Base
  BY <1>4 DEF Elsewhere, Next, Disturbance, clusterVars, ClusterTypeOK
<1>5. ASSUME UNCHANGED allVars PROVE Base
  BY <1>5 DEF allVars, clusterVars, ClusterTypeOK
<1> HIDE DEF Base
<1> QED BY <1>1, <1>2, <1>3, <1>4, <1>5 DEF ClusterNext, Membership, Base

\* A Node comes or goes: that is news for the watches, and nothing else.
LEMMA MembershipOK ==
  ASSUME ClusterIInv, NEW n \in Nodes, NodeLeaves(n) \/ NodeReturns(n)
  PROVE  ClusterIInv' /\ UNCHANGED <<objects, cleaning>>
<1>1. /\ UNCHANGED <<objects, latest, cache, queue, worker, managed, kernel, seen, running, departed, cleaning>>
      /\ \E l \in Labels \union {None} : labels' = [labels EXCEPT ![n] = l]
  BY DEF NodeLeaves, NodeReturns, apiVars, podVars, nodeVars, clusterVars
<1>2. spent' \in [Budgets -> Nat]
  <2>1. "leaves" \in Budgets /\ "setbacks" \in Budgets
    BY DEF Budgets
  <2> QED BY <2>1, SpendType DEF NodeLeaves, NodeReturns, ClusterIInv, ClusterTypeOK
<1>3. TypeOK' /\ ClusterTypeOK'
  BY <1>1, <1>2 DEF ClusterIInv, ClusterTypeOK, TypeOK, ApiTypeOK
<1>4. \A c : Undisturbed(c)
  BY <1>1 DEF Undisturbed
<1>5. IInv'
  BY <1>1, <1>3, <1>4, CacheKept, HeldKept, AllKept DEF ClusterIInv, IInv
<1>6. CleanersCurrent'
  BY <1>1, <1>4, CleanersKept DEF ClusterIInv
<1> QED BY <1>1, <1>3, <1>5, <1>6 DEF ClusterIInv

\* A pod that stops leaves no current copy behind, one that starts has its
\* cache alone.
LEMMA PodsOK ==
  ASSUME ClusterIInv, NEW n \in Nodes, PodStops(n) \/ PodStarts(n)
  PROVE  ClusterIInv' /\ UNCHANGED objects
<1>1. TypeOK /\ IInv /\ CleanersCurrent /\ ClusterTypeOK
  BY DEF ClusterIInv, ClusterTypeOK
<1>2. UNCHANGED objects
  BY DEF PodStops, PodStarts, Die
<1>3. running' \in SUBSET Nodes /\ departed' \in [Nodes -> SUBSET Nodes] /\ cleaning' \in [Nodes -> Cleaning \union {Resting}]
  BY <1>1 DEF PodStops, PodStarts, ClusterTypeOK
<1>4. CASE PodStops(n)
  <2>1. /\ Die(n)
        /\ cache' = [cache EXCEPT ![n] = [x \in Names |-> None]]
        /\ seen' = [seen EXCEPT ![n] = [m \in Nodes |-> None]]
        /\ queue' = [w \in Workers |-> IF NodeOf(w) = n THEN {} ELSE queue[w]]
        /\ latest' = [x \in Names |-> HeldElsewhere(n, x)]
        /\ cleaning' = [cleaning EXCEPT ![n] = Resting]
    BY <1>4 DEF PodStops
  <2>2. spent' \in [Budgets -> Nat]
    <3>1. "crashes" \in Budgets
      BY DEF Budgets
    <3> QED BY <1>1, <1>4, <3>1, SpendType DEF PodStops, TypeOK
  <2>3. /\ ApiTypeOK(Clients)'
        /\ cache' \in [Nodes -> [Names -> Object \union {None}]]
        /\ queue' \in [Workers -> SUBSET Names]
        /\ seen' \in [Nodes -> [Nodes -> Labels \union {None}]]
    BY <1>1, <1>2, <2>1 DEF HeldElsewhere, TypeOK, ApiTypeOK
  <2>4. /\ worker' \in [Workers -> Job \union {Idle}]
        /\ managed' \in [Nodes -> [Names -> Route \union {None}]]
    BY <1>1, <2>1 DEF Die, TypeOK
  <2>5. TypeOK'
    BY <1>1, <2>1, <2>2, <2>3, <2>4 DEF Die, TypeOK
  <2>6. CacheCurrent'
    <3> SUFFICES ASSUME NEW k \in Nodes, NEW y \in Names, k \in latest'[y]
                 PROVE  cache'[k][y] = objects'[y]
      BY DEF CacheCurrent
    <3>1. k # n /\ k \in latest[y]
      BY <2>1 DEF HeldElsewhere
    <3>2. cache'[k] = cache[k]
      BY <1>1, <2>1, <3>1 DEF TypeOK
    <3> QED BY <1>1, <1>2, <3>1, <3>2 DEF IInv, CacheCurrent
  <2>7. IInv'
    <3>1. \A x \in Names : latest'[x] \subseteq HeldElsewhere(n, x) \union {n}
      BY <2>1
    <3> QED BY <1>1, <2>1, <2>5, <2>6, <3>1, DieOK
  <2>8. CleanersCurrent'
    <3> SUFFICES ASSUME NEW k \in Nodes, NEW y \in Names, Cleaner(k) \in latest'[y]
                 PROVE  cleaning'[k].todo[y] # None => cleaning'[k].todo[y] = objects'[y]
      BY DEF CleanersCurrent
    <3>1. k # n /\ Cleaner(k) \in latest[y]
      BY <2>1, CleanerClient DEF HeldElsewhere
    <3>2. cleaning'[k] = cleaning[k]
      BY <1>1, <2>1, <3>1 DEF ClusterTypeOK
    <3> QED BY <1>1, <1>2, <3>1, <3>2 DEF CleanersCurrent
  <2> QED BY <1>2, <1>3, <2>5, <2>7, <2>8 DEF ClusterIInv, ClusterTypeOK
<1>5. CASE PodStarts(n)
  <2>1. Die(n) /\ ListAll(n) /\ UNCHANGED <<cleaning, spent>>
    BY <1>5 DEF PodStarts
  <2>2. spent' \in [Budgets -> Nat]
    BY <1>1, <2>1 DEF TypeOK
  <2>3. TypeOK'
    BY <1>1, <2>1, <2>2, RebootType
  <2>4. IInv'
    BY <1>1, <2>1, <2>3, RebootOK
  <2>5. CleanersCurrent'
    <3> SUFFICES ASSUME NEW k \in Nodes, NEW y \in Names, Cleaner(k) \in latest'[y]
                 PROVE  Cleaner(k) \in latest[y]
      BY <1>1, <1>2, <2>1 DEF CleanersCurrent
    <3>1. Cleaner(k) # n
      BY CleanerClient
    <3> QED BY <2>1, <3>1 DEF ListAll, HeldElsewhere
  <2> QED BY <1>2, <1>3, <2>3, <2>4, <2>5 DEF ClusterIInv, ClusterTypeOK
<1> QED BY <1>4, <1>5

\* All of it is inductive.
LEMMA ClusterNextOK ==
  ASSUME ClusterIInv, [ClusterNext]_allVars
  PROVE  ClusterIInv'
<1>1. IInv /\ ClusterTypeOK /\ CleanersCurrent
  BY DEF ClusterIInv
<1>2. CASE /\ [Next]_vars
           /\ UNCHANGED <<running, cleaning>>
           /\ departed' \in [Nodes -> SUBSET Nodes]
  <2>1. IInv' /\ TypeOK'
    BY <1>1, <1>2, NextOK DEF IInv
  <2>2. CleanersCurrent'
    BY <1>1, <1>2, CleanerUndisturbed, CleanersKept
  <2> QED BY <1>1, <1>2, <2>1, <2>2 DEF ClusterIInv, ClusterTypeOK
<1>3. ASSUME NEW n \in Nodes, NEW x \in Names, CleanEntry(n, x)
      PROVE  ClusterIInv'
  <2>1. CleanerStep(n, x) /\ TypeOK'
    BY <1>3, CleanEntryOK
  <2>2. IInv' /\ CleanersCurrent'
    BY <1>1, <1>3, <2>1, CleanerStepOK, CleanersAfterStep
  <2>3. running' \in SUBSET Nodes
    BY <1>1, <2>1 DEF CleanerStep, ClusterTypeOK
  <2>4. departed' \in [Nodes -> SUBSET Nodes] /\ cleaning' \in [Nodes -> Cleaning \union {Resting}]
    <3>1. cleaning[n] \in Cleaning
      BY <2>1 DEF CleanerStep
    <3>2. CASE CleanNext(n, x)
      <4>1. [cleaning[n] EXCEPT !.todo = [cleaning[n].todo EXCEPT ![x] = None]] \in Cleaning
        BY <3>1 DEF Cleaning
      <4> QED BY <1>1, <3>2, <4>1 DEF CleanNext, ClusterTypeOK
    <3>3. CASE CleanGivesUp(n)
      <4>1. cleaning[n].node \in Nodes
        BY <3>1 DEF Cleaning
      <4> QED BY <1>1, <3>3, <4>1 DEF CleanGivesUp, ClusterTypeOK
    <3> QED BY <1>3, <3>2, <3>3 DEF CleanEntry
  <2> QED BY <2>1, <2>2, <2>3, <2>4 DEF ClusterIInv, ClusterTypeOK
<1> QED BY <1>1, <1>2, <1>3, ClusterCases, CleanBeginsOK, MembershipOK, PodsOK

\* Nobody cleans initially.
LEMMA ClusterInitOK == ClusterInit => ClusterIInv
<1> SUFFICES ASSUME ClusterInit PROVE ClusterIInv
  OBVIOUS
<1>1. IInv /\ TypeOK
  BY InitOK DEF ClusterInit, IInv
<1>2. \A n \in Nodes, x \in Names : cleaning[n].todo[x] = None
  BY DEF ClusterInit, Resting
<1> QED BY <1>1, <1>2 DEF ClusterInit, ClusterIInv, ClusterTypeOK, CleanersCurrent

\* Whatever Nodes and pods come and go, a copy that the API server would still
\* accept, from a reconciler or from a node controller, is one it may write.
THEOREM ClusterInductive == ClusterSpec => []ClusterIInv
BY ClusterInitOK, ClusterNextOK, PTL DEF ClusterSpec

\* A node controller removes the entry of the Node that is gone from what is
\* stored, and changes nothing else of the object.
THEOREM OneEntryCleaned == ClusterSpec => CleansOneEntry
<1>1. ASSUME ClusterIInv, [ClusterNext]_allVars, NEW n \in Nodes, NEW x \in Names,
             cleaning'[n] # cleaning[n], objects'[x] # objects[x]
      PROVE  objects'[x] = [objects[x] EXCEPT !.status[cleaning[n].node] = None]
  <2>1. PICK k \in Nodes, y \in Names : CleanEntry(k, y)
    BY <1>1, ClusterCases, MembershipOK, PodsOK DEF ClusterIInv, CleanBegins
  <2>2. CleanerStep(k, y)
    BY <1>1, <2>1, CleanEntryOK
  <2>3. k = n
    BY <1>1, <2>2 DEF CleanerStep
  <2> DEFINE o == [objects[y] EXCEPT !.status[cleaning[k].node] = None]
  <2>4. objects' = [objects EXCEPT ![y] = o]
    BY <1>1, <2>2 DEF CleanerStep
  <2>5. y = x /\ objects'[x] = o
    <3> HIDE DEF o
    <3> QED BY <1>1, <2>4 DEF ClusterIInv, IInv, TypeOK, ApiTypeOK
  <2> QED BY <2>3, <2>5
<1>2. ClusterIInv /\ [ClusterNext]_allVars
        => [\A n \in Nodes, x \in Names :
              cleaning'[n] # cleaning[n] /\ objects'[x] # objects[x]
                => objects'[x] = [objects[x] EXCEPT !.status[cleaning[n].node] = None]]_allVars
  BY <1>1
<1> QED BY <1>2, ClusterInductive, PTL DEF ClusterSpec, CleansOneEntry

\* Node controllers, Nodes and pods take no object away.
LEMMA ClusterVanishOK ==
  ASSUME ClusterIInv, [ClusterNext]_allVars, NEW x \in Names, objects[x] # None, objects'[x] = None
  PROVE  HealthyNodes(x) = {}
<1>1. IInv /\ ClusterTypeOK
  BY DEF ClusterIInv
<1>2. CASE [Next]_vars
  BY <1>1, <1>2, VanishOK
<1>3. ASSUME NEW n \in Nodes, NEW y \in Names, CleanEntry(n, y)
      PROVE  FALSE
  <2>1. CleanerStep(n, y) /\ TypeOK
    BY <1>1, <1>3, CleanEntryOK DEF IInv
  <2> DEFINE o == [objects[y] EXCEPT !.status[cleaning[n].node] = None]
  <2>2. objects[y] \in Object /\ objects' = [objects EXCEPT ![y] = o] /\ y = x
    BY <2>1 DEF CleanerStep, TypeOK, ApiTypeOK
  <2>3. o \in Object
    BY <2>2 DEF Object, Status
  <2> HIDE DEF o
  <2>4. objects'[x] = o
    BY <2>1, <2>2 DEF TypeOK, ApiTypeOK
  <2> QED BY <2>3, <2>4, RecordAssumption
<1>4. ASSUME UNCHANGED objects PROVE FALSE
  BY <1>4
<1> QED BY <1>1, <1>2, <1>3, <1>4, ClusterCases, MembershipOK, PodsOK DEF CleanBegins

\* A StaticRoute vanishes only when no node's status shows the route in place,
\* whoever cleans up after whom.
THEOREM ClusterNeverVanishes == ClusterSpec => DeletionWaits
<1>1. ClusterIInv /\ [ClusterNext]_allVars
        => [\A x \in Names : objects[x] # None /\ objects'[x] = None => HealthyNodes(x) = {}]_vars
  BY ClusterVanishOK
<1> QED BY <1>1, ClusterInductive, PTL DEF ClusterSpec, DeletionWaits

\* Only the reconciler's own write changes an object while its job goes on.
LEMMA ClusterForeignOK ==
  ASSUME ClusterIInv, [ClusterNext]_allVars, NEW w \in Workers, NEW x \in Names,
         worker'[w] # worker[w], objects[x] # None, objects'[x] # None
  PROVE  /\ objects'[x].spec \in {objects[x].spec, Encoded(objects[x].spec)}
         /\ \A n \in Nodes \ {NodeOf(w)} : objects'[x].status[n] = objects[x].status[n]
<1>1. IInv /\ ClusterTypeOK
  BY DEF ClusterIInv
<1>2. CASE [Next]_vars
  BY <1>1, <1>2, ForeignOK
<1>3. ASSUME NEW n \in Nodes, NEW y \in Names, CleanEntry(n, y) PROVE FALSE
  BY <1>3 DEF CleanEntry, podVars
<1>4. ASSUME NEW n \in Nodes, NEW m \in Nodes, CleanBegins(n, m) PROVE FALSE
  BY <1>4 DEF CleanBegins, podVars
<1>5. ASSUME NEW n \in Nodes, NodeLeaves(n) \/ NodeReturns(n) PROVE FALSE
  BY <1>5 DEF NodeLeaves, NodeReturns, podVars
<1>6. CASE \E n \in Nodes : PodStops(n) \/ PodStarts(n)
  <2>1. UNCHANGED objects
    BY <1>6, PodsOK
  <2> QED BY <2>1
<1> QED BY <1>1, <1>2, <1>3, <1>4, <1>5, <1>6, ClusterCases

\* In the cluster, too, a reconciler changes no spec and no entry but the one
\* of its own node: the entries of others are the business of node controllers.
THEOREM ClusterNoForeignWrites == ClusterSpec => OwnEntryOnly
<1>1. ClusterIInv /\ [ClusterNext]_allVars
        => [\A w \in Workers, x \in Names :
              worker'[w] # worker[w] /\ objects[x] # None /\ objects'[x] # None
                => /\ objects'[x].spec \in {objects[x].spec, Encoded(objects[x].spec)}
                   /\ \A n \in Nodes \ {NodeOf(w)} :
                        objects'[x].status[n] = objects[x].status[n]]_vars
  BY ClusterForeignOK
<1> QED BY <1>1, ClusterInductive, PTL DEF ClusterSpec, OwnEntryOnly

\* Nothing but a reconciler puts a route into a kernel or starts a job.
LEMMA ClusterAdmissionNext ==
  ASSUME ClusterIInv, AdmissionIInv, [ClusterNext]_allVars
  PROVE  AdmissionIInv'
<1>1. ClusterTypeOK /\ TypeOK'
  BY ClusterNextOK DEF ClusterIInv, IInv
<1>2. CASE [Next]_vars
  BY <1>2, AdmissionNext
<1>3. ASSUME UNCHANGED kernel, \A w \in Workers : worker'[w] \in {worker[w], Idle}
      PROVE  AdmissionIInv'
  BY <1>1, <1>3, IdleAdmitted, NoNewRoute
<1>4. ASSUME UNCHANGED <<podVars, nodeVars>>
      PROVE  UNCHANGED kernel /\ \A w \in Workers : worker'[w] \in {worker[w], Idle}
  BY <1>4 DEF podVars, nodeVars
<1>5. ASSUME NEW n \in Nodes, Die(n)
      PROVE  UNCHANGED kernel /\ \A w \in Workers : worker'[w] \in {worker[w], Idle}
  BY <1>5 DEF Die
<1> QED BY <1>1, <1>2, <1>3, <1>4, <1>5, ClusterCases
        DEF CleanBegins, CleanEntry, NodeLeaves, NodeReturns, PodStops, PodStarts

\* No Node that leaves or returns, and no pod that starts over with its Node's
\* kernel as it was, brings a route there that its checks do not admit.
THEOREM ClusterAdmitted == ClusterSpec => []OnlyAdmittedRoutes
<1>1. ClusterInit => AdmissionIInv
  BY AdmissionInit DEF ClusterInit
<1>2. ClusterIInv /\ AdmissionIInv /\ [ClusterNext]_allVars => AdmissionIInv'
  BY ClusterAdmissionNext
<1>3. AdmissionIInv => OnlyAdmittedRoutes
  BY DEF AdmissionIInv
<1> QED BY <1>1, <1>2, <1>3, ClusterInductive, PTL DEF ClusterSpec

\* With node controllers and Nodes that come and go the operator still
\* implements the finalizer protocol.
THEOREM ClusterRefinement == ClusterSpec => ImplementsProtocol
<1>1. ClusterInit => Protocol!ProtocolInit
  BY ProtocolStarts DEF ClusterInit
<1>2. ClusterIInv /\ [ClusterNext]_allVars => [Protocol!ProtocolNext]_(Protocol!protocolVars)
  <2> SUFFICES ASSUME ClusterIInv, [ClusterNext]_allVars
               PROVE  Protocol!ProtocolNext \/ UNCHANGED <<phase, held, joined>>
    BY DEF Protocol!protocolVars
  <2>1. CASE [Next]_vars
    BY <2>1, StepRefines DEF ClusterIInv
  <2>2. ASSUME NEW n \in Nodes, NEW x \in Names, CleanEntry(n, x)
        PROVE  Protocol!ProtocolNext \/ UNCHANGED <<phase, held, joined>>
    <3>1. CleanerStep(n, x) /\ TypeOK /\ cleaning[n].node \in Nodes
      BY <2>2, CleanEntryOK DEF CleanerStep, Cleaning, ClusterIInv, IInv
    <3>2. CASE UNCHANGED objects
      BY <3>2, ObjectsKept
    <3> DEFINE m == cleaning[n].node
               o == [objects[x] EXCEPT !.status[m] = None]
    <3>3. ASSUME objects[x] \in Object, objects' = [objects EXCEPT ![x] = o]
          PROVE  Protocol!ProtocolNext
      <4>1. o \in Object /\ ~Healthy(o, m)
        BY <3>1, <3>3 DEF Object, Status, Healthy
      <4>2. o = [objects[x] EXCEPT !.status[m] = None]
        OBVIOUS
      <4> HIDE DEF o, m
      <4> QED BY <3>1, <3>3, <4>1, <4>2, EntryOK DEF m
    <3> QED BY <3>1, <3>2, <3>3 DEF CleanerStep
  <2>3. CASE UNCHANGED objects
    BY <2>3, ObjectsKept
  <2> QED BY <2>1, <2>2, <2>3, ClusterCases, MembershipOK, PodsOK DEF ClusterIInv, CleanBegins
<1> QED BY <1>1, <1>2, ClusterInductive, PTL DEF ClusterSpec, ImplementsProtocol, Protocol!ProtocolSpec

=============================================================================
