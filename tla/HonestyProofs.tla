--------------------------- MODULE HonestyProofs ---------------------------
(***************************************************************************)
(* Proof that the status of a StaticRoute is honest about every node that  *)
(* is at rest, for any number of nodes and StaticRoutes, any interleaving, *)
(* failures and restarts, provided that every StaticRoute keeps one route  *)
(* (its selectors may be edited) with a destination of its own.            *)
(*                                                                         *)
(* HonestStep says what a step of a worker may do to the object x that it  *)
(* works on, its copy of it and its route, and that the worker goes on to  *)
(* attend to x as long as it has to.                                       *)
(***************************************************************************)
EXTENDS ClusterProofs

-----------------------------------------------------------------------------
(***************************************************************************)
(* The route of a StaticRoute                                              *)
(***************************************************************************)
\* The routes that x may ask for on n: one, if the administrator keeps to it.
Routes(n, x) == {Asked(n, s) : s \in Specs[x]}

\* Two copies of x ask for the same.
LEMMA Agreement ==
  ASSUME OwnRoute, NEW x \in Names, NEW o, NEW p, AsksFor(x, o), AsksFor(x, p), NEW n, NEW gw
  PROVE  /\ o.spec.subnet = p.spec.subnet
         /\ o.spec.table = p.spec.table
         /\ Passed(n, o, gw) <=> Passed(n, p, gw)
         /\ RouteOf(o, gw) = RouteOf(p, gw)
<1>1. /\ o.spec.subnet = p.spec.subnet
      /\ o.spec.gateway = p.spec.gateway
      /\ o.spec.table = p.spec.table
  BY DEF AsksFor, OwnRoute
<1> QED BY <1>1 DEF Passed, NextHop, IsProtected, Routable, RouteOf

\* A copy that only differs in its selectors asks for the same.
LEMMA AsksStill ==
  ASSUME NEW x \in Names, NEW o, NEW p, AsksFor(x, o),
         p.spec = o.spec \/ (o.spec \in RouteSpec /\ p.spec = Encoded(o.spec))
  PROVE  AsksFor(x, p)
<1>1. CASE p.spec = o.spec
  BY <1>1 DEF AsksFor
<1>2. CASE o.spec \in RouteSpec /\ p.spec = Encoded(o.spec)
  <2>1. /\ p.spec.subnet = o.spec.subnet
        /\ p.spec.gateway = o.spec.gateway
        /\ p.spec.table = o.spec.table
    BY <1>2 DEF Encoded, RouteSpec
  <2> QED BY <2>1 DEF AsksFor
<1> QED BY <1>1, <1>2

\* The route made of a copy of x is the route x asks for.
LEMMA RouteAsked ==
  ASSUME NEW x \in Names, NEW o, AsksFor(x, o), NEW n, NEW gw, gw = NextHop(n, o)
  PROVE  RouteOf(o, gw) \in Routes(n, x)
<1>1. PICK s \in Specs[x] : /\ o.spec.subnet = s.subnet
                            /\ o.spec.gateway = s.gateway
                            /\ o.spec.table = s.table
  BY DEF AsksFor
<1>2. RouteOf(o, gw) = Asked(n, s)
  BY <1>1 DEF Asked, RouteOf, NextHop
<1> QED BY <1>1, <1>2 DEF Routes

\* There is one such route, and no other StaticRoute has its destination.
LEMMA OneRoute ==
  ASSUME OwnRoute, NEW n \in Nodes, NEW x \in Names, NEW r \in Routes(n, x)
  PROVE  /\ \A q \in Routes(n, x) : q = r
         /\ OwnDestination =>
              \A y \in Names \ {x} : \A q \in Routes(n, y) : q.dst # r.dst \/ q.table # r.table
<1>1. PICK s \in Specs[x] : r = Asked(n, s)
  BY DEF Routes
<1>2. \A t \in Specs[x] : Asked(n, t) = Asked(n, s)
  <2> SUFFICES ASSUME NEW t \in Specs[x] PROVE Asked(n, t) = Asked(n, s)
    OBVIOUS
  <2>1. t.subnet = s.subnet /\ t.gateway = s.gateway /\ t.table = s.table
    BY DEF OwnRoute
  <2> QED BY <2>1 DEF Asked, RouteOf, NextHop
<1>3. ASSUME OwnDestination, NEW y \in Names \ {x}, NEW q \in Routes(n, y)
      PROVE  q.dst # r.dst \/ q.table # r.table
  <2>1. PICK t \in Specs[y] : q = Asked(n, t)
    BY DEF Routes
  <2> QED BY <1>1, <1>3, <2>1 DEF OwnDestination
<1> QED BY <1>1, <1>2, <1>3 DEF Routes

-----------------------------------------------------------------------------
(***************************************************************************)
(* The stored objects                                                      *)
(***************************************************************************)
\* o asks for the route of x and is right about every node it calls healthy.
RightObject(x, o) ==
  o # None => AsksFor(x, o) /\ \A n \in Nodes : Healthy(o, n) => Shows(n, o)

\* HonestyIInv says so of what is stored.
LEMMA StoredRight ==
  ASSUME CopiesAsk, ReportsPassed, NEW x \in Names
  PROVE  RightObject(x, objects[x])
BY DEF CopiesAsk, ReportsPassed, RightObject, HealthyNodes

\* What is right of an object depends on its route and its entries.
LEMMA RightStill ==
  ASSUME OwnRoute, NEW x \in Names, NEW o, o # None, RightObject(x, o), NEW p, AsksFor(x, p),
         \A n \in Nodes : p.status[n] = o.status[n] \/ ~Healthy(p, n) \/ Shows(n, p)
  PROVE  RightObject(x, p)
<1> SUFFICES ASSUME NEW n \in Nodes, p # None, Healthy(p, n), p.status[n] = o.status[n]
             PROVE  Shows(n, p)
  BY DEF RightObject
<1>1. Healthy(o, n) /\ Shows(n, o) /\ AsksFor(x, o)
  BY DEF Healthy, RightObject
<1>2. /\ o.spec.subnet = p.spec.subnet
      /\ o.spec.table = p.spec.table
      /\ Passed(n, o, o.status[n].state.gateway) <=> Passed(n, p, o.status[n].state.gateway)
  BY <1>1, Agreement
<1> QED BY <1>1, <1>2 DEF Shows

\* An update from a copy of x that asks for its route leaves the object right.
LEMMA PutRight ==
  ASSUME TypeOK, OwnRoute, CopiesAsk, ReportsPassed, NEW x \in Names, objects[x] # None,
         NEW o \in Object, AsksFor(x, o)
  PROVE  /\ RightObject(x, Put(x, "object", o))
         /\ (\A n \in Nodes : o.status[n] = objects[x].status[n] \/ ~Healthy(o, n) \/ Shows(n, o))
              => RightObject(x, Put(x, "status", o))
<1> DEFINE p == objects[x]
<1>1. p \in Object /\ RightObject(x, p) /\ AsksFor(x, p)
  BY StoredRight DEF TypeOK, ApiTypeOK, RightObject
<1>2. RightObject(x, WithMeta(x, o))
  <2> DEFINE q == [p EXCEPT !.spec = Encoded(o.spec), !.finalizer = o.finalizer]
  <2>1. q.spec = Encoded(o.spec) /\ q.status = p.status
    BY <1>1 DEF Object
  <2>2. AsksFor(x, q)
    BY <2>1, AsksStill DEF Object
  <2>3. RightObject(x, q)
    BY <1>1, <2>1, <2>2, RightStill
  <2>4. RightObject(x, None)
    BY DEF RightObject
  <2> QED BY <2>3, <2>4 DEF WithMeta
<1>3. ASSUME \A n \in Nodes : o.status[n] = p.status[n] \/ ~Healthy(o, n) \/ Shows(n, o)
      PROVE  RightObject(x, WithStatus(x, o))
  <2> DEFINE q == [p EXCEPT !.status = o.status]
  <2>1. q.spec = p.spec /\ q.status = o.status
    BY <1>1 DEF Object
  <2>2. AsksFor(x, q)
    BY <1>1, <2>1, AsksStill
  <2>3. ASSUME NEW n \in Nodes
        PROVE  q.status[n] = p.status[n] \/ ~Healthy(q, n) \/ Shows(n, q)
    <3>1. CASE ~Healthy(o, n)
      BY <2>1, <3>1 DEF Healthy
    <3>2. CASE Shows(n, o)
      <4>1. /\ o.spec.subnet = q.spec.subnet
            /\ o.spec.table = q.spec.table
            /\ Passed(n, o, o.status[n].state.gateway) <=> Passed(n, q, o.status[n].state.gateway)
        BY <2>2, Agreement
      <4> QED BY <2>1, <3>2, <4>1 DEF Shows
    <3> QED BY <1>3, <2>1, <3>1, <3>2
  <2>4. RightObject(x, q)
    BY <1>1, <2>2, <2>3, RightStill
  <2> QED BY <2>4 DEF WithStatus
<1> QED BY <1>2, <1>3 DEF Put

\* A call changes the object as Put says, if at all.
LEMMA Written ==
  ASSUME TypeOK, NEW w \in Workers, worker[w].pc \in PCs, NEW part, NEW o \in Object,
         NEW keep \in BOOLEAN, Applied(w, part, o, keep) \/ Failed(w, part, o, keep)
  PROVE  \/ UNCHANGED objects
         \/ /\ Acceptable(w, o)
            /\ objects[worker[w].name] # None
            /\ objects' = [objects EXCEPT ![worker[w].name] = Put(worker[w].name, part, o)]
<1>1. CASE Applied(w, part, o, keep)
  BY <1>1, AppliedEffect DEF Acceptable, Accepts
<1>2. CASE Failed(w, part, o, keep)
  BY <1>2, FailedEffect DEF Acceptable, Accepts
<1> QED BY <1>1, <1>2

-----------------------------------------------------------------------------
(***************************************************************************)
(* The jobs of the workers                                                 *)
(***************************************************************************)
\* What CopiesAsk and ReportsPassed say of one worker.
RightJob(w) ==
  /\ \A x \in Names : worker[w].name = x => AsksFor(x, worker[w].inst)
  /\ Joining(w) \/ worker[w].pc = "finalizer" => Passed(NodeOf(w), worker[w].inst, worker[w].gw)

\* What they say of everything else.
RightCopies ==
  \A x \in Names :
    /\ RightObject(x, objects[x])
    /\ \A n \in Nodes : cache[n][x] # None => AsksFor(x, cache[n][x])

LEMMA RightParts ==
  CopiesAsk /\ ReportsPassed <=> RightCopies /\ \A w \in Workers : RightJob(w)
BY DEF CopiesAsk, ReportsPassed, RightCopies, RightJob, RightObject, HealthyNodes

\* The same after a step.
LEMMA RightPartsNext ==
  (CopiesAsk /\ ReportsPassed)' <=> RightCopies' /\ \A w \in Workers : RightJob(w)'
BY DEF CopiesAsk, ReportsPassed, RightCopies, RightJob, RightObject, HealthyNodes

\* A job is right as long as its route stays, and it starts no healthy report.
LEMMA JobMoves ==
  ASSUME NEW w \in Workers, RightJob(w), NEW j, worker'[w] = j,
         j.name = worker[w].name, j.inst.spec = worker[w].inst.spec, j.gw = worker[w].gw,
         (Joining(w) \/ worker[w].pc = "finalizer")' => Joining(w) \/ worker[w].pc = "finalizer"
  PROVE  RightJob(w)'
<1>1. ASSUME NEW x \in Names, worker'[w].name = x
      PROVE  AsksFor(x, worker'[w].inst)
  BY <1>1, AsksStill DEF RightJob
<1>2. ASSUME (Joining(w) \/ worker[w].pc = "finalizer")'
      PROVE  Passed(NodeOf(w), worker'[w].inst, worker'[w].gw)
  BY <1>2 DEF RightJob, Passed, NextHop, IsProtected, Routable
<1> QED BY <1>1, <1>2 DEF RightJob

\* An idle worker has nothing wrong.
LEMMA JobEnds ==
  ASSUME NEW w \in Workers, worker'[w] = Idle
  PROVE  RightJob(w)' /\ ~Engaged(w)'
<1>1. worker'[w].pc = "idle" /\ worker'[w].name = None
  <2>1. Idle.pc = "idle" /\ Idle.name = None
    BY DEF Idle
  <2> QED BY <2>1
<1>2. None \notin Names
  BY NoneAssumption
<1> QED BY <1>1, <1>2 DEF RightJob, Engaged, Joining

-----------------------------------------------------------------------------
(***************************************************************************)
(* The steps of a worker                                                   *)
(***************************************************************************)
\* A step of w leaves the objects, its job and the tables right, touches the
\* queue and the manager of nobody else, and does not leave x unattended.
HonestStep(w) ==
  LET n == NodeOf(w) IN
  /\ StepOK(w)
  /\ \A x \in Names : objects'[x] = objects[x] \/ RightObject(x, objects'[x])
  /\ RightJob(w)'
  /\ TablesAgree'
  /\ \A v \in Workers \ {w} : queue'[v] = queue[v]
  /\ \A m \in Nodes \ {n} : managed'[m] = managed[m]
  /\ \A x \in Names :
       /\ managed[n][x] # None \/ Attends(w, x)
       /\ Unprovided(n, x)'
       /\ n \in latest'[x]
       => Attends(w, x)'

\* Entries are healthy before and after where nothing was stored.
LEMMA UnprovidedStays ==
  ASSUME NEW n \in Nodes, NEW x \in Names, Unprovided(n, x)', objects'[x] = objects[x]
  PROVE  /\ objects[x] # None /\ Healthy(objects[x], n)
         /\ objects[x].spec.subnet \notin Unparsable
         /\ managed'[n][x] = None
         /\ managed[n][x] = None => Unprovided(n, x)
BY DEF Unprovided, HealthyNodes, Healthy

\* A step with these effects on the one object it is about keeps HonestyIInv.
LEMMA HonestStepOK ==
  ASSUME HonestyIInv, NEW w \in Workers, HonestStep(w), TypeOK'
  PROVE  HonestyIInv'
<1> USE DEF HonestyIInv
<1>1. IInv'
  BY WorkerOK DEF HonestStep
<1>2. CopiesAsk' /\ ReportsPassed'
  <2>1. RightCopies /\ \A v \in Workers : RightJob(v)
    BY RightParts
  <2>2. RightCopies'
    BY <2>1 DEF RightCopies, HonestStep, StepOK
  <2>3. ASSUME NEW v \in Workers
        PROVE  RightJob(v)'
    <3>1. CASE v = w
      BY <3>1 DEF HonestStep
    <3>2. CASE v # w
      BY <2>1, <3>2 DEF HonestStep, StepOK, RightJob, Joining
    <3> QED BY <3>1, <3>2
  <2> QED BY <2>2, <2>3, RightPartsNext
<1>3. ASSUME NEW n \in Nodes, NEW x \in Names, Unprovided(n, x)', n \in latest'[x]
      PROVE  \E v \in Workers : NodeOf(v) = n /\ Attends(v, x)'
  <2>1. n \in latest[x] /\ objects'[x] = objects[x]
    <3>1. n \in Clients \ {w}
      BY WorkerNode, ClientAssumption DEF Clients
    <3> QED BY <1>3, <3>1 DEF HonestStep, StepOK, Undisturbed
  <2>2. managed[n][x] = None => Unprovided(n, x)
    BY <1>3, <2>1, UnprovidedStays
  <2>3. CASE n = NodeOf(w) /\ (managed[n][x] # None \/ Attends(w, x))
    BY <1>3, <2>3 DEF HonestStep
  <2>4. CASE n # NodeOf(w) \/ ~(managed[n][x] # None \/ Attends(w, x))
    <3>1. managed[n][x] = None
      BY <1>3, <2>1, <2>4, UnprovidedStays DEF HonestStep
    <3>2. PICK v \in Workers : NodeOf(v) = n /\ Attends(v, x)
      BY <2>1, <2>2, <3>1 DEF Attended
    <3>3. v # w
      BY <2>4, <3>1, <3>2
    <3>4. worker'[v] = worker[v] /\ queue'[v] = queue[v]
      BY <3>3 DEF HonestStep, StepOK
    <3>5. Attends(v, x)'
      BY <3>2, <3>4 DEF Attends, Engaged, Joining
    <3> QED BY <3>2, <3>5
  <2> QED BY <2>3, <2>4
<1>4. Attended'
  BY <1>3 DEF Attended
<1> QED BY <1>1, <1>2, <1>4 DEF HonestStep

\* What the steps of a busy worker have in common.
LEMMA BusyHonest ==
  ASSUME HonestyIInv, NEW w \in Workers, worker[w].pc \in PCs, StepOK(w),
         NEW n, n = NodeOf(w), NEW x, x = worker[w].name,
         \A y \in Names : objects'[y] = objects[y] \/ RightObject(y, objects'[y]),
         RightJob(w)',
         TablesAgree',
         \A v \in Workers \ {w} : queue'[v] = queue[v],
         queue[w] \subseteq queue'[w],
         \A m \in Nodes \ {n} : managed'[m] = managed[m],
         \A y \in Names \ {x} : managed'[n][y] = managed[n][y],
         (managed[n][x] # None \/ Engaged(w)) /\ Unprovided(n, x)' /\ n \in latest'[x]
           => Attends(w, x)'
  PROVE  HonestStep(w)
<1>1. ASSUME NEW y \in Names, managed[n][y] # None \/ Attends(w, y),
             Unprovided(n, y)', n \in latest'[y]
      PROVE  Attends(w, y)'
  <2>1. CASE y \in queue[w]
    BY <2>1 DEF Attends
  <2>2. CASE y \notin queue[w] /\ y # x
    BY <1>1, <2>2 DEF Attends, Unprovided
  <2>3. CASE y \notin queue[w] /\ y = x
    BY <1>1, <2>3 DEF Attends
  <2> QED BY <2>1, <2>2, <2>3
<1> QED BY <1>1 DEF HonestStep

\* What an update that keeps the route, and the entries of the others, does to
\* the objects.
LEMMA ObjectsRight ==
  ASSUME OwnRoute, HonestyIInv, NEW w \in Workers, worker[w].pc \in PCs,
         NEW part, NEW o \in Object, NEW keep \in BOOLEAN,
         Applied(w, part, o, keep) \/ Failed(w, part, o, keep),
         o.spec = worker[w].inst.spec,
         part = "status" =>
           /\ \A m \in Nodes \ {NodeOf(w)} : o.status[m] = worker[w].inst.status[m]
           /\ Healthy(o, NodeOf(w)) => Shows(NodeOf(w), o),
         part \in {"object", "status"}
  PROVE  \A y \in Names : objects'[y] = objects[y] \/ RightObject(y, objects'[y])
<1> DEFINE x == worker[w].name
           n == NodeOf(w)
           stored == Put(x, part, o)
<1>1. /\ TypeOK /\ CopiesAsk /\ ReportsPassed
      /\ OwnCopy(w)
  BY PerWorker DEF HonestyIInv, IInv
<1>2. x \in Names
  BY <1>1, Busy
<1>3. AsksFor(x, o)
  BY <1>1, <1>2, AsksStill DEF CopiesAsk
<1>4. CASE UNCHANGED objects
  BY <1>4
<1>5. CASE /\ Acceptable(w, o)
           /\ objects[x] # None
           /\ objects' = [objects EXCEPT ![x] = stored]
  <2>1. CopyOf(w, x)
    BY <1>1, <1>2, <1>5 DEF Acceptable, Accepts, OwnCopy
  <2>2. /\ RightObject(x, Put(x, "object", o))
        /\ (\A m \in Nodes : o.status[m] = objects[x].status[m] \/ ~Healthy(o, m) \/ Shows(m, o))
             => RightObject(x, Put(x, "status", o))
    BY <1>1, <1>2, <1>3, <1>5, PutRight
  <2>3. part = "status" =>
          \A m \in Nodes : o.status[m] = objects[x].status[m] \/ ~Healthy(o, m) \/ Shows(m, o)
    BY <2>1 DEF CopyOf
  <2>4. RightObject(x, stored)
    BY <2>2, <2>3
  <2> HIDE DEF stored
  <2> QED BY <1>1, <1>2, <1>5, <2>4 DEF TypeOK, ApiTypeOK
<1>6. \/ UNCHANGED objects
      \/ /\ Acceptable(w, o)
         /\ objects[x] # None
         /\ objects' = [objects EXCEPT ![x] = stored]
  BY <1>1, Written
<1> QED BY <1>4, <1>5, <1>6

\* A step that leaves the tables alone.
LEMMA CallHonest ==
  ASSUME HonestyIInv, NEW w \in Workers, worker[w].pc \in PCs, StepOK(w),
         NEW n, n = NodeOf(w), NEW x, x = worker[w].name,
         UNCHANGED <<managed, kernel>>,
         \A y \in Names : objects'[y] = objects[y] \/ RightObject(y, objects'[y]),
         RightJob(w)',
         \A v \in Workers \ {w} : queue'[v] = queue[v],
         queue[w] \subseteq queue'[w],
         Engaged(w) /\ Unprovided(n, x)' /\ n \in latest'[x] => Attends(w, x)'
  PROVE  HonestStep(w)
<1>1. TablesAgree'
  BY DEF HonestyIInv, TablesAgree
<1>2. Unprovided(n, x)' => managed[n][x] = None
  BY DEF Unprovided
<1> QED BY <1>1, <1>2, BusyHonest

\* The finalizer: the route comes next, or the reconciliation comes back.
LEMMA StoreFinalizerHonest ==
  ASSUME OwnRoute, HonestyIInv, NEW w \in Workers, NEW x, x = worker[w].name, StoreFinalizer(w)
  PROVE  HonestStep(w)
<1> DEFINE job == worker[w]
           o == SetFinalizer(job.inst)
<1>1. /\ IInv /\ TypeOK /\ TablesAgree /\ RightJob(w)
      /\ job.pc = "finalizer" /\ job.pc \in PCs
  BY RightParts DEF HonestyIInv, IInv, StoreFinalizer, PCs
<1>2. /\ job \in Job /\ x \in Names /\ job.inst \in Object
      /\ o \in Object /\ o.spec = job.inst.spec
  BY <1>1, Busy DEF SetFinalizer, Object
<1>3. Applied(w, "object", o, TRUE) \/ Failed(w, "object", o, TRUE)
  BY DEF StoreFinalizer
<1>4. \A y \in Names : objects'[y] = objects[y] \/ RightObject(y, objects'[y])
  <2> HIDE DEF o
  <2> QED BY <1>1, <1>2, <1>3, ObjectsRight
<1>5. PICK j \in {[job EXCEPT !.pc = "register", !.inst = o],
                  [job EXCEPT !.pc = "report", !.inst = o, !.err = "update", !.again = TRUE]} :
        Goto(w, j)
  BY DEF StoreFinalizer
<1>6. /\ j.name = x /\ j.inst.spec = job.inst.spec /\ j.gw = job.gw
      /\ j.pc = "register" \/ (j.pc = "report" /\ j.again)
  BY <1>2, <1>5 DEF Job
<1>7. worker'[w] = j
  BY <1>1, <1>5, GotoOthers
<1>8. RightJob(w)'
  BY <1>1, <1>6, <1>7, JobMoves
<1>9. Attends(w, x)'
  BY <1>6, <1>7 DEF Attends, Engaged
<1>10. StepOK(w)
  BY <1>1, StoreFinalizerOK
<1>11. UNCHANGED <<queue, managed, kernel>>
  BY DEF StoreFinalizer, nodeVars
<1> QED BY <1>1, <1>4, <1>8, <1>9, <1>10, <1>11, CallHonest

\* The lookup: the route is registered next, or it is managed already.
LEMMA CheckRegisteredHonest ==
  ASSUME OwnRoute, HonestyIInv, NEW w \in Workers, NEW x, x = worker[w].name, CheckRegistered(w)
  PROVE  HonestStep(w)
<1> DEFINE job == worker[w]
           n == NodeOf(w)
<1>1. /\ IInv /\ TypeOK /\ ReportsPassed /\ RightJob(w)
      /\ job.pc = "register" /\ job.pc \in PCs /\ Joining(w)
      /\ UNCHANGED <<objects, latest, queue, managed, kernel>>
  BY RightParts DEF HonestyIInv, IInv, CheckRegistered, PCs, Joining, apiVars, nodeVars
<1>2. job \in Job /\ x \in Names /\ n \in Nodes
  BY <1>1, Busy, WorkerNode
<1>3. PICK pc \in {"add", "report"} :
        /\ Goto(w, [job EXCEPT !.pc = pc])
        /\ pc = "report" => managed[n][x] # None \/ job.inst.spec.subnet \in Unparsable
  BY DEF CheckRegistered
<1>4. worker'[w] = [job EXCEPT !.pc = pc]
  BY <1>1, <1>3, GotoOthers
<1>5. /\ worker'[w].pc = pc /\ worker'[w].name = x /\ worker'[w].inst = job.inst
      /\ worker'[w].gw = job.gw
  BY <1>2, <1>4 DEF Job
<1>6. RightJob(w)'
  BY <1>1, <1>5, JobMoves
<1>7. ASSUME Unprovided(n, x)', n \in latest'[x]
      PROVE  Attends(w, x)'
  <2>1. /\ objects[x] # None /\ Healthy(objects[x], n)
        /\ objects[x].spec.subnet \notin Unparsable /\ managed[n][x] = None
    BY <1>1, <1>2, <1>7, UnprovidedStays
  <2>2. job.inst.spec.subnet = objects[x].spec.subnet
    BY <1>2, <2>1 DEF HonestyIInv, CopiesAsk, AsksFor, OwnRoute
  <2>3. pc = "add"
    BY <1>3, <2>1, <2>2
  <2> QED BY <1>5, <2>3 DEF Attends, Engaged
<1>8. StepOK(w)
  BY <1>1, CheckRegisteredOK
<1> QED BY <1>1, <1>6, <1>7, <1>8, CallHonest

\* The route that is registered is the one that was asked for, and so is one
\* that the kernel had already.
LEMMA RegisterRouteHonest ==
  ASSUME OwnRoute, OwnDestination, HonestyIInv, NEW w \in Workers, NEW x, x = worker[w].name,
         RegisterRoute(w)
  PROVE  HonestStep(w)
<1> DEFINE job == worker[w]
           n == NodeOf(w)
           route == RouteOf(job.inst, job.gw)
<1>1. /\ IInv /\ TypeOK /\ CopiesAsk /\ TablesAgree /\ RightJob(w)
      /\ job.pc = "add" /\ job.pc \in PCs /\ Joining(w)
      /\ UNCHANGED <<objects, latest, queue>>
      /\ managed' = [managed EXCEPT ![n][x] = route]
      /\ kernel' = IF Exists(n, route) THEN kernel ELSE [kernel EXCEPT ![n] = @ \union {route}]
      /\ Goto(w, [job EXCEPT !.pc = "report"])
  BY RightParts DEF HonestyIInv, IInv, RegisterRoute, PCs, Joining, apiVars
<1>2. /\ job \in Job /\ x \in Names /\ n \in Nodes
      /\ managed \in [Nodes -> [Names -> Route \union {None}]]
      /\ kernel \in [Nodes -> SUBSET Route]
      /\ route \in Route
  BY <1>1, Busy, WorkerNode, RouteTypes DEF TypeOK
<1>3. worker'[w] = [job EXCEPT !.pc = "report"]
  BY <1>1, GotoOthers
<1>4. /\ worker'[w].pc = "report" /\ worker'[w].name = x /\ worker'[w].inst = job.inst
      /\ worker'[w].gw = job.gw
  BY <1>2, <1>3 DEF Job
<1>5. RightJob(w)'
  BY <1>1, <1>4, JobMoves
<1>6. route \in Routes(n, x)
  BY <1>1, <1>2, RouteAsked DEF CopiesAsk, RightJob, Passed
<1> HIDE DEF route
<1>7. route \in kernel'[n] /\ kernel[n] \subseteq kernel'[n] /\ kernel'[n] \subseteq kernel[n] \union {route}
  <2>1. CASE Exists(n, route)
    <3>1. PICK r \in kernel[n] : r.dst = route.dst /\ r.table = route.table
      BY <2>1 DEF Exists
    <3>2. PICK y \in Names : r \in Routes(n, y)
      BY <1>1, <1>2 DEF TablesAgree, Routes
    <3>3. r = route
      BY <1>2, <1>6, <3>1, <3>2, OneRoute
    <3> QED BY <1>1, <2>1, <3>3
  <2>2. CASE ~Exists(n, route)
    BY <1>1, <1>2, <2>2
  <2> QED BY <2>1, <2>2
<1>8. /\ managed'[n][x] = route
      /\ \A y \in Names \ {x} : managed'[n][y] = managed[n][y]
      /\ \A m \in Nodes \ {n} : managed'[m] = managed[m] /\ kernel'[m] = kernel[m]
  BY <1>1, <1>2
<1>9. TablesAgree'
  <2>1. ASSUME NEW m \in Nodes, NEW y \in Names, managed'[m][y] # None
        PROVE  managed'[m][y] \in Routes(m, y) \intersect kernel'[m]
    BY <1>1, <1>6, <1>7, <1>8, <2>1 DEF TablesAgree, Routes
  <2>2. ASSUME NEW m \in Nodes, NEW r \in kernel'[m]
        PROVE  r \in {Asked(m, s) : s \in UNION {Specs[y] : y \in Names}}
    BY <1>1, <1>2, <1>6, <1>7, <1>8 DEF TablesAgree, Routes
  <2> QED BY <2>1, <2>2 DEF TablesAgree, Routes
<1>10. ~Unprovided(n, x)'
  BY <1>2, <1>8, RouteAssumption DEF Unprovided
<1>11. StepOK(w)
  BY <1>1, RegisterRouteOK
<1> QED BY <1>1, <1>5, <1>8, <1>9, <1>10, <1>11, BusyHonest

\* The manager refuses, and the reconciliation comes back.
LEMMA RegisterFailsHonest ==
  ASSUME HonestyIInv, NEW w \in Workers, NEW x, x = worker[w].name, RegisterFails(w)
  PROVE  HonestStep(w)
<1> DEFINE job == worker[w]
           j == [job EXCEPT !.pc = "report", !.err = "register", !.again = TRUE]
<1>1. /\ IInv /\ TypeOK /\ RightJob(w)
      /\ job.pc = "add" /\ job.pc \in PCs
      /\ UNCHANGED <<objects, latest, queue, managed, kernel>>
      /\ Goto(w, j)
  BY RightParts DEF HonestyIInv, IInv, RegisterFails, PCs, apiVars, nodeVars
<1>2. job \in Job
  BY <1>1, Busy
<1>3. worker'[w] = j
  BY <1>1, GotoOthers
<1>4. /\ j.pc = "report" /\ j.name = x /\ j.inst = job.inst /\ j.gw = job.gw
      /\ j.err = "register" /\ j.again
  BY <1>2 DEF Job
<1>5. RightJob(w)'
  BY <1>1, <1>3, <1>4, JobMoves DEF Joining
<1>6. Attends(w, x)'
  BY <1>3, <1>4 DEF Attends, Engaged
<1>7. StepOK(w)
  BY <1>1, RegisterFailsOK
<1> QED BY <1>1, <1>5, <1>6, <1>7, CallHonest

\* A route that goes takes none of another StaticRoute along, and the entry
\* goes next.
LEMMA DeRegisterRouteHonest ==
  ASSUME OwnRoute, OwnDestination, HonestyIInv, NEW w \in Workers, NEW x, x = worker[w].name,
         DeRegisterRoute(w)
  PROVE  HonestStep(w)
<1> DEFINE job == worker[w]
           n == NodeOf(w)
           gone == managed[n][x]
<1>1. /\ IInv /\ TypeOK /\ TablesAgree /\ RightJob(w)
      /\ job.pc = "deregister" /\ job.pc \in PCs
      /\ UNCHANGED <<objects, latest, queue>>
      /\ managed' = [managed EXCEPT ![n][x] = None]
      /\ kernel' = [kernel EXCEPT ![n] = @ \ {gone}]
      /\ Goto(w, [job EXCEPT !.pc = "forget"])
  BY RightParts DEF HonestyIInv, IInv, DeRegisterRoute, PCs, apiVars
<1>2. /\ job \in Job /\ x \in Names /\ n \in Nodes
      /\ managed \in [Nodes -> [Names -> Route \union {None}]]
      /\ kernel \in [Nodes -> SUBSET Route]
  BY <1>1, Busy, WorkerNode DEF TypeOK
<1>3. worker'[w] = [job EXCEPT !.pc = "forget"]
  BY <1>1, GotoOthers
<1>4. /\ worker'[w].pc = "forget" /\ worker'[w].name = x /\ worker'[w].inst = job.inst
      /\ worker'[w].gw = job.gw
  BY <1>2, <1>3 DEF Job
<1>5. RightJob(w)' /\ Attends(w, x)'
  BY <1>1, <1>4, JobMoves DEF Joining, Attends, Engaged
<1>6. /\ managed'[n][x] = None
      /\ \A y \in Names \ {x} : managed'[n][y] = managed[n][y]
      /\ kernel'[n] = kernel[n] \ {gone}
      /\ \A m \in Nodes \ {n} : managed'[m] = managed[m] /\ kernel'[m] = kernel[m]
  BY <1>1, <1>2
<1>7. ASSUME NEW y \in Names \ {x}, managed[n][y] # None
      PROVE  managed[n][y] # gone
  <2>1. CASE gone = None
    BY <1>7, <2>1
  <2>2. CASE gone # None
    <3>1. gone \in Routes(n, x) /\ managed[n][y] \in Routes(n, y)
      BY <1>1, <1>2, <1>7, <2>2 DEF TablesAgree, Routes
    <3>2. managed[n][y].dst # gone.dst \/ managed[n][y].table # gone.table
      BY <1>2, <3>1, OneRoute
    <3> QED BY <3>2
  <2> QED BY <2>1, <2>2
<1> HIDE DEF gone
<1>8. TablesAgree'
  <2>1. ASSUME NEW m \in Nodes, NEW y \in Names, managed'[m][y] # None
        PROVE  managed'[m][y] \in Routes(m, y) \intersect kernel'[m]
    <3>1. managed'[m][y] = managed[m][y] /\ (m = n => managed[m][y] # gone)
      BY <1>6, <1>7, <2>1
    <3>2. managed[m][y] \in Routes(m, y) \intersect kernel[m]
      BY <1>1, <2>1, <3>1 DEF TablesAgree, Routes
    <3> QED BY <1>6, <3>1, <3>2
  <2>2. ASSUME NEW m \in Nodes
        PROVE  kernel'[m] \subseteq {Asked(m, s) : s \in UNION {Specs[y] : y \in Names}}
    <3>1. kernel'[m] \subseteq kernel[m]
      BY <1>6
    <3> QED BY <1>1, <3>1 DEF TablesAgree
  <2> QED BY <2>1, <2>2 DEF TablesAgree, Routes
<1>9. StepOK(w)
  BY <1>1, DeRegisterRouteOK
<1> QED BY <1>1, <1>5, <1>6, <1>8, <1>9, BusyHonest

\* A worker that is done comes back if told so.
LEMMA Finished ==
  ASSUME TypeOK, NEW w \in Workers, NEW x \in Names, x = worker[w].name, NEW again \in BOOLEAN,
         Finish(w, again)
  PROVE  /\ worker'[w] = Idle
         /\ \A v \in Workers \ {w} : queue'[v] = queue[v]
         /\ queue[w] \subseteq queue'[w]
         /\ again => Attends(w, x)'
BY DEF Finish, Goto, Requeue, TypeOK, Attends

\* The manager fails to remove the route, and the reconciliation comes back.
LEMMA DeRegisterFailsHonest ==
  ASSUME HonestyIInv, NEW w \in Workers, NEW x, x = worker[w].name, DeRegisterFails(w)
  PROVE  HonestStep(w)
<1>1. /\ IInv /\ TypeOK /\ worker[w].pc \in PCs
      /\ UNCHANGED <<objects, managed, kernel>>
      /\ Finish(w, TRUE)
  BY DEF HonestyIInv, IInv, DeRegisterFails, PCs, nodeVars
<1>2. x \in Names
  BY <1>1, Busy
<1>3. /\ worker'[w] = Idle
      /\ \A v \in Workers \ {w} : queue'[v] = queue[v]
      /\ queue[w] \subseteq queue'[w]
      /\ Attends(w, x)'
  BY <1>1, <1>2, Finished
<1>4. StepOK(w)
  BY <1>1, DeRegisterFailsOK
<1> QED BY <1>1, <1>3, <1>4, JobEnds, CallHonest

\* After the report, the deletion, or the end: back to the queue if told so.
LEMMA AfterReportLeads ==
  ASSUME TypeOK, NEW w \in Workers, worker[w].pc = "report", NEW x \in Names, x = worker[w].name,
         RightJob(w), NEW job \in Job, job.name = x, job.inst.spec = worker[w].inst.spec,
         job.gw = worker[w].gw, NEW again \in BOOLEAN, AfterReport(w, job, again)
  PROVE  /\ RightJob(w)'
         /\ \A v \in Workers \ {w} : queue'[v] = queue[v]
         /\ queue[w] \subseteq queue'[w]
         /\ again \/ job.inst.deleting => Attends(w, x)'
<1>1. CASE job.inst.deleting
  <2> DEFINE j == [job EXCEPT !.pc = "deregister", !.again = FALSE]
  <2>1. j.pc = "deregister" /\ j.name = x /\ j.inst = job.inst /\ j.gw = job.gw
    BY DEF Job
  <2>2. worker'[w] = j /\ UNCHANGED queue
    BY <1>1, GotoOthers DEF AfterReport
  <2>3. RightJob(w)' /\ Attends(w, x)'
    BY <2>1, <2>2, JobMoves DEF Joining, Attends, Engaged
  <2> QED BY <2>2, <2>3
<1>2. CASE ~job.inst.deleting
  <2>1. Finish(w, again)
    BY <1>2 DEF AfterReport
  <2> QED BY <1>2, <2>1, Finished, JobEnds
<1> QED BY <1>1, <1>2

\* The report says nothing new: w has to act only if it comes back anyway.
LEMMA NothingToReportHonest ==
  ASSUME HonestyIInv, NEW w \in Workers, NEW x, x = worker[w].name, NothingToReport(w)
  PROVE  HonestStep(w)
<1> DEFINE job == worker[w]
<1>1. /\ IInv /\ TypeOK /\ RightJob(w)
      /\ job.pc = "report" /\ job.pc \in PCs
      /\ UNCHANGED <<objects, managed, kernel>>
      /\ StatusMatch(job.inst, NodeOf(w), job.gw, job.err)
      /\ AfterReport(w, job, job.again)
  BY RightParts DEF HonestyIInv, IInv, NothingToReport, PCs, Unapplied, nodeVars
<1>2. job \in Job /\ x \in Names /\ job.again \in BOOLEAN
  BY <1>1, Busy
<1>3. /\ RightJob(w)'
      /\ \A v \in Workers \ {w} : queue'[v] = queue[v]
      /\ queue[w] \subseteq queue'[w]
      /\ job.again => Attends(w, x)'
  BY <1>1, <1>2, AfterReportLeads
<1>4. Engaged(w) => job.again
  BY <1>1 DEF Engaged
<1>5. StepOK(w)
  BY <1>1, NothingToReportOK
<1> QED BY <1>1, <1>3, <1>4, <1>5, CallHonest

\* The entry a report makes shows what was checked, and is the only change.
LEMMA EntryRight ==
  ASSUME NEW n \in Nodes, NEW o \in Object, NEW gw \in ShownGateways, NEW err \in Errors
  PROVE  LET new == AddToStatus(RemoveFromStatus(o, n), n, gw, err) IN
         /\ new \in Object
         /\ new.spec = o.spec /\ new.deleting = o.deleting
         /\ \A m \in Nodes \ {n} : new.status[m] = o.status[m]
         /\ Healthy(new, n) <=> (err = "" /\ gw \in Gateways)
         /\ Passed(n, o, gw) => Shows(n, new)
<1> DEFINE new == AddToStatus(RemoveFromStatus(o, n), n, gw, err)
           cut == RemoveFromStatus(o, n)
           state == Encoded(ShownState(cut, gw))
<1>1. cut \in Object /\ cut.spec = o.spec /\ cut.status[n] = None
  BY ObjectOps DEF RemoveFromStatus, Object, Status
<1>2. new = [cut EXCEPT !.status[n] = [state |-> state, error |-> err]]
  BY <1>1 DEF AddToStatus, AlreadyInStatus
<1>3. state.subnet = o.spec.subnet /\ state.table = o.spec.table /\ state.gateway = gw
  BY <1>1 DEF Encoded, ShownState, Object, RouteSpec
<1> HIDE DEF new, cut, state
<1>4. new.spec = o.spec /\ new.status[n].state = state
  BY <1>1, <1>2 DEF Object, Status
<1>5. Passed(n, o, gw) => Shows(n, new)
  BY <1>3, <1>4 DEF Shows, Passed, NextHop, IsProtected, Routable
<1> QED BY <1>5, EntryReported DEF new

\* The report: a healthy entry is what was checked.  An unhealthy one takes the
\* place of a healthy one for good, unless the reconciliation comes back.
LEMMA ReportStatusHonest ==
  ASSUME OwnRoute, HonestyIInv, NEW w \in Workers, NEW x, x = worker[w].name, ReportStatus(w)
  PROVE  HonestStep(w)
<1> DEFINE job == worker[w]
           n == NodeOf(w)
           o == AddToStatus(RemoveFromStatus(job.inst, n), n, job.gw, job.err)
           new == [job EXCEPT !.inst = o]
<1>1. /\ IInv /\ TypeOK /\ RightJob(w)
      /\ job.pc = "report" /\ job.pc \in PCs
      /\ UNCHANGED <<managed, kernel>>
      /\ \/ Applied(w, "status", o, o.deleting) /\ AfterReport(w, new, job.again)
         \/ Failed(w, "status", o, o.deleting) /\ AfterReport(w, new, TRUE)
  BY RightParts DEF HonestyIInv, IInv, ReportStatus, PCs, nodeVars
<1>2. /\ job \in Job /\ x \in Names /\ n \in Nodes
      /\ job.inst \in Object /\ job.gw \in ShownGateways /\ job.err \in Errors
      /\ job.again \in BOOLEAN
  BY <1>1, Busy, WorkerNode
<1>3. /\ o \in Object
      /\ o.spec = job.inst.spec /\ o.deleting = job.inst.deleting
      /\ \A m \in Nodes \ {n} : o.status[m] = job.inst.status[m]
      /\ Healthy(o, n) <=> Joining(w)
      /\ Healthy(o, n) => Shows(n, o)
  <2> DEFINE inst == job.inst
             gw == job.gw
             err == job.err
             made == AddToStatus(RemoveFromStatus(inst, n), n, gw, err)
  <2>1. /\ made \in Object
        /\ made.spec = inst.spec /\ made.deleting = inst.deleting
        /\ \A m \in Nodes \ {n} : made.status[m] = inst.status[m]
        /\ Healthy(made, n) <=> (err = "" /\ gw \in Gateways)
        /\ Passed(n, inst, gw) => Shows(n, made)
    <3>1. n \in Nodes /\ inst \in Object /\ gw \in ShownGateways /\ err \in Errors
      BY <1>2
    <3> HIDE DEF n, inst, gw, err
    <3> QED BY <3>1, EntryRight
  <2>2. Joining(w) <=> (err = "" /\ gw \in Gateways)
    BY <1>1 DEF Joining
  <2> QED BY <1>1, <2>1, <2>2 DEF RightJob
<1> HIDE DEF o
<1>5. o.deleting \in BOOLEAN
  BY <1>3 DEF Object
<1>6. \A y \in Names : objects'[y] = objects[y] \/ RightObject(y, objects'[y])
  BY <1>1, <1>2, <1>3, <1>5, ObjectsRight
<1>7. new \in Job /\ new.name = x /\ new.inst = o /\ new.gw = job.gw
  BY <1>2, <1>3 DEF Job
<1>8. StepOK(w)
  BY <1>1, ReportStatusOK
<1>9. ASSUME NEW again \in BOOLEAN, AfterReport(w, new, again)
      PROVE  /\ RightJob(w)'
             /\ \A v \in Workers \ {w} : queue'[v] = queue[v]
             /\ queue[w] \subseteq queue'[w]
             /\ again => Attends(w, x)'
  <2> HIDE DEF new
  <2> QED BY <1>1, <1>2, <1>3, <1>7, <1>9, AfterReportLeads
<1>10. CASE Applied(w, "status", o, o.deleting) /\ AfterReport(w, new, job.again)
  <2>1. ASSUME Engaged(w), Unprovided(n, x)'
        PROVE  Attends(w, x)'
    <3>1. CASE job.again
      BY <1>2, <1>9, <1>10, <3>1
    <3>2. CASE ~job.again
      <4>1. ~Healthy(o, n)
        BY <1>1, <1>3, <2>1, <3>2 DEF Engaged
      <4>2. objects'[x] = Put(x, "status", o) /\ objects[x] \in Object
        BY <1>1, <1>3, <1>5, <1>10, AppliedEffect
      <4>3. objects'[x].status = o.status
        BY <4>2 DEF Put, WithStatus, Object
      <4>4. ~Healthy(objects'[x], n)
        BY <4>1, <4>3 DEF Healthy
      <4> QED BY <2>1, <4>4 DEF Unprovided, HealthyNodes, Healthy
    <3> QED BY <3>1, <3>2
  <2> QED BY <1>1, <1>2, <1>6, <1>8, <1>9, <1>10, <2>1, CallHonest
<1>11. CASE Failed(w, "status", o, o.deleting) /\ AfterReport(w, new, TRUE)
  BY <1>1, <1>6, <1>8, <1>9, <1>11, CallHonest
<1> QED BY <1>1, <1>10, <1>11

\* The entry is taken out: it was the one that was not provided for.
LEMMA ForgetStatusHonest ==
  ASSUME OwnRoute, HonestyIInv, NEW w \in Workers, NEW x, x = worker[w].name, ForgetStatus(w)
  PROVE  HonestStep(w)
<1> DEFINE job == worker[w]
           n == NodeOf(w)
           o == job.inst
<1>1. /\ IInv /\ TypeOK /\ RightJob(w) /\ OwnJob(w)
      /\ job.pc = "forget" /\ job.pc \in PCs
      /\ UNCHANGED <<managed, kernel>>
  BY RightParts, PerWorker DEF HonestyIInv, IInv, ForgetStatus, PCs, nodeVars
<1>2. job \in Job /\ x \in Names /\ n \in Nodes /\ o \in Object /\ job.again \in BOOLEAN
  BY <1>1, Busy, WorkerNode
<1>3. ~Healthy(o, n)
  BY <1>1 DEF OwnJob
<1>4. PICK keep \in BOOLEAN : Applied(w, "status", o, keep) \/ Failed(w, "status", o, keep)
  BY DEF ForgetStatus
<1>5. \A y \in Names : objects'[y] = objects[y] \/ RightObject(y, objects'[y])
  BY <1>1, <1>2, <1>3, <1>4, ObjectsRight
<1>6. StepOK(w)
  BY <1>1, ForgetStatusOK
<1>7. ASSUME NEW kept \in BOOLEAN, Applied(w, "status", o, kept)
      PROVE  ~Unprovided(n, x)'
  <2>1. objects'[x] = Put(x, "status", o) /\ objects[x] \in Object
    <3> HIDE DEF o
    <3> QED BY <1>1, <1>2, <1>7, AppliedEffect
  <2>2. objects'[x].status = o.status
    BY <2>1 DEF Put, WithStatus, Object
  <2>3. ~Healthy(objects'[x], n)
    BY <1>3, <2>2 DEF Healthy
  <2> QED BY <2>3 DEF Unprovided, HealthyNodes, Healthy
<1>8. CASE /\ Applied(w, "status", o, TRUE)
           /\ Goto(w, [job EXCEPT !.pc = "release"])
           /\ UNCHANGED queue
  <2> DEFINE j == [job EXCEPT !.pc = "release"]
  <2>1. worker'[w] = j
    BY <1>1, <1>8, GotoOthers
  <2>2. j.pc = "release" /\ j.name = x /\ j.inst = o /\ j.gw = job.gw
    BY <1>2 DEF Job
  <2>3. RightJob(w)'
    BY <1>1, <2>1, <2>2, JobMoves DEF Joining
  <2> QED BY <1>1, <1>5, <1>6, <1>7, <1>8, <2>3, CallHonest
<1>9. CASE Applied(w, "status", o, FALSE) /\ Finish(w, job.again)
  BY <1>1, <1>2, <1>5, <1>6, <1>7, <1>9, Finished, JobEnds, CallHonest
<1>10. CASE Finish(w, TRUE)
  BY <1>1, <1>2, <1>5, <1>6, <1>10, Finished, JobEnds, CallHonest
<1> QED BY <1>8, <1>9, <1>10 DEF ForgetStatus

\* The finalizer is removed by a worker that had no more to say of the entries.
LEMMA ReleaseFinalizerHonest ==
  ASSUME OwnRoute, HonestyIInv, NEW w \in Workers, NEW x, x = worker[w].name, ReleaseFinalizer(w)
  PROVE  HonestStep(w)
<1> DEFINE job == worker[w]
           o == [job.inst EXCEPT !.finalizer = FALSE]
<1>1. /\ IInv /\ TypeOK /\ job.pc = "release" /\ job.pc \in PCs
      /\ UNCHANGED <<managed, kernel>>
      /\ Applied(w, "object", o, FALSE) \/ Failed(w, "object", o, FALSE)
      /\ Finish(w, job.again) \/ Finish(w, TRUE)
  BY DEF HonestyIInv, IInv, ReleaseFinalizer, PCs, nodeVars
<1>2. job \in Job /\ x \in Names /\ job.inst \in Object /\ job.again \in BOOLEAN
  BY <1>1, Busy
<1>3. o \in Object /\ o.spec = job.inst.spec
  BY <1>2 DEF Object
<1>4. \A y \in Names : objects'[y] = objects[y] \/ RightObject(y, objects'[y])
  <2> HIDE DEF o
  <2> QED BY <1>1, <1>3, ObjectsRight
<1>5. /\ worker'[w] = Idle
      /\ \A v \in Workers \ {w} : queue'[v] = queue[v]
      /\ queue[w] \subseteq queue'[w]
  BY <1>1, <1>2, Finished
<1>6. ~Engaged(w)
  BY <1>1 DEF Engaged
<1>7. StepOK(w)
  BY <1>1, ReleaseFinalizerOK
<1> QED BY <1>1, <1>4, <1>5, <1>6, <1>7, JobEnds, CallHonest

\* Every step of a worker that has begun.
LEMMA StepsHonest ==
  ASSUME OwnRoute, OwnDestination, HonestyIInv, NEW w \in Workers, Step(w)
  PROVE  HonestStep(w)
<1>1. PICK x : x = worker[w].name
  OBVIOUS
<1> QED BY <1>1, StoreFinalizerHonest, CheckRegisteredHonest, RegisterRouteHonest, RegisterFailsHonest,
           NothingToReportHonest, ReportStatusHonest, DeRegisterRouteHonest, DeRegisterFailsHonest,
           ForgetStatusHonest, ReleaseFinalizerHonest DEF Step

-----------------------------------------------------------------------------
(***************************************************************************)
(* The decisions of reconcileImpl                                          *)
(***************************************************************************)
\* What a reconciliation that begins has in common with the others.
LEMMA BeginHonest ==
  ASSUME HonestyIInv, NEW w \in Workers, worker[w].pc = "idle", NEW x \in Names, StepOK(w),
         UNCHANGED <<objects, managed, kernel>>,
         RightJob(w)',
         \A v \in Workers \ {w} : queue'[v] = queue[v],
         queue[w] \ {x} \subseteq queue'[w],
         Unprovided(NodeOf(w), x) /\ NodeOf(w) \in latest'[x] => Attends(w, x)'
  PROVE  HonestStep(w)
<1> DEFINE n == NodeOf(w)
<1>1. TablesAgree'
  BY DEF HonestyIInv, TablesAgree
<1>2. ASSUME NEW y \in Names, managed[n][y] # None \/ Attends(w, y),
             Unprovided(n, y)', n \in latest'[y]
      PROVE  Attends(w, y)'
  <2>1. managed[n][y] = None /\ Unprovided(n, y)
    BY <1>2 DEF Unprovided, HealthyNodes, Healthy
  <2>2. y \in queue[w]
    BY <1>2, <2>1 DEF Attends, Engaged
  <2>3. CASE y # x
    BY <2>2, <2>3 DEF Attends
  <2>4. CASE y = x
    BY <1>2, <2>1, <2>4
  <2> QED BY <2>3, <2>4
<1> QED BY <1>1, <1>2 DEF HonestStep

\* A request that ends where it began goes back, or nothing was missing.
LEMMA SkipHonest ==
  ASSUME HonestyIInv, NEW w \in Workers, worker[w].pc = "idle", NEW x \in Names, x \in queue[w],
         NEW again \in BOOLEAN, Skip(w, x, again), StepOK(w),
         Unprovided(NodeOf(w), x) /\ NodeOf(w) \in latest[x] => again
  PROVE  HonestStep(w)
<1>1. /\ TypeOK /\ RightJob(w)
      /\ UNCHANGED <<objects, latest, worker, managed, kernel>>
      /\ queue' = IF again THEN queue ELSE [queue EXCEPT ![w] = @ \ {x}]
  BY RightParts DEF HonestyIInv, IInv, Skip, nodeVars
<1>2. RightJob(w)'
  BY <1>1 DEF RightJob, Joining
<1>3. /\ \A v \in Workers \ {w} : queue'[v] = queue[v]
      /\ queue[w] \ {x} \subseteq queue'[w]
      /\ again => Attends(w, x)'
  BY <1>1 DEF TypeOK, Attends
<1> QED BY <1>1, <1>2, <1>3, BeginHonest

\* A job that starts on what the cache has.
LEMMA StartHonest ==
  ASSUME HonestyIInv, NEW w \in Workers, worker[w].pc = "idle", NEW x \in Names,
         NEW job \in Job, Start(w, x, job), StepOK(w),
         cache[NodeOf(w)][x] # None,
         job.name = x, job.inst.spec = cache[NodeOf(w)][x].spec,
         (Joining(w) \/ worker[w].pc = "finalizer")' => Passed(NodeOf(w), job.inst, job.gw),
         Unprovided(NodeOf(w), x) /\ NodeOf(w) \in latest[x] => Engaged(w)'
  PROVE  HonestStep(w)
<1> DEFINE n == NodeOf(w)
<1>1. /\ TypeOK /\ CopiesAsk /\ CacheCurrent
      /\ UNCHANGED <<objects, managed, kernel>>
      /\ queue' = [queue EXCEPT ![w] = @ \ {x}]
      /\ latest' = [latest EXCEPT ![x] = IF n \in @ THEN @ \union {w} ELSE @]
      /\ Goto(w, job)
      /\ n \in Nodes
  BY WorkerNode DEF HonestyIInv, IInv, Start, nodeVars
<1>2. worker'[w] = job
  BY <1>1, GotoOthers
<1>3. AsksFor(x, job.inst)
  BY <1>1, AsksStill DEF CopiesAsk
<1>4. RightJob(w)'
  BY <1>2, <1>3 DEF RightJob
<1>5. /\ \A v \in Workers \ {w} : queue'[v] = queue[v]
      /\ queue[w] \ {x} \subseteq queue'[w]
  BY <1>1 DEF TypeOK
<1>6. n \in latest'[x] => n \in latest[x]
  BY <1>1, ClientAssumption, WorkerNode DEF TypeOK, ApiTypeOK
<1>7. Engaged(w)' => Attends(w, x)'
  BY <1>2 DEF Attends
<1> QED BY <1>1, <1>4, <1>5, <1>6, <1>7, BeginHonest

\* Where the status shows a node provide the route of a current copy, that copy
\* passed the checks, and still does.
LEMMA HealthyPasses ==
  ASSUME HonestyIInv, NEW n \in Nodes, NEW x \in Names, Unprovided(n, x), n \in latest[x],
         NEW o, o = cache[n][x]
  PROVE  /\ o # None /\ AlreadyInStatus(o, n) /\ ~IsProtected(o) /\ Routable(n, o)
         /\ o.status[n].state.gateway \in Gateways
<1>1. o = objects[x] /\ o # None /\ Healthy(o, n) /\ Shows(n, o)
  BY DEF HonestyIInv, IInv, CacheCurrent, ReportsPassed, Unprovided, HealthyNodes
<1> QED BY <1>1 DEF Healthy, Shows, Passed, AlreadyInStatus

\* An early return with an unhealthy report: it stands for a route that was
\* checked before, or the reconciliation comes back.
LEMMA ReportHonest ==
  ASSUME HonestyIInv, NEW w \in Workers, worker[w].pc = "idle", NEW x \in Names, x \in queue[w],
         NEW o \in Object, o = cache[NodeOf(w)][x], StepOK(w),
         NEW gw \in ShownGateways, NEW err \in Errors, NEW again \in BOOLEAN,
         err # "" \/ gw \notin Gateways,
         \/ Start(w, x, NewJob(x, "report", o, gw, err, again))
         \/ Refuse(w, x, o, gw, err, again),
         \/ again
         \/ err = "" /\ gw = ZeroGw /\ Start(w, x, NewJob(x, "report", o, gw, err, again))
         \/ ~(Unprovided(NodeOf(w), x) /\ NodeOf(w) \in latest[x])
  PROVE  HonestStep(w)
<1> DEFINE n == NodeOf(w)
           job == NewJob(x, "report", o, gw, err, again)
<1>1. CASE Skip(w, x, again) /\ ~Start(w, x, job)
  BY <1>1, SkipHonest
<1>2. CASE Start(w, x, job)
  <2>1. TypeOK /\ o # None /\ n \in Nodes
    BY RecordAssumption, WorkerNode DEF HonestyIInv, IInv
  <2>2. job \in Job /\ job.pc = "report" /\ job.name = x /\ job.inst = o /\ job.gw = gw
        /\ job.err = err /\ job.again = again
    <3>1. "report" \in PCs
      BY DEF PCs
    <3> QED BY <3>1, NewJobType DEF NewJob
  <2> HIDE DEF job
  <2>3. worker'[w] = job
    BY <1>2, <2>1, GotoOthers DEF Start
  <2>4. ~Joining(w)' /\ worker'[w].pc # "finalizer"
    BY <2>2, <2>3 DEF Joining
  <2>5. ASSUME Unprovided(n, x), n \in latest[x]
        PROVE  Engaged(w)'
    <3>1. CASE again
      BY <2>2, <2>3, <3>1 DEF Engaged
    <3>2. CASE gw = ZeroGw
      <4>1. o.status[n].state.gateway # gw
        BY <2>1, <2>5, <3>2, HealthyPasses, GatewayAssumption
      <4> QED BY <2>2, <2>3, <2>4, <4>1 DEF Engaged, StatusMatch
    <3> QED BY <2>5, <3>1, <3>2
  <2> QED BY <1>2, <2>1, <2>2, <2>4, <2>5, StartHonest
<1> QED BY <1>1, <1>2 DEF Refuse

\* The route has to go: so does the entry, if there is one.
LEMMA WithdrawHonest ==
  ASSUME HonestyIInv, NEW w \in Workers, worker[w].pc = "idle", NEW x \in Names, x \in queue[w],
         NEW o \in Object, o = cache[NodeOf(w)][x], StepOK(w), Withdraw(w, x, NodeOf(w), o)
  PROVE  HonestStep(w)
<1> DEFINE n == NodeOf(w)
           gw == NextHop(n, o)
           again == IsChanged(o, n, gw)
           job == NewJob(x, "deregister", RemoveFromStatus(o, n), gw, "", again)
<1>1. TypeOK /\ o # None /\ n \in Nodes
  BY RecordAssumption, WorkerNode DEF HonestyIInv, IInv
<1>2. CASE Skip(w, x, FALSE) /\ ~AlreadyInStatus(o, n)
  BY <1>1, <1>2, SkipHonest, HealthyPasses
<1>3. CASE Start(w, x, job)
  <2>1. /\ gw \in ShownGateways /\ again \in BOOLEAN
        /\ RemoveFromStatus(o, n) \in Object /\ RemoveFromStatus(o, n).spec = o.spec
        /\ "deregister" \in PCs /\ "" \in Errors
    <3>1. ZeroGw \in ShownGateways /\ "" \in Errors /\ "deregister" \in PCs
      BY DEF ShownGateways, Errors, PCs
    <3>2. gw \in ShownGateways
      BY <1>1, <3>1, RouteTypes
    <3>3. RemoveFromStatus(o, n) \in Object
      BY <1>1, <3>1, ObjectOps
    <3> QED BY <3>1, <3>2, <3>3 DEF IsChanged, RemoveFromStatus, Object, AlreadyInStatus
  <2>2. /\ job \in Job /\ job.pc = "deregister" /\ job.name = x /\ job.inst.spec = o.spec
    <3> HIDE DEF again, gw
    <3>1. job \in Job
      BY <2>1, NewJobType
    <3> QED BY <2>1, <3>1 DEF NewJob
  <2> HIDE DEF job
  <2>3. worker'[w] = job
    BY <1>1, <1>3, GotoOthers DEF Start
  <2>4. ~Joining(w)' /\ worker'[w].pc # "finalizer" /\ Engaged(w)'
    BY <2>2, <2>3 DEF Joining, Engaged
  <2> QED BY <1>1, <1>3, <2>2, <2>4, StartHonest
<1> QED BY <1>2, <1>3 DEF Withdraw

\* The route is to be provided, through the gateway that was checked.
LEMMA ProvideHonest ==
  ASSUME HonestyIInv, NEW w \in Workers, worker[w].pc = "idle", NEW x \in Names,
         NEW o \in Object, o = cache[NodeOf(w)][x], StepOK(w), Provide(w, x, NodeOf(w), o)
  PROVE  HonestStep(w)
<1> DEFINE n == NodeOf(w)
           gw == NextHop(n, o)
<1>1. TypeOK /\ o # None /\ n \in Nodes
  BY RecordAssumption, WorkerNode DEF HonestyIInv, IInv
<1>2. PICK pc \in {"register", "finalizer"} : Start(w, x, NewJob(x, pc, o, gw, "", FALSE))
  BY DEF Provide
<1>3. Passed(n, o, gw)
  BY DEF Provide, PastProtected, Passed
<1> DEFINE job == NewJob(x, pc, o, gw, "", FALSE)
<1>4. gw \in ShownGateways /\ pc \in PCs /\ "" \in Errors
  <2>1. ZeroGw \in ShownGateways /\ "" \in Errors /\ pc \in PCs
    BY DEF ShownGateways, Errors, PCs
  <2> QED BY <1>1, <2>1, RouteTypes
<1> HIDE DEF gw
<1>5. job \in Job /\ job.pc = pc /\ job.name = x /\ job.inst = o /\ job.gw = gw
  <2>1. job \in Job
    BY <1>4, NewJobType
  <2> QED BY <2>1 DEF NewJob
<1>6. Start(w, x, job)
  BY <1>2
<1> HIDE DEF job
<1>7. worker'[w] = job
  BY <1>1, <1>6, GotoOthers DEF Start
<1>8. Engaged(w)'
  BY <1>5, <1>7 DEF Engaged
<1> QED BY <1>1, <1>3, <1>5, <1>6, <1>8, StartHonest

\* All outcomes.
LEMMA BeginsHonest ==
  ASSUME HonestyIInv, NEW w \in Workers, NEW x \in Names, Begin(w, x)
  PROVE  HonestStep(w)
<1> DEFINE n == NodeOf(w)
           o == cache[n][x]
           Missing == Unprovided(n, x) /\ n \in latest[x]
<1>1. /\ worker[w].pc = "idle" /\ x \in queue[w] /\ StepOK(w)
      /\ TypeOK /\ n \in Nodes
  BY BeginOK, WorkerNode DEF HonestyIInv, IInv, Begin
<1>2. Missing => /\ o # None /\ AlreadyInStatus(o, n) /\ ~IsProtected(o) /\ Routable(n, o)
                 /\ o.status[n].state.gateway \in Gateways
  BY <1>1, HealthyPasses
<1>3. CASE o = None /\ Skip(w, x, FALSE)
  BY <1>1, <1>2, <1>3, SkipHonest
<1>4. CASE Skip(w, x, TRUE)
  BY <1>1, <1>4, SkipHonest
<1>5. ASSUME o # None
      PROVE  o \in Object
  BY <1>1, <1>5 DEF TypeOK
<1>6. /\ ZeroGw \in ShownGateways /\ ZeroGw \notin Gateways
      /\ NilGw \in ShownGateways /\ NilGw \notin Gateways
      /\ {"", "overlap", "nextHop", "list", "get"} \subseteq Errors
  BY GatewayAssumption DEF ShownGateways, Errors
<1> HIDE DEF o, n, Missing
<1>7. CASE o # None /\ WrongSelector(w, x, o)
  <2>1. Start(w, x, NewJob(x, "report", o, ZeroGw, "", FALSE))
    BY <1>7 DEF WrongSelector
  <2> QED BY <1>1, <1>5, <1>6, <1>7, <2>1, ReportHonest DEF o, n
<1>8. CASE o # None /\ NodeListFails(w, x, o)
  <2>1. Start(w, x, NewJob(x, "report", o, ZeroGw, "list", TRUE))
    BY <1>8 DEF NodeListFails
  <2> QED BY <1>1, <1>5, <1>6, <1>8, <2>1, ReportHonest DEF o, n
<1>9. CASE o # None /\ NotSelected(w, x, n, o)
  <2>1. Skip(w, x, FALSE) /\ ~Missing
    BY <1>2, <1>9 DEF NotSelected
  <2> QED BY <1>1, <2>1, SkipHonest DEF n, Missing
<1>10. CASE o # None /\ Overlaps(w, x, n, o)
  <2>1. Refuse(w, x, o, ZeroGw, "overlap", FALSE) /\ ~Missing
    BY <1>2, <1>10 DEF Overlaps
  <2> QED BY <1>1, <1>5, <1>6, <1>10, <2>1, ReportHonest DEF o, n, Missing
<1>11. CASE o # None /\ InvalidGateway(w, x, n, o)
  <2>1. Refuse(w, x, o, NilGw, "", FALSE) /\ ~Missing
    BY <1>1, <1>2, <1>11, GatewayAssumption, NoneAssumption DEF InvalidGateway, Routable
  <2> QED BY <1>1, <1>5, <1>6, <1>11, <2>1, ReportHonest DEF o, n, Missing
<1>12. CASE o # None /\ RouteGetFails(w, x, n, o)
  <2>1. Refuse(w, x, o, NilGw, "get", TRUE)
    BY <1>12 DEF RouteGetFails
  <2> QED BY <1>1, <1>5, <1>6, <1>12, <2>1, ReportHonest DEF o, n
<1>13. CASE o # None /\ NotDirectlyRoutable(w, x, n, o)
  <2>1. /\ Refuse(w, x, o, o.spec.gateway, "nextHop", FALSE) /\ ~Missing
        /\ o.spec.gateway \in ShownGateways
    BY <1>1, <1>2, <1>5, <1>13, GatewayAssumption
       DEF NotDirectlyRoutable, Routable, Object, RouteSpec, ShownGateways
  <2> QED BY <1>1, <1>5, <1>6, <1>13, <2>1, ReportHonest DEF o, n, Missing
<1>14. CASE o # None /\ NoNextHop(w, x, n, o)
  <2>1. Refuse(w, x, o, NilGw, "", TRUE)
    BY <1>14 DEF NoNextHop
  <2> QED BY <1>1, <1>5, <1>6, <1>14, <2>1, ReportHonest DEF o, n
<1>15. CASE o # None /\ Withdraw(w, x, n, o)
  BY <1>1, <1>5, <1>15, WithdrawHonest DEF o, n
<1>16. CASE o # None /\ Provide(w, x, n, o)
  BY <1>1, <1>5, <1>16, ProvideHonest DEF o, n
<1> QED BY <1>3, <1>4, <1>7, <1>8, <1>9, <1>10, <1>11, <1>12, <1>13, <1>14, <1>15, <1>16
        DEF Begin, o, n

-----------------------------------------------------------------------------
(***************************************************************************)
(* Events                                                                  *)
(***************************************************************************)
\* What leaves workers, caches and tables alone, drops nothing from a queue and
\* leaves the objects right keeps HonestyIInv.
LEMMA EventHonest ==
  ASSUME HonestyIInv, IInv',
         UNCHANGED <<cache, worker, managed, kernel>>,
         \A w \in Workers : queue[w] \subseteq queue'[w],
         \A n \in Nodes : Undisturbed(n),
         \A x \in Names : objects'[x] = objects[x] \/ RightObject(x, objects'[x])
  PROVE  HonestyIInv'
<1>1. RightCopies /\ (\A w \in Workers : RightJob(w)) /\ TablesAgree /\ Attended
  BY RightParts DEF HonestyIInv
<1>2. RightCopies' /\ \A w \in Workers : RightJob(w)'
  BY <1>1 DEF RightCopies, RightJob, Joining
<1>3. TablesAgree'
  BY <1>1 DEF TablesAgree
<1>4. ASSUME NEW n \in Nodes, NEW x \in Names, Unprovided(n, x)', n \in latest'[x]
      PROVE  \E w \in Workers : NodeOf(w) = n /\ Attends(w, x)'
  <2>1. n \in latest[x] /\ Unprovided(n, x)
    BY <1>4, UnprovidedStays DEF Undisturbed
  <2>2. PICK w \in Workers : NodeOf(w) = n /\ Attends(w, x)
    BY <1>1, <2>1 DEF Attended
  <2>3. Attends(w, x)'
    BY <2>2 DEF Attends, Engaged, Joining
  <2> QED BY <2>2, <2>3
<1>5. Attended'
  BY <1>4 DEF Attended
<1> QED BY <1>2, <1>3, <1>5, RightPartsNext DEF HonestyIInv

\* The administrator writes no status, and no other route.
LEMMA UserHonest ==
  ASSUME OwnRoute, HonestyIInv, User, IInv'
  PROVE  HonestyIInv'
<1>1. /\ TypeOK /\ CopiesAsk /\ ReportsPassed
      /\ UNCHANGED <<cache, queue, worker, managed, kernel>>
  BY DEF HonestyIInv, IInv, User, UserCreates, UserEdits, UserDeletes, podVars, nodeVars
<1>2. PICK x \in Names : UserStep(x)
  BY <1>1, UserSteps
<1>3. ASSUME NEW y \in Names \ {x}
      PROVE  objects'[y] = objects[y] /\ latest'[y] = latest[y]
  BY <1>1, <1>2 DEF UserStep, TypeOK, ApiTypeOK
<1>4. \A n \in Nodes : Undisturbed(n)
  BY <1>1, <1>2, <1>3 DEF UserStep, Undisturbed, TypeOK, ApiTypeOK
<1>5. RightObject(x, objects[x])
  BY <1>1, StoredRight
<1>6. RightObject(x, None)
  BY DEF RightObject
<1>7. RightObject(x, objects'[x])
  <2>1. ASSUME NEW s \in Specs[x], objects' = [objects EXCEPT ![x] = NewObject(s)]
        PROVE  RightObject(x, objects'[x])
    <3>1. objects'[x].spec = s /\ \A n \in Nodes : objects'[x].status[n] = None
      BY <1>1, <2>1 DEF NewObject, TypeOK, ApiTypeOK
    <3> QED BY <3>1 DEF RightObject, AsksFor, Healthy
  <2>2. ASSUME objects[x] # None, NEW s \in Specs[x], objects' = [objects EXCEPT ![x].spec = s]
        PROVE  RightObject(x, objects'[x])
    <3>1. objects[x] \in Object
      BY <1>1, <2>2 DEF TypeOK, ApiTypeOK
    <3>2. objects'[x].spec = s /\ objects'[x].status = objects[x].status
      BY <1>1, <2>2, <3>1 DEF TypeOK, ApiTypeOK, Object
    <3>3. AsksFor(x, objects'[x])
      BY <3>2 DEF AsksFor
    <3> QED BY <1>5, <2>2, <3>2, <3>3, RightStill
  <2>3. ASSUME objects[x] # None, objects' = [objects EXCEPT ![x] = [objects[x] EXCEPT !.deleting = TRUE]]
        PROVE  RightObject(x, objects'[x])
    <3>1. objects[x] \in Object
      BY <1>1, <2>3 DEF TypeOK, ApiTypeOK
    <3>2. objects'[x].spec = objects[x].spec /\ objects'[x].status = objects[x].status
      BY <1>1, <2>3, <3>1 DEF TypeOK, ApiTypeOK, Object
    <3>3. AsksFor(x, objects'[x])
      BY <1>5, <2>3, <3>2, AsksStill DEF RightObject
    <3> QED BY <1>5, <2>3, <3>2, <3>3, RightStill
  <2>4. ASSUME objects' = [objects EXCEPT ![x] = None]
        PROVE  RightObject(x, objects'[x])
    BY <1>1, <1>6, <2>4 DEF TypeOK, ApiTypeOK
  <2> QED BY <1>2, <2>1, <2>2, <2>3, <2>4 DEF UserStep
<1> QED BY <1>1, <1>3, <1>4, <1>7, EventHonest

\* The news of x reach the cache of n, and x the queue of its route controller.
LEMMA ObserveHonest ==
  ASSUME "route" \in Controllers, HonestyIInv, NEW n \in Nodes, NEW x \in Names, Observe(n, x), IInv'
  PROVE  HonestyIInv'
<1> DEFINE v == <<n, "route">>
<1>1. /\ TypeOK /\ TablesAgree /\ Attended
      /\ RightCopies /\ \A w \in Workers : RightJob(w)
      /\ UNCHANGED <<objects, worker, managed, kernel>>
      /\ cache' = [cache EXCEPT ![n][x] = objects[x]]
      /\ latest' = [latest EXCEPT ![x] = @ \union {n}]
      /\ queue' = [queue EXCEPT ![v] = @ \union {x}]
  BY RightParts DEF HonestyIInv, IInv, Observe, nodeVars
<1>2. v \in Workers /\ NodeOf(v) = n
  BY DEF Workers, NodeOf
<1> HIDE DEF v
<1>3. x \in queue'[v] /\ \A w \in Workers : queue[w] \subseteq queue'[w]
  BY <1>1, <1>2 DEF TypeOK
<1>4. RightCopies' /\ (\A w \in Workers : RightJob(w)')
  <2>1. ASSUME NEW m \in Nodes, NEW y \in Names, cache'[m][y] # None
        PROVE  AsksFor(y, cache'[m][y])
    BY <1>1, <2>1 DEF TypeOK, RightCopies, RightObject
  <2>2. RightCopies'
    BY <1>1, <2>1 DEF RightCopies
  <2>3. \A w \in Workers : RightJob(w)'
    BY <1>1 DEF RightJob, Joining
  <2> QED BY <2>2, <2>3
<1>5. TablesAgree'
  BY <1>1 DEF TablesAgree
<1>6. ASSUME NEW m \in Nodes, NEW y \in Names, Unprovided(m, y)', m \in latest'[y]
      PROVE  \E w \in Workers : NodeOf(w) = m /\ Attends(w, y)'
  <2>1. CASE m = n /\ y = x
    BY <1>2, <1>3, <2>1 DEF Attends
  <2>2. CASE m # n \/ y # x
    <3>1. m \in latest[y]
      BY <1>1, <1>6, <2>2 DEF TypeOK, ApiTypeOK
    <3>2. Unprovided(m, y)
      BY <1>1, <1>6 DEF Unprovided, HealthyNodes
    <3>3. PICK w \in Workers : NodeOf(w) = m /\ Attends(w, y)
      BY <1>1, <3>1, <3>2 DEF Attended
    <3>4. Attends(w, y)'
      BY <1>1, <1>3, <3>3 DEF Attends, Engaged, Joining
    <3> QED BY <3>3, <3>4
  <2> QED BY <2>1, <2>2
<1>7. Attended'
  BY <1>6 DEF Attended
<1> QED BY <1>4, <1>5, <1>7, RightPartsNext DEF HonestyIInv

\* The pod of n dies.  A new one starts with every StaticRoute in a queue; until
\* then nobody on n knows the news.
LEMMA DieHonest ==
  ASSUME HonestyIInv, NEW n \in Nodes, Die(n), IInv',
         \A m \in Nodes \ {n} : cache'[m] = cache[m],
         \A w \in Workers : NodeOf(w) # n => queue'[w] = queue[w],
         \A x \in Names : latest'[x] \subseteq HeldElsewhere(n, x) \union {n},
         \A x \in Names : cache'[n][x] \in {None, objects[x]},
         \A x \in Names : n \in latest'[x] /\ objects[x] # None
           => \E w \in Workers : NodeOf(w) = n /\ x \in queue'[w]
  PROVE  HonestyIInv'
<1>1. /\ TypeOK /\ TablesAgree /\ Attended
      /\ RightCopies /\ \A w \in Workers : RightJob(w)
      /\ UNCHANGED <<objects, kernel>>
      /\ worker' = [w \in Workers |-> IF NodeOf(w) = n THEN Idle ELSE worker[w]]
      /\ managed' = [managed EXCEPT ![n] = [x \in Names |-> None]]
  BY RightParts DEF HonestyIInv, IInv, Die
<1>2. /\ \A x \in Names : managed'[n][x] = None
      /\ \A m \in Nodes \ {n} : managed'[m] = managed[m]
  BY <1>1 DEF TypeOK
<1>3. RightCopies'
  BY <1>1 DEF RightCopies, RightObject
<1>4. ASSUME NEW w \in Workers
      PROVE  RightJob(w)'
  <2>1. CASE NodeOf(w) = n
    BY <1>1, <2>1, JobEnds
  <2>2. CASE NodeOf(w) # n
    BY <1>1, <2>2 DEF RightJob, Joining
  <2> QED BY <2>1, <2>2
<1>5. TablesAgree'
  BY <1>1, <1>2 DEF TablesAgree
<1>6. ASSUME NEW m \in Nodes, NEW x \in Names, Unprovided(m, x)', m \in latest'[x]
      PROVE  \E w \in Workers : NodeOf(w) = m /\ Attends(w, x)'
  <2>1. objects[x] # None
    BY <1>1, <1>6 DEF Unprovided, HealthyNodes
  <2>2. CASE m = n
    <3>1. PICK w \in Workers : NodeOf(w) = n /\ x \in queue'[w]
      BY <1>6, <2>1, <2>2
    <3> QED BY <2>2, <3>1 DEF Attends
  <2>3. CASE m # n
    <3>1. m \in latest[x] /\ Unprovided(m, x)
      BY <1>1, <1>2, <1>6, <2>3 DEF HeldElsewhere, Unprovided, HealthyNodes
    <3>2. PICK w \in Workers : NodeOf(w) = m /\ Attends(w, x)
      BY <1>1, <3>1 DEF Attended
    <3>3. worker'[w] = worker[w] /\ queue'[w] = queue[w]
      BY <1>1, <2>3, <3>2
    <3>4. Attends(w, x)'
      BY <3>2, <3>3 DEF Attends, Engaged, Joining
    <3> QED BY <3>2, <3>4
  <2> QED BY <2>2, <2>3
<1>7. Attended'
  BY <1>6 DEF Attended
<1> QED BY <1>3, <1>4, <1>5, <1>7, RightPartsNext DEF HonestyIInv

\* A new pod.
LEMMA RebootHonest ==
  ASSUME "route" \in Controllers, HonestyIInv, NEW n \in Nodes, Die(n), ListAll(n), IInv'
  PROVE  HonestyIInv'
<1>1. /\ TypeOK /\ UNCHANGED objects
      /\ cache' = [cache EXCEPT ![n] = objects]
      /\ queue' = [w \in Workers |->
                     IF NodeOf(w) # n THEN queue[w]
                     ELSE IF w[2] = "route" THEN {x \in Names : objects[x] # None} ELSE {}]
      /\ latest' = [x \in Names |-> HeldElsewhere(n, x) \union {n}]
  BY DEF HonestyIInv, IInv, Die, ListAll
<1>2. <<n, "route">> \in Workers /\ NodeOf(<<n, "route">>) = n
  BY DEF Workers, NodeOf
<1>3. \A x \in Names : objects[x] # None => x \in queue'[<<n, "route">>]
  BY <1>1, <1>2
<1>4. /\ \A m \in Nodes \ {n} : cache'[m] = cache[m]
      /\ \A x \in Names : cache'[n][x] = objects[x]
  BY <1>1 DEF TypeOK
<1> QED BY <1>1, <1>2, <1>3, <1>4, DieHonest

-----------------------------------------------------------------------------
(***************************************************************************)
(* The theorems                                                            *)
(***************************************************************************)
\* HonestyIInv is inductive.
LEMMA HonestyNext ==
  ASSUME OwnRoutes, HonestyIInv, [Next]_vars
  PROVE  HonestyIInv'
<1>1. IInv' /\ TypeOK'
  BY NextOK DEF HonestyIInv, IInv
<1>2. ASSUME NEW w \in Workers, Step(w) \/ \E x \in Names : Begin(w, x)
      PROVE  HonestyIInv'
  BY <1>1, <1>2, StepsHonest, BeginsHonest, HonestStepOK DEF OwnRoutes
<1>3. ASSUME NEW n \in Nodes, NEW x \in Names, Observe(n, x)
      PROVE  HonestyIInv'
  BY <1>1, <1>3, ObserveHonest DEF OwnRoutes
<1>4. ASSUME UNCHANGED <<objects, latest, cache, worker, managed, kernel>>,
             \A w \in Workers : queue[w] \subseteq queue'[w]
      PROVE  HonestyIInv'
  BY <1>1, <1>4, EventHonest DEF Undisturbed
<1>5. ASSUME NEW n \in Nodes, NEW m \in Nodes, ObserveNode(n, m)
      PROVE  HonestyIInv'
  <2>1. \A w \in Workers : queue[w] \subseteq queue'[w]
    BY <1>5 DEF ObserveNode, HonestyIInv, IInv, TypeOK
  <2> QED BY <1>4, <1>5, <2>1 DEF ObserveNode, apiVars, nodeVars
<1>6. ASSUME NEW w \in Workers, NEW x \in Names, Resync(w, x)
      PROVE  HonestyIInv'
  <2>1. \A v \in Workers : queue[v] \subseteq queue'[v]
    BY <1>6 DEF Resync, HonestyIInv, IInv, TypeOK
  <2> QED BY <1>4, <1>6, <2>1 DEF Resync, apiVars, nodeVars
<1>7. ASSUME NEW n \in Nodes, Relabel(n)
      PROVE  HonestyIInv'
  BY <1>4, <1>7 DEF Relabel, apiVars, podVars, nodeVars
<1>8. ASSUME NEW n \in Nodes, Restart(n)
      PROVE  HonestyIInv'
  BY <1>1, <1>8, RebootHonest DEF OwnRoutes, Restart
<1>9. CASE User
  BY <1>1, <1>9, UserHonest DEF OwnRoutes
<1>10. CASE UNCHANGED vars
  BY <1>4, <1>10 DEF vars
<1> QED BY <1>2, <1>3, <1>5, <1>6, <1>7, <1>8, <1>9, <1>10 DEF Next, Watch, Disturbance

\* There is nothing at first.
LEMMA HonestyInit == Init => HonestyIInv
<1> SUFFICES ASSUME Init PROVE HonestyIInv
  OBVIOUS
<1>1. /\ \A x \in Names : objects[x] = None
      /\ \A n \in Nodes : \A x \in Names : cache[n][x] = None /\ managed[n][x] = None
      /\ \A n \in Nodes : kernel[n] = {}
      /\ \A w \in Workers : worker[w] = Idle
  BY DEF Init, ApiInit
<1>2. \A w \in Workers : worker[w].pc = "idle" /\ worker[w].name = None
  <2>1. Idle.pc = "idle" /\ Idle.name = None
    BY DEF Idle
  <2> QED BY <1>1, <2>1
<1>3. CopiesAsk
  BY <1>1, <1>2, NoneAssumption DEF CopiesAsk
<1>4. ReportsPassed /\ TablesAgree /\ Attended
  BY <1>1, <1>2 DEF ReportsPassed, Joining, HealthyNodes, TablesAgree, Attended, Unprovided
<1> QED BY <1>3, <1>4, InitOK DEF HonestyIInv

\* Where all of it is attended to, nothing is missing at rest.
LEMMA HonestAtRest ==
  ASSUME OwnRoute, HonestyIInv
  PROVE  HonestStatus
<1> SUFFICES ASSUME NEW n \in Nodes, NEW x \in Names, AtRest(n, x), n \in HealthyNodes(x),
                    objects[x].status[n].state.subnet \notin Unparsable
             PROVE  LET state == objects[x].status[n].state
                        route == RouteOf([spec |-> state], state.gateway) IN
                    managed[n][x] = route /\ route \in kernel[n]
  BY DEF HonestStatus
<1> DEFINE o == objects[x]
           state == o.status[n].state
<1>1. Shows(n, o) /\ AsksFor(x, o)
  BY DEF HonestyIInv, ReportsPassed, CopiesAsk, HealthyNodes
<1>2. managed[n][x] # None
  <2>1. ~\E w \in Workers : NodeOf(w) = n /\ Attends(w, x)
    BY DEF AtRest, Attends
  <2>2. o.spec.subnet \notin Unparsable
    BY <1>1 DEF Shows
  <2> QED BY <2>1, <2>2 DEF HonestyIInv, Attended, Unprovided, AtRest
<1>3. PICK s \in Specs[x] : managed[n][x] = Asked(n, s) /\ managed[n][x] \in kernel[n]
  BY <1>2 DEF HonestyIInv, TablesAgree
<1>4. s.subnet = o.spec.subnet /\ s.gateway = o.spec.gateway /\ s.table = o.spec.table
  BY <1>1 DEF AsksFor, OwnRoute
<1> HIDE DEF o, state
<1>5. state.subnet = o.spec.subnet /\ state.table = o.spec.table /\ state.gateway = NextHop(n, o)
  BY <1>1 DEF Shows, Passed, state
<1>6. Asked(n, s) = RouteOf([spec |-> state], state.gateway)
  BY <1>4, <1>5 DEF Asked, RouteOf, NextHop
<1> QED BY <1>3, <1>6 DEF o, state

\* The inductive invariant, where every StaticRoute keeps one route of its own.
THEOREM HonestyInductive ==
  ASSUME OwnRoutes
  PROVE  Spec => []HonestyIInv
<1>1. HonestyIInv /\ [Next]_vars => HonestyIInv'
  BY HonestyNext
<1> QED BY <1>1, HonestyInit, PTL DEF Spec

\* A node at rest whose entry is healthy has the route the entry shows, managed
\* and in its kernel: for any number of nodes and StaticRoutes, with edits of
\* the selectors, deletions, label changes, failures and restarts at any time.
THEOREM StatusHonest ==
  ASSUME OwnRoutes
  PROVE  Spec => []HonestStatus
<1>1. HonestyIInv => HonestStatus
  BY HonestAtRest DEF OwnRoutes
<1> QED BY <1>1, HonestyInductive, PTL

-----------------------------------------------------------------------------
(***************************************************************************)
(* The cluster                                                             *)
(***************************************************************************)
\* A node controller at work takes an entry out of an object, no more.
LEMMA CleanEntryHonest ==
  ASSUME OwnRoute, HonestyIInv, NEW n \in Nodes, NEW x \in Names, CleanerStep(n, x), IInv'
  PROVE  HonestyIInv'
<1>1. /\ TypeOK /\ CopiesAsk /\ ReportsPassed
      /\ UNCHANGED <<cache, queue, worker, managed, kernel>>
  BY DEF HonestyIInv, IInv, CleanerStep
<1>2. \A k \in Nodes : Undisturbed(k)
  BY CleanerClient DEF CleanerStep, Clients
<1>3. ASSUME NEW y \in Names
      PROVE  objects'[y] = objects[y] \/ RightObject(y, objects'[y])
  <2> DEFINE m == cleaning[n].node
             o == [objects[x] EXCEPT !.status[m] = None]
  <2>1. CASE objects'[y] = objects[y]
    BY <2>1
  <2>2. CASE objects[x] \in Object /\ objects' = [objects EXCEPT ![x] = o] /\ y = x
    <3>1. /\ objects'[x] = o
          /\ o.spec = objects[x].spec
          /\ \A k \in Nodes : o.status[k] \in {None, objects[x].status[k]}
      <4>1. objects'[x] = o
        BY <1>1, <2>2 DEF TypeOK, ApiTypeOK
      <4>2. o.spec = objects[x].spec /\ \A k \in Nodes : o.status[k] \in {None, objects[x].status[k]}
        BY <2>2 DEF Object, Status
      <4> QED BY <4>1, <4>2
    <3> HIDE DEF o
    <3>2. objects[x] # None /\ RightObject(x, objects[x])
      BY <1>1, <2>2, RecordAssumption, StoredRight
    <3>3. AsksFor(x, o)
      BY <3>1, <3>2, AsksStill DEF RightObject
    <3>4. RightObject(x, o)
      BY <3>1, <3>2, <3>3, RightStill DEF Healthy
    <3> QED BY <2>2, <3>1, <3>4
  <2> QED BY <1>1, <2>1, <2>2 DEF CleanerStep, TypeOK, ApiTypeOK
<1> QED BY <1>1, <1>2, <1>3, EventHonest

\* A pod that stops knows no news any more, one that starts has all in a queue.
LEMMA PodsHonest ==
  ASSUME "route" \in Controllers, HonestyIInv, NEW n \in Nodes, PodStops(n) \/ PodStarts(n), IInv'
  PROVE  HonestyIInv'
<1>1. CASE PodStops(n)
  <2>1. /\ TypeOK /\ Die(n)
        /\ cache' = [cache EXCEPT ![n] = [x \in Names |-> None]]
        /\ queue' = [w \in Workers |-> IF NodeOf(w) = n THEN {} ELSE queue[w]]
        /\ latest' = [x \in Names |-> HeldElsewhere(n, x)]
    BY <1>1 DEF HonestyIInv, IInv, PodStops
  <2>2. /\ \A m \in Nodes \ {n} : cache'[m] = cache[m]
        /\ \A x \in Names : cache'[n][x] = None
    BY <2>1 DEF TypeOK
  <2>3. \A x \in Names : n \notin latest'[x]
    BY <2>1 DEF HeldElsewhere
  <2> QED BY <2>1, <2>2, <2>3, DieHonest
<1>2. CASE PodStarts(n)
  BY <1>2, RebootHonest DEF PodStarts
<1> QED BY <1>1, <1>2

\* HonestyIInv is inductive in the cluster as well.
LEMMA ClusterHonestyNext ==
  ASSUME OwnRoutes, ClusterIInv, HonestyIInv, [ClusterNext]_allVars
  PROVE  HonestyIInv'
<1>1. IInv' /\ ClusterTypeOK
  BY ClusterNextOK DEF ClusterIInv
<1>2. CASE [Next]_vars
  BY <1>2, HonestyNext
<1>3. ASSUME NEW n \in Nodes, NEW m \in Nodes, CleanBegins(n, m)
      PROVE  HonestyIInv'
  <2>1. /\ UNCHANGED <<objects, cache, queue, worker, managed, kernel>>
        /\ latest' = [x \in Names |->
                        (latest[x] \ {Cleaner(n)})
                          \union {c \in {Cleaner(n)} : n \in latest[x] /\ Listed(n, m)[x] # None}]
    BY <1>3 DEF CleanBegins, podVars, nodeVars
  <2>2. \A k \in Nodes : Undisturbed(k)
    BY <2>1, CleanerClient DEF Undisturbed
  <2> QED BY <1>1, <2>1, <2>2, EventHonest
<1>4. ASSUME NEW n \in Nodes, NEW x \in Names, CleanEntry(n, x)
      PROVE  HonestyIInv'
  BY <1>1, <1>4, CleanEntryOK, CleanEntryHonest DEF OwnRoutes
<1>5. ASSUME NEW n \in Nodes, NodeLeaves(n) \/ NodeReturns(n)
      PROVE  HonestyIInv'
  <2>1. UNCHANGED <<objects, latest, cache, queue, worker, managed, kernel>>
    BY <1>5 DEF NodeLeaves, NodeReturns, apiVars, podVars, nodeVars
  <2> QED BY <1>1, <2>1, EventHonest DEF Undisturbed
<1>6. ASSUME NEW n \in Nodes, PodStops(n) \/ PodStarts(n)
      PROVE  HonestyIInv'
  BY <1>1, <1>6, PodsHonest DEF OwnRoutes
<1> QED BY <1>1, <1>2, <1>3, <1>4, <1>5, <1>6, ClusterCases

\* Node controllers at work, and Nodes and pods that come and go, leave the
\* status as honest as it was.
THEOREM ClusterHonest ==
  ASSUME OwnRoutes
  PROVE  ClusterSpec => []HonestStatus
<1>1. ClusterInit => HonestyIInv
  BY HonestyInit DEF ClusterInit
<1>2. ClusterIInv /\ HonestyIInv /\ [ClusterNext]_allVars => HonestyIInv'
  BY ClusterHonestyNext
<1>3. HonestyIInv => HonestStatus
  BY HonestAtRest DEF OwnRoutes
<1> QED BY <1>1, <1>2, <1>3, ClusterInductive, PTL DEF ClusterSpec

=============================================================================
