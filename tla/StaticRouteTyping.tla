------------------------- MODULE StaticRouteTyping -------------------------
(***************************************************************************)
(* Proof that the variables of StaticRouteController keep their types, and *)
(* the kernels to routes that were admitted, for any number of nodes and   *)
(* StaticRoutes, any specs and any budgets.                                *)
(***************************************************************************)
EXTENDS StaticRouteProperties, TLAPS

-----------------------------------------------------------------------------
(***************************************************************************)
(* The helpers keep objects objects                                        *)
(***************************************************************************)
\* Encoding keeps a spec or a state what it is, and doing it once is enough.
LEMMA EncodedType ==
  ASSUME NEW G, NEW s \in [subnet : Subnets, gateway : G, table : Tables \union {None}, selectors : Selectors]
  PROVE  /\ Encoded(s) \in [subnet : Subnets, gateway : G, table : Tables \union {None}, selectors : Selectors]
         /\ Encoded(s).gateway = s.gateway
         /\ Encoded(Encoded(s)) = Encoded(s)
<1> DEFINE e == [s EXCEPT !.selectors = None]
<1>1. None \in Selectors
  BY DEF Selectors
<1>2. /\ e \in [subnet : Subnets, gateway : G, table : Tables \union {None}, selectors : Selectors]
      /\ e.gateway = s.gateway
      /\ e.selectors = None
  BY <1>1
<1> DEFINE S == [subnet : Subnets, gateway : G, table : Tables \union {None}, selectors : Selectors]
<1>5. ASSUME NEW t \in S, t.selectors = None PROVE [t EXCEPT !.selectors = None] = t
  BY <1>1, <1>5
<1>3. CASE s.selectors = EmptyList
  <2>1. Encoded(s) = e
    BY <1>3 DEF Encoded
  <2>2. Encoded(e) = e
    BY <1>2, <1>5 DEF Encoded
  <2> QED BY <1>2, <2>1, <2>2
<1>4. CASE s.selectors # EmptyList
  <2>1. Encoded(s) = s
    BY <1>4 DEF Encoded
  <2> QED BY <2>1
<1> QED BY <1>3, <1>4

\* The same of the spec of an object.
LEMMA EncodedSpec ==
  ASSUME NEW s \in RouteSpec
  PROVE  Encoded(s) \in RouteSpec /\ Encoded(Encoded(s)) = Encoded(s)
BY EncodedType DEF RouteSpec

\* The entry addToStatus appends, with the gateway in use.
LEMMA EntryType ==
  ASSUME NEW o \in Object, NEW gw \in ShownGateways, NEW err \in Errors
  PROVE  LET e == [state |-> Encoded(ShownState(o, gw)), error |-> err] IN
         e \in Entry /\ e.error = err /\ e.state.gateway = gw
<1>1. /\ ShownState(o, gw) \in [subnet : Subnets, gateway : ShownGateways,
                                table : Tables \union {None}, selectors : Selectors]
      /\ ShownState(o, gw).gateway = gw
  BY DEF ShownState, Object, RouteSpec
<1>2. /\ Encoded(ShownState(o, gw)) \in [subnet : Subnets, gateway : ShownGateways,
                                         table : Tables \union {None}, selectors : Selectors]
      /\ Encoded(ShownState(o, gw)).gateway = gw
  BY <1>1, EncodedType
<1> QED BY <1>2 DEF Entry

\* routeWrapper's setters return a StaticRoute.
LEMMA ObjectOps ==
  ASSUME NEW o \in Object, NEW n \in Nodes, NEW gw \in ShownGateways, NEW err \in Errors
  PROVE  /\ SetFinalizer(o) \in Object
         /\ RemoveFromStatus(o, n) \in Object
         /\ AddToStatus(o, n, gw, err) \in Object
<1>1. SetFinalizer(o) \in Object
  BY DEF SetFinalizer, Object
<1>2. RemoveFromStatus(o, n) \in Object
  BY DEF RemoveFromStatus, Object, Status
<1>3. AddToStatus(o, n, gw, err) \in Object
  BY EntryType DEF AddToStatus, Object, Status
<1> QED BY <1>1, <1>2, <1>3

\* What an update stores is a StaticRoute, or nothing.
LEMMA PutType ==
  ASSUME NEW x \in Names, objects[x] \in Object, NEW o \in Object, NEW part
  PROVE  Put(x, part, o) \in Object \union {None}
<1>1. WithStatus(x, o) \in Object
  BY DEF WithStatus, Object
<1>2. WithMeta(x, o) \in Object \union {None}
  BY EncodedSpec DEF WithMeta, Object
<1> QED BY <1>1, <1>2 DEF Put

\* The gateway in use and the route made from it are well formed.
LEMMA RouteTypes ==
  ASSUME NEW o \in Object, NEW n \in Nodes, NEW gw \in ShownGateways
  PROVE  /\ NextHop(n, o) \in ShownGateways
         /\ RouteOf(o, gw) \in Route
<1>1. NextHop(n, o) \in ShownGateways
  BY ControllerAssumption DEF NextHop, Object, RouteSpec, ShownGateways
<1>2. RouteOf(o, gw) \in Route
  BY NoneAssumption DEF RouteOf, Route, Object, RouteSpec
<1> QED BY <1>1, <1>2

-----------------------------------------------------------------------------
(***************************************************************************)
(* Type correctness                                                        *)
(***************************************************************************)
\* A worker that is not idle holds a job.
LEMMA Busy ==
  ASSUME TypeOK, NEW w \in Workers, worker[w].pc \in PCs
  PROVE  /\ worker[w] \in Job
         /\ worker[w].name \in Names
         /\ worker[w].inst \in Object
         /\ worker[w].gw \in ShownGateways
         /\ worker[w].err \in Errors
         /\ worker[w].again \in BOOLEAN
<1>1. worker[w] \in Job \union {Idle} /\ Idle.pc = "idle" /\ "idle" \notin PCs
  BY DEF TypeOK, Idle, PCs
<1>2. worker[w] \in Job
  BY <1>1
<1> QED BY <1>2 DEF Job

\* Counting an event keeps the counters natural numbers.
LEMMA SpendType ==
  ASSUME TypeOK, NEW k \in Budgets, Spend(k)
  PROVE  spent' \in [Budgets -> Nat]
BY DEF TypeOK, Spend

\* A worker belongs to a node and is a client of the API server.
LEMMA WorkerNode ==
  ASSUME NEW w \in Workers
  PROVE  NodeOf(w) \in Nodes /\ w \in Readers /\ w \in Clients
BY ControllerAssumption DEF Workers, NodeOf, Clients, Readers

\* The control operators keep the variables they assign well typed.
LEMMA FinishType ==
  ASSUME TypeOK, NEW w \in Workers, worker[w].name \in Names, NEW again \in BOOLEAN, Finish(w, again)
  PROVE  /\ worker' \in [Workers -> Job \union {Idle}]
         /\ queue' \in [Workers -> SUBSET Names]
BY DEF TypeOK, Finish, Goto, Requeue

\* A write to the API server keeps its state well typed.
LEMMA StoreType ==
  ASSUME TypeOK, NEW x \in Names, NEW o \in Object \union {None}, NEW c \in Clients,
         NEW keep \in BOOLEAN, Store(x, o, c, keep)
  PROVE  ApiTypeOK(Clients)'
BY DEF TypeOK, ApiTypeOK, Store

\* So does a call, whether it is applied or fails.
LEMMA WriteType ==
  ASSUME TypeOK, NEW w \in Workers, worker[w].pc \in PCs, NEW part, NEW o \in Object,
         NEW keep \in BOOLEAN,
         Applied(w, part, o, keep) \/ Failed(w, part, o, keep)
  PROVE  ApiTypeOK(Clients)' /\ spent' \in [Budgets -> Nat]
<1> DEFINE x == worker[w].name
           stored == Put(x, part, o)
<1>1. x \in Names /\ w \in Clients
  BY Busy, WorkerNode
<1>2. objects[x] # None => objects[x] \in Object
  BY <1>1 DEF TypeOK, ApiTypeOK
<1>3. Acceptable(w, o) => stored \in Object \union {None}
  BY <1>1, <1>2, PutType DEF Acceptable, Accepts
<1>4. ASSUME NEW kept \in BOOLEAN, Acceptable(w, o), Store(x, stored, w, kept)
      PROVE  ApiTypeOK(Clients)'
  BY <1>1, <1>3, <1>4, StoreType
<1>5. ASSUME Unapplied(w, keep)
      PROVE  ApiTypeOK(Clients)'
  BY <1>1, <1>5 DEF Unapplied, Drop, TypeOK, ApiTypeOK
<1>6. spent' \in [Budgets -> Nat]
  BY SpendType DEF Applied, Failed, TypeOK, Budgets
<1>7. CASE Applied(w, part, o, keep)
  BY <1>4, <1>6, <1>7 DEF Applied
<1>8. CASE Failed(w, part, o, keep)
  BY <1>4, <1>5, <1>6, <1>8 DEF Failed
<1> QED BY <1>7, <1>8

\* A reconciliation that ends where it began keeps all types.
LEMMA SkipType ==
  ASSUME TypeOK, NEW w \in Workers, NEW x \in Names, NEW again \in BOOLEAN,
         Skip(w, x, again), spent' \in [Budgets -> Nat]
  PROVE  TypeOK'
BY DEF TypeOK, ApiTypeOK, Skip, nodeVars, labelVars

\* So does one that goes on with a well-typed job.
LEMMA StartType ==
  ASSUME TypeOK, NEW w \in Workers, NEW x \in Names, NEW job \in Job,
         Start(w, x, job), spent' \in [Budgets -> Nat]
  PROVE  TypeOK'
<1>1. ApiTypeOK(Clients)'
  BY WorkerNode DEF TypeOK, ApiTypeOK, Start
<1>2. worker' \in [Workers -> Job \union {Idle}] /\ queue' \in [Workers -> SUBSET Names]
  BY DEF TypeOK, Start, Goto
<1> QED BY <1>1, <1>2 DEF TypeOK, Start, nodeVars, labelVars

\* The jobs reconcileImpl starts are well typed.
LEMMA NewJobType ==
  ASSUME NEW x \in Names, NEW pc \in PCs, NEW o \in Object, NEW gw \in ShownGateways,
         NEW err \in Errors, NEW again \in BOOLEAN
  PROVE  NewJob(x, pc, o, gw, err, again) \in Job
BY DEF NewJob, Job

\* An early return keeps all types.
LEMMA RefuseType ==
  ASSUME TypeOK, NEW w \in Workers, NEW x \in Names, NEW o \in Object, NEW gw \in ShownGateways,
         NEW err \in Errors, NEW again \in BOOLEAN,
         Refuse(w, x, o, gw, err, again), spent' \in [Budgets -> Nat]
  PROVE  TypeOK'
<1>1. NewJob(x, "report", o, gw, err, again) \in Job
  BY NewJobType DEF PCs
<1> QED BY <1>1, SkipType, StartType DEF Refuse

\* Every outcome of reconcileImpl up to its first call keeps all types.
LEMMA BeginType ==
  ASSUME TypeOK, NEW w \in Workers, NEW x \in Names, Begin(w, x)
  PROVE  TypeOK'
<1> DEFINE n == NodeOf(w)
           o == cache[n][x]
<1>1. n \in Nodes /\ (o # None => o \in Object)
  BY WorkerNode DEF TypeOK
<1>2. "faults" \in Budgets /\ spent \in [Budgets -> Nat]
  BY DEF Budgets, TypeOK
<1>3. /\ ZeroGw \in ShownGateways
      /\ NilGw \in ShownGateways
      /\ {"", "overlap", "nextHop", "list", "get"} \subseteq Errors
      /\ {"report", "deregister", "register", "finalizer"} \subseteq PCs
  BY DEF ShownGateways, Errors, PCs
<1>4. CASE o = None /\ Skip(w, x, FALSE) /\ UNCHANGED spent
  BY <1>2, <1>4, SkipType
<1>5. CASE Spend("faults") /\ Skip(w, x, TRUE)
  BY <1>2, <1>5, SpendType, SkipType
<1>6. ASSUME o # None, WrongSelector(w, x, o) PROVE TypeOK'
  BY <1>1, <1>2, <1>3, <1>6, NewJobType, StartType DEF WrongSelector
<1>7. ASSUME o # None, NodeListFails(w, x, o) PROVE TypeOK'
  BY <1>1, <1>2, <1>3, <1>7, NewJobType, SpendType, StartType DEF NodeListFails
<1>8. ASSUME o # None, NotSelected(w, x, n, o) PROVE TypeOK'
  BY <1>2, <1>8, SkipType DEF NotSelected
<1>9. ASSUME o # None, Overlaps(w, x, n, o) PROVE TypeOK'
  BY <1>1, <1>2, <1>3, <1>9, RefuseType DEF Overlaps
<1>10. ASSUME o # None, InvalidGateway(w, x, n, o) PROVE TypeOK'
  BY <1>1, <1>2, <1>3, <1>10, RefuseType DEF InvalidGateway
<1>11. ASSUME o # None, RouteGetFails(w, x, n, o) PROVE TypeOK'
  BY <1>1, <1>2, <1>3, <1>11, SpendType, RefuseType DEF RouteGetFails
<1>12. ASSUME o # None, NotDirectlyRoutable(w, x, n, o) PROVE TypeOK'
  <2>1. o.spec.gateway \in ShownGateways
    BY <1>1, <1>12 DEF NotDirectlyRoutable, Object, RouteSpec, ShownGateways
  <2> QED BY <1>1, <1>2, <1>3, <1>12, <2>1, RefuseType DEF NotDirectlyRoutable
<1>13. ASSUME o # None, NoNextHop(w, x, n, o) PROVE TypeOK'
  BY <1>1, <1>2, <1>3, <1>13, RefuseType DEF NoNextHop
<1>14. ASSUME o # None, Withdraw(w, x, n, o) PROVE TypeOK'
  <2> DEFINE again == IsChanged(o, n, NextHop(n, o))
             job == NewJob(x, "deregister", RemoveFromStatus(o, n), NextHop(n, o), "", again)
  <2>1. RemoveFromStatus(o, n) \in Object
    BY <1>1, <1>3, <1>14, ObjectOps
  <2>2. again \in BOOLEAN
    BY DEF IsChanged
  <2>3. job \in Job
    BY <1>1, <1>3, <1>14, <2>1, <2>2, RouteTypes, NewJobType
  <2>4. CASE Start(w, x, job)
    BY <1>2, <1>14, <2>3, <2>4, StartType DEF Withdraw
  <2>5. CASE Skip(w, x, FALSE)
    BY <1>2, <1>14, <2>5, SkipType DEF Withdraw
  <2> QED BY <1>14, <2>4, <2>5 DEF Withdraw
<1>15. ASSUME o # None, Provide(w, x, n, o) PROVE TypeOK'
  <2> DEFINE pc == IF o.finalizer THEN "register" ELSE "finalizer"
             job == NewJob(x, pc, o, NextHop(n, o), "", FALSE)
  <2>1. job \in Job
    BY <1>1, <1>3, <1>15, RouteTypes, NewJobType
  <2> QED BY <1>2, <1>15, <2>1, StartType DEF Provide
<1> QED
  BY <1>4, <1>5, <1>6, <1>7, <1>8, <1>9, <1>10, <1>11, <1>12, <1>13, <1>14, <1>15 DEF Begin

\* Any next job of a busy worker that differs in these fields only.
LEMMA JobUpdate ==
  ASSUME NEW job \in Job, NEW pc \in PCs, NEW o \in Object, NEW err \in Errors, NEW again \in BOOLEAN
  PROVE  /\ [job EXCEPT !.pc = pc] \in Job
         /\ [job EXCEPT !.inst = o] \in Job
         /\ [job EXCEPT !.pc = pc, !.inst = o] \in Job
         /\ [job EXCEPT !.pc = pc, !.again = again] \in Job
         /\ [job EXCEPT !.pc = pc, !.err = err, !.again = again] \in Job
         /\ [job EXCEPT !.pc = pc, !.inst = o, !.err = err, !.again = again] \in Job
BY DEF Job

\* A worker that moves on to another job stays well typed.
LEMMA GotoType ==
  ASSUME TypeOK, NEW w \in Workers, NEW job \in Job, Goto(w, job)
  PROVE  worker' \in [Workers -> Job \union {Idle}]
BY DEF TypeOK, Goto

\* The deferred function leaves a well-typed worker and queue.
LEMMA AfterReportType ==
  ASSUME TypeOK, NEW w \in Workers, NEW job \in Job, worker[w].pc \in PCs,
         NEW again \in BOOLEAN, AfterReport(w, job, again)
  PROVE  /\ worker' \in [Workers -> Job \union {Idle}]
         /\ queue' \in [Workers -> SUBSET Names]
<1>1. CASE job.inst.deleting
  <2>1. [job EXCEPT !.pc = "deregister", !.again = FALSE] \in Job
    BY DEF PCs, Job
  <2> QED BY <1>1, <2>1, GotoType DEF AfterReport, TypeOK
<1>2. CASE ~job.inst.deleting
  BY <1>2, Busy, FinishType DEF AfterReport
<1> QED BY <1>1, <1>2

\* The entry a worker reports makes a StaticRoute of its copy.
LEMMA ReportedType ==
  ASSUME TypeOK, NEW w \in Workers, worker[w].pc \in PCs
  PROVE  AddToStatus(RemoveFromStatus(worker[w].inst, NodeOf(w)), NodeOf(w), worker[w].gw, worker[w].err)
           \in Object
<1>1. RemoveFromStatus(worker[w].inst, NodeOf(w)) \in Object
  BY Busy, WorkerNode, ObjectOps
<1> QED BY <1>1, Busy, WorkerNode, ObjectOps

\* Every later step of a reconciliation keeps all types.
LEMMA StepType ==
  ASSUME TypeOK, NEW w \in Workers, Step(w)
  PROVE  TypeOK'
<1> DEFINE job == worker[w]
           n == NodeOf(w)
<1>0. job.pc \in PCs
  BY DEF Step, PCs, StoreFinalizer, CheckRegistered, RegisterRoute, RegisterFails, NothingToReport,
         ReportStatus, DeRegisterRoute, DeRegisterFails, ForgetStatus, ReleaseFinalizer
<1>1. /\ job \in Job /\ job.name \in Names /\ job.inst \in Object
      /\ job.gw \in ShownGateways /\ job.err \in Errors /\ job.again \in BOOLEAN
      /\ n \in Nodes
  BY <1>0, Busy, WorkerNode
<1>2. /\ {"update", "register"} \subseteq Errors
      /\ {"register", "add", "report", "deregister", "forget", "release"} \subseteq PCs
      /\ "faults" \in Budgets
  BY DEF Errors, PCs, Budgets
<1>3. CASE StoreFinalizer(w)
  <2> DEFINE o == SetFinalizer(job.inst)
  <2>1. o \in Object
    BY <1>1 DEF SetFinalizer, Object
  <2>2. ApiTypeOK(Clients)' /\ spent' \in [Budgets -> Nat]
    BY <1>0, <1>3, <2>1, WriteType DEF StoreFinalizer
  <2>3. worker' \in [Workers -> Job \union {Idle}]
    <3>1. [job EXCEPT !.pc = "register", !.inst = o] \in Job
      BY <1>1, <1>2, <2>1, JobUpdate
    <3>2. [job EXCEPT !.pc = "report", !.inst = o, !.err = "update", !.again = TRUE] \in Job
      BY <1>1, <1>2, <2>1, JobUpdate
    <3> QED BY <1>3, <3>1, <3>2, GotoType DEF StoreFinalizer
  <2> QED BY <1>3, <2>2, <2>3 DEF StoreFinalizer, TypeOK, nodeVars, labelVars
<1>4. CASE CheckRegistered(w)
  <2>1. worker' \in [Workers -> Job \union {Idle}]
    <3>1. [job EXCEPT !.pc = "add"] \in Job /\ [job EXCEPT !.pc = "report"] \in Job
      BY <1>1, <1>2, JobUpdate
    <3> QED BY <1>4, <3>1, GotoType DEF CheckRegistered
  <2> QED BY <1>4, <2>1 DEF CheckRegistered, TypeOK, ApiTypeOK, apiVars, nodeVars, labelVars
<1>5. CASE RegisterRoute(w)
  <2> DEFINE route == RouteOf(job.inst, job.gw)
  <2>1. route \in Route
    BY <1>1, RouteTypes
  <2>2. worker' \in [Workers -> Job \union {Idle}]
    <3>1. [job EXCEPT !.pc = "report"] \in Job
      BY <1>1, <1>2, JobUpdate
    <3> QED BY <1>5, <3>1, GotoType DEF RegisterRoute
  <2>3. managed' \in [Nodes -> [Names -> Route \union {None}]] /\ kernel' \in [Nodes -> SUBSET Route]
    BY <1>1, <1>5, <2>1 DEF RegisterRoute, TypeOK
  <2> QED BY <1>5, <2>2, <2>3 DEF RegisterRoute, TypeOK, ApiTypeOK, apiVars, labelVars
<1>6. CASE RegisterFails(w)
  <2>1. worker' \in [Workers -> Job \union {Idle}]
    <3>1. [job EXCEPT !.pc = "report", !.err = "register", !.again = TRUE] \in Job
      BY <1>1, <1>2, JobUpdate
    <3> QED BY <1>6, <3>1, GotoType DEF RegisterFails
  <2>2. spent' \in [Budgets -> Nat]
    BY <1>2, <1>6, SpendType DEF RegisterFails, TypeOK
  <2> QED BY <1>6, <2>1, <2>2 DEF RegisterFails, TypeOK, ApiTypeOK, apiVars, nodeVars, labelVars
<1>7. CASE NothingToReport(w)
  <2>1. ApiTypeOK(Clients)'
    <3>1. UNCHANGED objects /\ (UNCHANGED latest \/ Drop(job.name, w))
      BY <1>7 DEF NothingToReport, Unapplied
    <3>2. ApiTypeOK(Clients)
      BY DEF TypeOK
    <3> QED BY <1>1, <3>1, <3>2 DEF Drop, ApiTypeOK
  <2>2. worker' \in [Workers -> Job \union {Idle}] /\ queue' \in [Workers -> SUBSET Names]
    BY <1>0, <1>1, <1>7, AfterReportType DEF NothingToReport
  <2> QED BY <1>7, <2>1, <2>2 DEF NothingToReport, TypeOK, nodeVars, labelVars
<1>8. CASE ReportStatus(w)
  <2> DEFINE o == AddToStatus(RemoveFromStatus(job.inst, n), n, job.gw, job.err)
  <2>1. o \in Object /\ o.deleting \in BOOLEAN
    BY <1>0, ReportedType DEF Object
  <2>2. ApiTypeOK(Clients)' /\ spent' \in [Budgets -> Nat]
    BY <1>0, <1>8, <2>1, WriteType DEF ReportStatus
  <2>3. [job EXCEPT !.inst = o] \in Job
    BY <1>0, <1>1, <1>2, <2>1, JobUpdate
  <2>4. worker' \in [Workers -> Job \union {Idle}] /\ queue' \in [Workers -> SUBSET Names]
    BY <1>0, <1>1, <1>8, <2>3, AfterReportType DEF ReportStatus
  <2> QED BY <1>8, <2>2, <2>4 DEF ReportStatus, TypeOK, nodeVars, labelVars
<1>9. CASE DeRegisterRoute(w)
  <2>1. worker' \in [Workers -> Job \union {Idle}]
    <3>1. [job EXCEPT !.pc = "forget"] \in Job
      BY <1>1, <1>2, JobUpdate
    <3> QED BY <1>9, <3>1, GotoType DEF DeRegisterRoute
  <2>2. managed' \in [Nodes -> [Names -> Route \union {None}]] /\ kernel' \in [Nodes -> SUBSET Route]
    BY <1>1, <1>9 DEF DeRegisterRoute, TypeOK
  <2> QED BY <1>9, <2>1, <2>2 DEF DeRegisterRoute, TypeOK, ApiTypeOK, apiVars, labelVars
<1>10. CASE DeRegisterFails(w)
  <2>1. ApiTypeOK(Clients)'
    BY <1>1, <1>10 DEF DeRegisterFails, Drop, TypeOK, ApiTypeOK
  <2>2. worker' \in [Workers -> Job \union {Idle}] /\ queue' \in [Workers -> SUBSET Names]
    BY <1>1, <1>10, FinishType DEF DeRegisterFails
  <2>3. spent' \in [Budgets -> Nat]
    BY <1>2, <1>10, SpendType DEF DeRegisterFails
  <2> QED BY <1>10, <2>1, <2>2, <2>3 DEF DeRegisterFails, TypeOK, nodeVars, labelVars
<1>11. CASE ForgetStatus(w)
  <2>1. ApiTypeOK(Clients)' /\ spent' \in [Budgets -> Nat]
    BY <1>0, <1>1, <1>11, WriteType DEF ForgetStatus
  <2>2. worker' \in [Workers -> Job \union {Idle}] /\ queue' \in [Workers -> SUBSET Names]
    <3>1. [job EXCEPT !.pc = "release"] \in Job
      BY <1>1, <1>2, JobUpdate
    <3> QED BY <1>1, <1>11, <3>1, GotoType, FinishType DEF ForgetStatus, TypeOK
  <2> QED BY <1>11, <2>1, <2>2 DEF ForgetStatus, TypeOK, nodeVars, labelVars
<1>12. CASE ReleaseFinalizer(w)
  <2> DEFINE o == [job.inst EXCEPT !.finalizer = FALSE]
  <2>1. o \in Object
    BY <1>1 DEF Object
  <2>2. ApiTypeOK(Clients)' /\ spent' \in [Budgets -> Nat]
    BY <1>0, <1>12, <2>1, WriteType DEF ReleaseFinalizer
  <2>3. worker' \in [Workers -> Job \union {Idle}] /\ queue' \in [Workers -> SUBSET Names]
    BY <1>1, <1>12, FinishType DEF ReleaseFinalizer
  <2> QED BY <1>12, <2>2, <2>3 DEF ReleaseFinalizer, TypeOK, nodeVars, labelVars
<1> QED
  BY <1>3, <1>4, <1>5, <1>6, <1>7, <1>8, <1>9, <1>10, <1>11, <1>12 DEF Step

\* A pod that starts lists well-typed caches.
LEMMA RebootType ==
  ASSUME TypeOK, NEW n \in Nodes, Die(n), ListAll(n), spent' \in [Budgets -> Nat]
  PROVE  TypeOK'
<1>1. ApiTypeOK(Clients)'
  BY DEF Die, ListAll, HeldElsewhere, TypeOK, ApiTypeOK, Clients
<1>2. /\ cache' \in [Nodes -> [Names -> Object \union {None}]]
      /\ managed' \in [Nodes -> [Names -> Route \union {None}]]
      /\ seen' \in [Nodes -> [Nodes -> Labels \union {None}]]
  BY DEF Die, ListAll, TypeOK, ApiTypeOK
<1>3. worker' \in [Workers -> Job \union {Idle}]
  BY DEF Die, TypeOK
<1>4. queue' \in [Workers -> SUBSET Names]
  BY DEF ListAll, TypeOK
<1> QED BY <1>1, <1>2, <1>3, <1>4 DEF Die, TypeOK

\* So does every event of the administrator, the watches and the pods.
LEMMA EventType ==
  ASSUME TypeOK, User \/ Watch \/ Disturbance
  PROVE  TypeOK'
<1>1. /\ {"creates", "edits", "deletes", "relabels", "resyncs", "crashes"} \subseteq Budgets
      /\ \A n \in Nodes, c \in Controllers : <<n, c>> \in Workers
  BY DEF Budgets, Workers
<1>2. ASSUME NEW x \in Names, UserCreates(x) \/ UserEdits(x) \/ UserDeletes(x)
      PROVE  TypeOK'
  <2>1. \A s \in Specs[x] : NewObject(s) \in Object
    BY ControllerAssumption DEF NewObject, Object, Status
  <2>2. ASSUME NEW o \in Object \union {None}, Overwrite(x, o)
        PROVE  ApiTypeOK(Clients)'
    BY <2>2 DEF Overwrite, TypeOK, ApiTypeOK
  <2>3. ASSUME NEW s \in Specs[x], Create(x, s)
        PROVE  ApiTypeOK(Clients)'
    BY <2>1, <2>2, <2>3 DEF Create
  <2>4. ASSUME NEW s \in Specs[x], Edit(x, s)
        PROVE  ApiTypeOK(Clients)'
    <3>1. objects[x] \in Object /\ s \in RouteSpec
      BY <2>4, ControllerAssumption DEF Edit, TypeOK, ApiTypeOK
    <3>2. [objects[x] EXCEPT !.spec = s] \in Object
      BY <3>1 DEF Object
    <3> QED BY <2>2, <2>4, <3>2 DEF Edit
  <2>5. ASSUME Delete(x)
        PROVE  ApiTypeOK(Clients)'
    <3>1. objects[x] \in Object
      BY <2>5 DEF Delete, TypeOK, ApiTypeOK
    <3>2. [objects[x] EXCEPT !.deleting = TRUE] \in Object
      BY <3>1 DEF Object
    <3> QED BY <2>2, <2>5, <3>2 DEF Delete
  <2>6. ApiTypeOK(Clients)'
    BY <1>2, <2>3, <2>4, <2>5 DEF UserCreates, UserEdits, UserDeletes
  <2>7. spent' \in [Budgets -> Nat]
    BY <1>1, <1>2, SpendType DEF UserCreates, UserEdits, UserDeletes
  <2> QED
    BY <1>2, <2>6, <2>7 DEF UserCreates, UserEdits, UserDeletes, TypeOK, podVars, nodeVars, labelVars
<1>3. ASSUME NEW n \in Nodes, NEW x \in Names, Observe(n, x)
      PROVE  TypeOK'
  <2>1. ApiTypeOK(Clients)'
    BY <1>3 DEF Observe, TypeOK, ApiTypeOK, Clients
  <2>2. /\ cache' \in [Nodes -> [Names -> Object \union {None}]]
        /\ queue' \in [Workers -> SUBSET Names]
    BY <1>3 DEF Observe, TypeOK, ApiTypeOK
  <2> QED BY <1>3, <2>1, <2>2 DEF Observe, TypeOK, nodeVars, labelVars
<1>4. ASSUME NEW n \in Nodes, NEW m \in Nodes, ObserveNode(n, m)
      PROVE  TypeOK'
  BY <1>4 DEF ObserveNode, TypeOK, ApiTypeOK, apiVars, nodeVars
<1>5. ASSUME NEW n \in Nodes, Relabel(n)
      PROVE  TypeOK'
  <2>1. spent' \in [Budgets -> Nat]
    BY <1>1, <1>5, SpendType DEF Relabel
  <2> QED BY <1>5, <2>1 DEF Relabel, TypeOK, ApiTypeOK, apiVars, podVars, nodeVars
<1>6. ASSUME NEW n \in Nodes, Restart(n)
      PROVE  TypeOK'
  <2>1. spent' \in [Budgets -> Nat]
    BY <1>1, <1>6, SpendType DEF Restart
  <2> QED BY <1>6, <2>1, RebootType DEF Restart
<1>7. ASSUME NEW w \in Workers, NEW x \in Names, Resync(w, x)
      PROVE  TypeOK'
  <2>1. spent' \in [Budgets -> Nat]
    BY <1>1, <1>7, SpendType DEF Resync
  <2> QED BY <1>7, <2>1 DEF Resync, TypeOK, ApiTypeOK, apiVars, nodeVars, labelVars
<1> QED
  BY <1>2, <1>3, <1>4, <1>5, <1>6, <1>7 DEF User, Watch, Disturbance

\* The initial states are well typed.
LEMMA InitType == Init => TypeOK
BY ControllerAssumption DEF Init, ApiInit, TypeOK, ApiTypeOK, Clients, Budgets

\* Every step keeps all types.
LEMMA NextType ==
  ASSUME TypeOK, [Next]_vars
  PROVE  TypeOK'
<1>1. CASE \E w \in Workers : Step(w)
  BY <1>1, StepType
<1>2. CASE \E w \in Workers, x \in Names : Begin(w, x)
  BY <1>2, BeginType
<1>3. CASE User \/ Watch \/ Disturbance
  BY <1>3, EventType
<1>4. CASE UNCHANGED vars
  BY <1>4 DEF vars, TypeOK, ApiTypeOK
<1> QED BY <1>1, <1>2, <1>3, <1>4 DEF Next

\* The variables keep their types: the copies, jobs and routes the handlers
\* build are what the API server, the workers and the kernel can hold.
THEOREM TypeCorrect == Spec => []TypeOK
BY InitType, NextType, PTL DEF Spec

-----------------------------------------------------------------------------
(***************************************************************************)
(* No route reaches the kernel of a node that its checks do not admit: a   *)
(* job carries the spec and the gateway that were checked with it, up to   *)
(* RegisterRoute.                                                          *)
(***************************************************************************)
\* What selectGateway may return for node n.
OnLink(n) == Direct[n] \union ({FallbackGw[n]} \ {NilGw})

\* A job on its way to RegisterRoute has passed the checks of reconcileImpl and,
\* from CheckRegistered on, ParseCIDR.
AdmittedJob(n, job) ==
  /\ job.pc \in {"finalizer", "register", "add"}
       => job.inst.spec.subnet \notin Protected /\ job.gw \in OnLink(n)
  /\ job.pc = "add" => job.inst.spec.subnet \notin Unparsable

AdmissionIInv ==
  /\ TypeOK
  /\ OnlyAdmittedRoutes
  /\ \A w \in Workers : AdmittedJob(NodeOf(w), worker[w])

\* Jobs that are past the route, and idle workers, are out of the question.
LEMMA Past ==
  ASSUME NEW n, NEW job, job.pc \notin {"finalizer", "register", "add"}
  PROVE  AdmittedJob(n, job)
BY DEF AdmittedJob

LEMMA IdleAdmitted == \A n : AdmittedJob(n, Idle)
BY DEF AdmittedJob, Idle

\* As long as no kernel gets a route, nothing but a new job matters.
LEMMA NoNewRoute ==
  ASSUME AdmissionIInv, TypeOK', \A n \in Nodes : kernel'[n] \subseteq kernel[n],
         \A w \in Workers : worker'[w] = worker[w] \/ AdmittedJob(NodeOf(w), worker'[w])
  PROVE  AdmissionIInv'
<1>1. OnlyAdmittedRoutes'
  BY DEF AdmissionIInv, OnlyAdmittedRoutes
<1>2. \A w \in Workers : AdmittedJob(NodeOf(w), worker[w])'
  BY DEF AdmissionIInv, AdmittedJob
<1> QED BY <1>1, <1>2 DEF AdmissionIInv

\* One worker has a new job.
LEMMA NewJobAdmitted ==
  ASSUME AdmissionIInv, TypeOK', UNCHANGED kernel, NEW w \in Workers, NEW job, Goto(w, job),
         AdmittedJob(NodeOf(w), job)
  PROVE  AdmissionIInv'
<1>1. worker'[w] = job /\ \A v \in Workers \ {w} : worker'[v] = worker[v]
  BY DEF Goto, AdmissionIInv, TypeOK
<1> QED BY <1>1, NoNewRoute

\* An early return reports, and does nothing else.
LEMMA RefuseAdmitted ==
  ASSUME AdmissionIInv, TypeOK', NEW w \in Workers, NEW x, NEW o, NEW gw, NEW err, NEW again,
         Refuse(w, x, o, gw, err, again)
  PROVE  AdmissionIInv'
<1>1. CASE Skip(w, x, again)
  BY <1>1, NoNewRoute DEF Skip, nodeVars
<1>2. CASE Start(w, x, NewJob(x, "report", o, gw, err, again))
  BY <1>2, NewJobAdmitted DEF Start, NewJob, AdmittedJob, nodeVars
<1> QED BY <1>1, <1>2 DEF Refuse

\* Only Provide sends a job towards the kernel: with an object that passed the
\* checks, and the gateway they found.
LEMMA BeginAdmitted ==
  ASSUME AdmissionIInv, TypeOK', NEW w \in Workers, NEW x \in Names, Begin(w, x)
  PROVE  AdmissionIInv'
<1> DEFINE n == NodeOf(w)
           o == cache[n][x]
<1>1. ASSUME NEW again, Skip(w, x, again)
      PROVE  AdmissionIInv'
  BY <1>1, NoNewRoute DEF Skip, nodeVars
<1>2. ASSUME NEW job, Start(w, x, job), AdmittedJob(n, job)
      PROVE  AdmissionIInv'
  BY <1>2, NewJobAdmitted DEF Start, nodeVars
<1>0. ASSUME NEW pc \in {"report", "deregister"}, NEW inst, NEW gw, NEW err, NEW again
      PROVE  AdmittedJob(n, NewJob(x, pc, inst, gw, err, again))
  BY DEF AdmittedJob, NewJob
<1>3. CASE WrongSelector(w, x, o) \/ NodeListFails(w, x, o)
  BY <1>0, <1>2, <1>3 DEF WrongSelector, NodeListFails
<1>4. CASE NotSelected(w, x, n, o)
  BY <1>1, <1>4 DEF NotSelected
<1>5. CASE \/ Overlaps(w, x, n, o)
           \/ InvalidGateway(w, x, n, o)
           \/ RouteGetFails(w, x, n, o)
           \/ NotDirectlyRoutable(w, x, n, o)
           \/ NoNextHop(w, x, n, o)
  BY <1>5, RefuseAdmitted DEF Overlaps, InvalidGateway, RouteGetFails, NotDirectlyRoutable, NoNextHop
<1>6. CASE Withdraw(w, x, n, o)
  BY <1>0, <1>1, <1>2, <1>6 DEF Withdraw
<1>7. CASE Provide(w, x, n, o)
  <2>1. o.spec.subnet \notin Protected /\ NextHop(n, o) \in OnLink(n)
    BY <1>7 DEF Provide, PastProtected, IsProtected, Routable, NextHop, OnLink
  <2>2. PICK pc \in {"finalizer", "register"} : Start(w, x, NewJob(x, pc, o, NextHop(n, o), "", FALSE))
    BY <1>7 DEF Provide
  <2>3. AdmittedJob(n, NewJob(x, pc, o, NextHop(n, o), "", FALSE))
    BY <2>1, <2>2 DEF AdmittedJob, NewJob
  <2> QED BY <1>2, <2>2, <2>3
<1> HIDE DEF o, n
<1> QED BY <1>1, <1>3, <1>4, <1>5, <1>6, <1>7 DEF Begin, o, n

\* A job that goes on keeps what was checked; RegisterRoute puts just that in
\* the kernel.
LEMMA StepAdmitted ==
  ASSUME AdmissionIInv, TypeOK', NEW w \in Workers, Step(w)
  PROVE  AdmissionIInv'
<1> DEFINE n == NodeOf(w)
           job == worker[w]
<1>1. TypeOK /\ OnlyAdmittedRoutes /\ AdmittedJob(n, job) /\ n \in Nodes
  BY WorkerNode DEF AdmissionIInv
<1>2. ASSUME NEW again, Finish(w, again), UNCHANGED kernel
      PROVE  AdmissionIInv'
  BY <1>2, NewJobAdmitted, IdleAdmitted DEF Finish
<1>3. ASSUME NEW new \in Job, NEW again, AfterReport(w, new, again), UNCHANGED kernel
      PROVE  AdmissionIInv'
  <2>1. AdmittedJob(n, [new EXCEPT !.pc = "deregister", !.again = FALSE])
    BY DEF AdmittedJob, Job
  <2> QED BY <1>2, <1>3, <2>1, NewJobAdmitted DEF AfterReport
<1>4. CASE StoreFinalizer(w)
  <2>1. job \in Job /\ job.pc = "finalizer" /\ UNCHANGED kernel
    BY <1>1, <1>4, Busy DEF StoreFinalizer, PCs, nodeVars
  <2>2. SetFinalizer(job.inst).spec = job.inst.spec
    BY <2>1 DEF SetFinalizer, Job, Object
  <2> DEFINE going == [job EXCEPT !.pc = "register", !.inst = SetFinalizer(job.inst)]
             failed == [job EXCEPT !.pc = "report", !.inst = SetFinalizer(job.inst), !.err = "update", !.again = TRUE]
  <2>3. AdmittedJob(n, going) /\ AdmittedJob(n, failed)
    BY <1>1, <2>1, <2>2 DEF AdmittedJob, Job
  <2>4. Goto(w, going) \/ Goto(w, failed)
    BY <1>4 DEF StoreFinalizer
  <2> HIDE DEF going, failed
  <2> QED BY <2>1, <2>3, <2>4, NewJobAdmitted
<1>5. CASE CheckRegistered(w)
  <2>1. job \in Job /\ job.pc = "register" /\ UNCHANGED kernel
    BY <1>1, <1>5, Busy DEF CheckRegistered, PCs, nodeVars
  <2>2. PICK pc \in {"add", "report"} : /\ Goto(w, [job EXCEPT !.pc = pc])
                                        /\ pc = "add" => job.inst.spec.subnet \notin Unparsable
    BY <1>5 DEF CheckRegistered
  <2>3. AdmittedJob(n, [job EXCEPT !.pc = pc])
    BY <1>1, <2>1, <2>2 DEF AdmittedJob, Job
  <2> QED BY <2>1, <2>2, <2>3, NewJobAdmitted
<1>6. CASE RegisterRoute(w)
  <2> DEFINE route == RouteOf(job.inst, job.gw)
             next == [job EXCEPT !.pc = "report"]
  <2>1. job \in Job /\ job.pc = "add"
    BY <1>1, <1>6, Busy DEF RegisterRoute, PCs
  <2>2. \A m \in Nodes : kernel'[m] \subseteq kernel[m] \union (IF m = n THEN {route} ELSE {})
    BY <1>1, <1>6 DEF RegisterRoute, TypeOK
  <2>3. route.dst = job.inst.spec.subnet /\ route.gw = job.gw
    BY DEF RouteOf
  <2>4. route.dst \notin Unparsable \union Protected /\ route.gw \in OnLink(n)
    BY <1>1, <2>1, <2>3 DEF AdmittedJob
  <2> HIDE DEF route
  <2>5. OnlyAdmittedRoutes'
    BY <1>1, <2>2, <2>4 DEF OnlyAdmittedRoutes, OnLink
  <2>6. worker'[w] = next /\ \A v \in Workers \ {w} : worker'[v] = worker[v]
    BY <1>1, <1>6 DEF RegisterRoute, Goto, TypeOK
  <2>7. AdmittedJob(n, next)
    BY <2>1, Past DEF Job
  <2>8. \A v \in Workers : AdmittedJob(NodeOf(v), worker[v])'
    <3> HIDE DEF next
    <3> QED BY <2>6, <2>7 DEF AdmissionIInv, AdmittedJob
  <2> QED BY <2>5, <2>8 DEF AdmissionIInv
<1>7. CASE RegisterFails(w)
  <2>1. job \in Job /\ UNCHANGED kernel
    BY <1>1, <1>7, Busy DEF RegisterFails, PCs, nodeVars
  <2>2. AdmittedJob(n, [job EXCEPT !.pc = "report", !.err = "register", !.again = TRUE])
    BY <2>1 DEF AdmittedJob, Job
  <2> QED BY <1>7, <2>1, <2>2, NewJobAdmitted DEF RegisterFails
<1>8. CASE NothingToReport(w)
  <2>1. job \in Job /\ UNCHANGED kernel
    BY <1>1, <1>8, Busy DEF NothingToReport, PCs, nodeVars
  <2> QED BY <1>3, <1>8, <2>1 DEF NothingToReport
<1>9. CASE ReportStatus(w)
  <2>1. /\ job \in Job /\ job.inst \in Object /\ job.gw \in ShownGateways /\ job.err \in Errors
        /\ UNCHANGED kernel
    BY <1>1, <1>9, Busy DEF ReportStatus, PCs, nodeVars
  <2> DEFINE o == AddToStatus(RemoveFromStatus(job.inst, n), n, job.gw, job.err)
             new == [job EXCEPT !.inst = o]
  <2>2. o \in Object
    BY <1>1, <2>1, ObjectOps
  <2>3. new \in Job
    BY <2>1, <2>2 DEF Job
  <2>4. \E again : AfterReport(w, new, again)
    BY <1>9 DEF ReportStatus
  <2> HIDE DEF new
  <2> QED BY <1>3, <2>1, <2>3, <2>4
<1>10. CASE DeRegisterRoute(w)
  <2>1. job \in Job
    BY <1>1, <1>10, Busy DEF DeRegisterRoute, PCs
  <2>2. AdmittedJob(n, [job EXCEPT !.pc = "forget"])
    BY <2>1, Past DEF Job
  <2>3. \A m \in Nodes : kernel'[m] \subseteq kernel[m]
    BY <1>1, <1>10 DEF DeRegisterRoute, TypeOK
  <2>4. /\ worker'[w] = [job EXCEPT !.pc = "forget"]
        /\ \A v \in Workers \ {w} : worker'[v] = worker[v]
    BY <1>1, <1>10 DEF DeRegisterRoute, Goto, TypeOK
  <2> QED BY <2>2, <2>3, <2>4, NoNewRoute
<1>11. CASE DeRegisterFails(w)
  BY <1>2, <1>11 DEF DeRegisterFails, nodeVars
<1>12. CASE ForgetStatus(w)
  <2>1. job \in Job /\ UNCHANGED kernel
    BY <1>1, <1>12, Busy DEF ForgetStatus, PCs, nodeVars
  <2>2. AdmittedJob(n, [job EXCEPT !.pc = "release"])
    BY <2>1, Past DEF Job
  <2> QED BY <1>2, <1>12, <2>1, <2>2, NewJobAdmitted DEF ForgetStatus
<1>13. CASE ReleaseFinalizer(w)
  BY <1>2, <1>13 DEF ReleaseFinalizer, nodeVars
<1> QED
  BY <1>4, <1>5, <1>6, <1>7, <1>8, <1>9, <1>10, <1>11, <1>12, <1>13 DEF Step

\* Events start no job and touch no kernel.
LEMMA EventAdmitted ==
  ASSUME AdmissionIInv, TypeOK', User \/ Watch \/ Disturbance \/ UNCHANGED vars
  PROVE  AdmissionIInv'
<1>1. UNCHANGED kernel
  BY DEF User, UserCreates, UserEdits, UserDeletes, Watch, Observe, ObserveNode,
         Disturbance, Relabel, Restart, Die, Resync, nodeVars, vars
<1>2. ASSUME NEW w \in Workers
      PROVE  worker'[w] = worker[w] \/ worker'[w] = Idle
  BY DEF User, UserCreates, UserEdits, UserDeletes, Watch, Observe, ObserveNode,
         Disturbance, Relabel, Restart, Die, Resync, podVars, vars
<1> QED BY <1>1, <1>2, IdleAdmitted, NoNewRoute

LEMMA AdmissionInit == Init => AdmissionIInv
<1> SUFFICES ASSUME Init PROVE AdmissionIInv
  OBVIOUS
<1>1. TypeOK
  BY InitType
<1>2. OnlyAdmittedRoutes
  BY DEF Init, OnlyAdmittedRoutes
<1>3. \A w \in Workers : AdmittedJob(NodeOf(w), worker[w])
  BY IdleAdmitted DEF Init
<1> QED BY <1>1, <1>2, <1>3 DEF AdmissionIInv

LEMMA AdmissionNext ==
  ASSUME AdmissionIInv, [Next]_vars
  PROVE  AdmissionIInv'
<1>1. TypeOK'
  BY NextType DEF AdmissionIInv
<1> QED BY <1>1, StepAdmitted, BeginAdmitted, EventAdmitted DEF Next

\* Whatever the administrator writes and however reconciliations interleave, a
\* route in the kernel of a node parses, overlaps no protected subnet and has a
\* gateway on a link of the node.
THEOREM AlwaysAdmitted == Spec => []OnlyAdmittedRoutes
<1>1. AdmissionIInv => OnlyAdmittedRoutes
  BY DEF AdmissionIInv
<1> QED BY <1>1, AdmissionInit, AdmissionNext, PTL DEF Spec

=============================================================================
