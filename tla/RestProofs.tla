----------------------------- MODULE RestProofs -----------------------------
(***************************************************************************)
(* Proof that a node is at rest only when its work is done, for any number *)
(* of nodes and StaticRoutes, any interleaving, failures and restarts: no  *)
(* wakeup is lost.  It rests on HonestyIInv and, where the labels decide,  *)
(* on an event filter that lets every change of them through.              *)
(*                                                                         *)
(* Nothing but news changes what there is to do for a node whose cache is  *)
(* current.  RestStep says that a step of a worker keeps the copies of the *)
(* others current as long as that cache is, and passes on what it owes.    *)
(***************************************************************************)
EXTENDS HonestyProofs

-----------------------------------------------------------------------------
(***************************************************************************)
(* Copies stay current                                                     *)
(***************************************************************************)
\* While a cache has the stored version of an object, the copies of it of all
\* workers but w stay current.
CopiesStay(w) ==
  \A x \in Names, n \in Nodes, v \in Workers \ {w} :
    n \in latest'[x] /\ v \in latest[x] => v \in latest'[x]

\* Another write than one that changes nothing leaves no cache current.
LEMMA StoreStays ==
  ASSUME TypeOK, NEW x \in Names, NEW o, NEW w \in Workers, NEW keep \in BOOLEAN,
         Store(x, o, w, keep)
  PROVE  /\ CopiesStay(w)
         /\ keep => w \in latest'[x]
<1>1. w \notin Nodes
  BY ClientAssumption, WorkerNode
<1> QED BY <1>1 DEF CopiesStay, Store, TypeOK, ApiTypeOK

\* A call that is not applied takes at most the copy of its author.
LEMMA UnappliedStays ==
  ASSUME TypeOK, NEW w \in Workers, worker[w].name \in Names, NEW keep \in BOOLEAN, Unapplied(w, keep)
  PROVE  /\ CopiesStay(w)
         /\ keep => latest' = latest
BY DEF CopiesStay, Unapplied, Drop, TypeOK, ApiTypeOK

\* A call keeps the copy of its author if it goes on, unless the answer to a
\* change was lost.
LEMMA CallStays ==
  ASSUME TypeOK, NEW w \in Workers, worker[w].pc \in PCs, NEW part, NEW o \in Object,
         NEW keep \in BOOLEAN, Applied(w, part, o, keep) \/ Failed(w, part, o, keep),
         NEW x, x = worker[w].name
  PROVE  /\ CopiesStay(w)
         /\ keep /\ w \in latest[x] /\ objects'[x] = objects[x] => w \in latest'[x]
<1> DEFINE stored == Put(x, part, o)
<1>1. x \in Names
  BY Busy
<1>2. CASE Applied(w, part, o, keep)
  <2>1. Store(x, stored, w, keep)
    BY <1>2 DEF Applied
  <2> HIDE DEF stored
  <2> QED BY <1>1, <2>1, StoreStays
<1>3. CASE Unapplied(w, keep)
  BY <1>1, <1>3, UnappliedStays
<1>4. CASE Store(x, stored, w, keep /\ stored = objects[x])
  <2> HIDE DEF stored
  <2>1. objects'[x] = stored
    BY <1>1, <1>4 DEF Store, TypeOK, ApiTypeOK
  <2>2. /\ CopiesStay(w)
        /\ keep /\ stored = objects[x] => w \in latest'[x]
    <3> DEFINE kept == keep /\ stored = objects[x]
    <3>1. kept \in BOOLEAN /\ Store(x, stored, w, kept)
      BY <1>4
    <3> HIDE DEF kept
    <3>2. CopiesStay(w) /\ (kept => w \in latest'[x])
      BY <1>1, <3>1, StoreStays
    <3> QED BY <3>2 DEF kept
  <2> QED BY <2>1, <2>2
<1> QED BY <1>2, <1>3, <1>4 DEF Failed

-----------------------------------------------------------------------------
(***************************************************************************)
(* The steps of a worker                                                   *)
(***************************************************************************)
\* The part of EntryCurrent about one worker.
EntryOwn(w) ==
  \A x \in Names :
    w \in latest[x] /\ worker[w].pc \in Untouched
      => worker[w].inst.status[NodeOf(w)] = objects[x].status[NodeOf(w)]

\* A step of w leaves the debts of the others and, while its node knows the
\* news of x, its own.
RestStep(w) ==
  /\ StepOK(w)
  /\ CopiesStay(w)
  /\ \A v \in Workers \ {w} : queue'[v] = queue[v]
  /\ UNCHANGED labelVars
  /\ EntryOwn(w)'
  /\ \A x \in Names :
       /\ NodeOf(w) \in latest'[x]
       /\ objects[x] # None
       /\ ~Done(NodeOf(w), x)
       /\ Owes(w, x)
       => Owes(w, x)'

\* What is to be done for n depends on the object and on what n knows of itself.
LEMMA DoneStays ==
  ASSUME NEW n, NEW x, objects'[x] = objects[x], seen'[n][n] = seen[n][n]
  PROVE  (Expected(n, x)' <=> Expected(n, x)) /\ (Done(n, x)' <=> Done(n, x))
<1>1. Expected(n, x)' <=> Expected(n, x)
  BY DEF Expected, Selected
<1>2. Told(n, objects[x])' <=> Told(n, objects[x])
  BY DEF Told, Verdict, IsProtected, NextHop, Routable
<1> QED BY <1>1, <1>2 DEF Done, Healthy

\* A worker that stands still owes what it did.
LEMMA OwesStays ==
  ASSUME NEW w \in Workers, NEW x, objects'[x] = objects[x],
         seen'[NodeOf(w)][NodeOf(w)] = seen[NodeOf(w)][NodeOf(w)],
         worker'[w] = worker[w], queue[w] \subseteq queue'[w],
         w \in latest[x] => w \in latest'[x],
         Owes(w, x)
  PROVE  Owes(w, x)'
<1>1. Expected(NodeOf(w), x)' <=> Expected(NodeOf(w), x)
  BY DoneStays
<1>2. Concludes(w, x) => Concludes(w, x)'
  BY <1>1 DEF Concludes, Verdict, IsProtected, NextHop, Routable
<1> QED BY <1>2 DEF Owes

\* So it is with a step of another worker.
LEMMA RestStepOK ==
  ASSUME RestIInv, NEW w \in Workers, RestStep(w), HonestyIInv'
  PROVE  RestIInv'
<1>1. ASSUME NEW n \in Nodes, NEW x \in Names, n \in latest'[x], objects'[x] # None, ~Done(n, x)'
      PROVE  \E v \in Workers : NodeOf(v) = n /\ Owes(v, x)'
  <2>1. n \in latest[x] /\ objects'[x] = objects[x]
    <3>1. n \in Clients \ {w}
      BY WorkerNode, ClientAssumption DEF Clients
    <3> QED BY <1>1, <3>1 DEF RestStep, StepOK, Undisturbed
  <2>2. ~Done(n, x) /\ UNCHANGED seen
    BY <1>1, <2>1, DoneStays DEF RestStep, labelVars
  <2>3. PICK v \in Workers : NodeOf(v) = n /\ Owes(v, x)
    BY <1>1, <2>1, <2>2 DEF RestIInv, Owed
  <2>4. CASE v = w
    BY <1>1, <2>1, <2>2, <2>3, <2>4 DEF RestStep
  <2>5. CASE v # w
    <3>1. worker'[v] = worker[v] /\ queue'[v] = queue[v] /\ (v \in latest[x] => v \in latest'[x])
      BY <1>1, <2>5 DEF RestStep, StepOK, CopiesStay
    <3>2. Owes(v, x)'
      BY <2>1, <2>2, <2>3, <3>1, OwesStays
    <3> QED BY <2>3, <3>2
  <2> QED BY <2>3, <2>4, <2>5
<1>2. Owed'
  BY <1>1 DEF Owed
<1>3. EntryCurrent'
  <2> SUFFICES ASSUME NEW v \in Workers PROVE EntryOwn(v)'
    BY DEF EntryCurrent, EntryOwn
  <2>1. CASE v = w
    BY <2>1 DEF RestStep
  <2>2. CASE v # w
    <3>1. v \in Clients \ {w}
      BY <2>2, WorkerNode
    <3>2. worker'[v] = worker[v] /\ Undisturbed(v)
      BY <2>2, <3>1 DEF RestStep, StepOK
    <3> QED BY <3>2 DEF EntryOwn, Undisturbed, RestIInv, EntryCurrent
  <2> QED BY <2>1, <2>2
<1>4. NodesThere'
  BY DEF RestStep, labelVars, RestIInv, NodesThere
<1> QED BY <1>2, <1>3, <1>4 DEF RestIInv

\* w owes something for x, on account of its job, and nothing changed for its node.
InDebt(w, x) ==
  /\ w \in latest[x]
  /\ NodeOf(w) \in latest'[x]
  /\ objects'[x] = objects[x]
  /\ objects[x] # None
  /\ ~Done(NodeOf(w), x)
  /\ worker[w].again \/ Concludes(w, x)

\* What the steps of a busy worker have in common.
LEMMA BusyRest ==
  ASSUME IInv, NEW w \in Workers, worker[w].pc \in PCs, NEW x, x = worker[w].name,
         StepOK(w), CopiesStay(w), UNCHANGED labelVars,
         \A v \in Workers \ {w} : queue'[v] = queue[v],
         queue[w] \subseteq queue'[w],
         worker'[w].pc \in Untouched /\ w \in latest'[x]
           => worker'[w].inst.status[NodeOf(w)] = objects'[x].status[NodeOf(w)],
         worker'[w].pc \in Untouched => worker'[w].name = x,
         InDebt(w, x) => Owes(w, x)'
  PROVE  RestStep(w)
<1>1. EntryOwn(w)'
  BY DEF EntryOwn, StepOK, OwnCopy, CopyOf
<1>2. ASSUME NEW y \in Names, NodeOf(w) \in latest'[y], objects[y] # None, ~Done(NodeOf(w), y), Owes(w, y)
      PROVE  Owes(w, y)'
  <2>1. CASE y \in queue[w]
    BY <2>1 DEF Owes
  <2>2. CASE y \notin queue[w]
    <3>1. y = x /\ w \in latest[x] /\ (worker[w].again \/ Concludes(w, x))
      BY <1>2, <2>2 DEF Owes
    <3>2. objects'[x] = objects[x]
      <4>1. NodeOf(w) \in Clients \ {w}
        BY WorkerNode, ClientAssumption DEF Clients
      <4> QED BY <1>2, <3>1, <4>1 DEF StepOK, Undisturbed
    <3> QED BY <1>2, <3>1, <3>2 DEF InDebt
  <2> QED BY <2>1, <2>2
<1> QED BY <1>1, <1>2 DEF RestStep

\* On the way to the report the verdict stays, or the reconciliation comes back.
LEMMA RouteDebt ==
  ASSUME NEW w \in Workers, worker[w].pc \in {"finalizer", "register", "add"}, NEW x,
         InDebt(w, x), UNCHANGED seen, w \in latest'[x],
         worker'[w].name = x, worker'[w].pc \in Untouched,
         \/ worker'[w].again
         \/ /\ worker'[w].again = worker[w].again
            /\ worker'[w].gw = worker[w].gw
            /\ worker'[w].err = worker[w].err
  PROVE  Owes(w, x)'
<1>1. Expected(NodeOf(w), x)' <=> Expected(NodeOf(w), x)
  BY DoneStays DEF InDebt
<1>2. CASE worker'[w].again
  BY <1>2 DEF Owes
<1>3. CASE Concludes(w, x) /\ ~worker'[w].again
  <2>1. Expected(NodeOf(w), x) /\ <<worker[w].gw, worker[w].err>> = Verdict(NodeOf(w), objects[x])
    BY <1>3 DEF Concludes
  <2>2. Verdict(NodeOf(w), objects[x])' = Verdict(NodeOf(w), objects[x])
    BY DEF InDebt, Verdict, IsProtected, NextHop, Routable
  <2>3. Concludes(w, x)'
    BY <1>1, <1>3, <2>1, <2>2 DEF Concludes
  <2> QED BY <2>3 DEF Owes
<1> QED BY <1>2, <1>3 DEF InDebt

\* The finalizer: the object, its status apart from that, and the copy agree still.
LEMMA StoreFinalizerRest ==
  ASSUME RestIInv, NEW w \in Workers, NEW x, x = worker[w].name, StoreFinalizer(w)
  PROVE  RestStep(w)
<1> DEFINE job == worker[w]
           n == NodeOf(w)
           o == SetFinalizer(job.inst)
<1>1. /\ IInv /\ TypeOK /\ EntryOwn(w)
      /\ job.pc = "finalizer" /\ job.pc \in PCs /\ job.pc \in Untouched
      /\ UNCHANGED <<queue, labels, seen>>
      /\ Applied(w, "object", o, TRUE) \/ Failed(w, "object", o, TRUE)
  BY DEF RestIInv, HonestyIInv, IInv, EntryCurrent, EntryOwn, StoreFinalizer, PCs, Untouched, labelVars
<1>2. /\ job \in Job /\ x \in Names /\ n \in Nodes /\ job.inst \in Object
      /\ o \in Object /\ o.status = job.inst.status
  BY <1>1, Busy, WorkerNode DEF SetFinalizer, Object
<1>3. PICK j \in {[job EXCEPT !.pc = "register", !.inst = o],
                  [job EXCEPT !.pc = "report", !.inst = o, !.err = "update", !.again = TRUE]} :
        Goto(w, j)
  BY DEF StoreFinalizer
<1>4. /\ j.name = x /\ j.inst = o /\ j.pc \in Untouched
      /\ j.again \/ (j.again = job.again /\ j.gw = job.gw /\ j.err = job.err)
  BY <1>2, <1>3 DEF Job, Untouched
<1>5. worker'[w] = j
  BY <1>1, <1>3, GotoOthers
<1>6. StepOK(w)
  BY <1>1, StoreFinalizerOK
<1> HIDE DEF o
<1>7. CopiesStay(w) /\ (w \in latest[x] /\ objects'[x] = objects[x] => w \in latest'[x])
  BY <1>1, <1>2, CallStays
<1>8. ASSUME w \in latest'[x]
      PROVE  o.status[n] = objects'[x].status[n]
  <2>1. objects'[x] # None /\ worker'[w].inst.deleting = objects'[x].deleting
    BY <1>2, <1>6, <1>8 DEF StepOK, OwnCopy, CopyOf
  <2>2. CASE objects'[x] = objects[x] /\ w \in latest[x]
    BY <1>1, <1>2, <2>2 DEF EntryOwn
  <2>3. CASE Acceptable(w, o) /\ objects' = [objects EXCEPT ![x] = Put(x, "object", o)]
    <3>1. w \in latest[x] /\ objects[x] \in Object
      BY <1>1, <1>2, <2>3 DEF Acceptable, Accepts, TypeOK, ApiTypeOK
    <3>2. objects'[x] = WithMeta(x, o)
      BY <1>1, <1>2, <2>3 DEF Put, TypeOK, ApiTypeOK
    <3>3. objects'[x].status = objects[x].status
      BY <2>1, <3>1, <3>2 DEF WithMeta, Object
    <3> QED BY <1>1, <1>2, <3>1, <3>3 DEF EntryOwn
  <2>4. CASE UNCHANGED objects /\ Undisturbed(w)
    BY <1>2, <1>8, <2>2, <2>4 DEF Undisturbed
  <2>5. CASE Applied(w, "object", o, TRUE)
    BY <1>1, <1>2, <2>3, <2>5, AppliedKeep
  <2>6. CASE Failed(w, "object", o, TRUE)
    <3>1. /\ \/ UNCHANGED objects
             \/ /\ Acceptable(w, o)
                /\ objects' = [objects EXCEPT ![worker[w].name] = Put(worker[w].name, "object", o)]
          /\ \A c \in Clients : Undisturbed(c)
      BY <1>1, <1>2, <2>6, FailedKeep
    <3>2. Undisturbed(w)
      BY <3>1, WorkerNode
    <3> QED BY <2>3, <2>4, <3>1, <3>2
  <2> QED BY <1>1, <2>5, <2>6
<1>9. InDebt(w, x) => Owes(w, x)'
  <2> SUFFICES ASSUME InDebt(w, x) PROVE Owes(w, x)'
    OBVIOUS
  <2>1. w \in latest'[x]
    BY <1>7 DEF InDebt
  <2> QED BY <1>1, <1>4, <1>5, <2>1, RouteDebt
<1> QED BY <1>1, <1>4, <1>5, <1>6, <1>7, <1>8, <1>9, BusyRest DEF labelVars

\* A step that calls nobody but the route manager.
LEMMA LocalRest ==
  ASSUME RestIInv, NEW w \in Workers, worker[w].pc \in PCs, NEW x, x = worker[w].name, StepOK(w),
         UNCHANGED <<objects, latest, queue, labels, seen>>,
         NEW j, worker'[w] = j, j.name = x, j.inst = worker[w].inst,
         j.pc \in Untouched => worker[w].pc \in Untouched,
         InDebt(w, x) => Owes(w, x)'
  PROVE  RestStep(w)
<1>1. IInv /\ CopiesStay(w) /\ EntryOwn(w) /\ x \in Names
  BY Busy DEF RestIInv, HonestyIInv, IInv, CopiesStay, EntryCurrent, EntryOwn
<1>2. worker'[w].pc \in Untouched /\ w \in latest'[x]
        => worker'[w].inst.status[NodeOf(w)] = objects'[x].status[NodeOf(w)]
  BY <1>1 DEF EntryOwn
<1> QED BY <1>1, <1>2, BusyRest DEF labelVars

\* The lookup, the route, and its failure.
LEMMA RouteRest ==
  ASSUME RestIInv, NEW w \in Workers, NEW x, x = worker[w].name,
         CheckRegistered(w) \/ RegisterRoute(w) \/ RegisterFails(w)
  PROVE  RestStep(w)
<1> DEFINE job == worker[w]
<1>1. /\ IInv /\ TypeOK
      /\ job.pc \in {"finalizer", "register", "add"} /\ job.pc \in PCs /\ job.pc \in Untouched
      /\ UNCHANGED <<objects, latest, queue, labels, seen>>
  BY DEF RestIInv, HonestyIInv, IInv, CheckRegistered, RegisterRoute, RegisterFails, PCs, Untouched,
         apiVars, labelVars
<1>2. job \in Job
  BY <1>1, Busy
<1>3. PICK j \in {[job EXCEPT !.pc = "add"], [job EXCEPT !.pc = "report"],
                  [job EXCEPT !.pc = "report", !.err = "register", !.again = TRUE]} :
        Goto(w, j)
  BY DEF CheckRegistered, RegisterRoute, RegisterFails
<1>4. /\ j.name = x /\ j.inst = job.inst /\ j.pc \in Untouched
      /\ j.again \/ (j.again = job.again /\ j.gw = job.gw /\ j.err = job.err)
  BY <1>2, <1>3 DEF Job, Untouched
<1>5. worker'[w] = j
  BY <1>1, <1>3, GotoOthers
<1>6. StepOK(w)
  BY <1>1, CheckRegisteredOK, RegisterRouteOK, RegisterFailsOK
<1>7. InDebt(w, x) => Owes(w, x)'
  BY <1>1, <1>4, <1>5, RouteDebt DEF InDebt
<1> QED BY <1>1, <1>4, <1>5, <1>6, <1>7, LocalRest

-----------------------------------------------------------------------------
(***************************************************************************)
(* The report                                                              *)
(***************************************************************************)
\* Two specs that are stored alike are about one subnet.
LEMMA EncodedSubnet ==
  ASSUME NEW s \in RouteSpec, NEW t \in RouteSpec, Encoded(s) = Encoded(t)
  PROVE  s.subnet = t.subnet
<1>1. \A r \in RouteSpec : Encoded(r).subnet = r.subnet
  BY DEF Encoded, RouteSpec
<1> QED BY <1>1

\* The entry that a report makes tells what was reported.
LEMMA EntryTold ==
  ASSUME NEW n \in Nodes, NEW o \in Object, NEW gw \in ShownGateways, NEW err \in Errors
  PROVE  LET e == AddToStatus(RemoveFromStatus(o, n), n, gw, err).status[n] IN
         /\ e # None
         /\ e.state.subnet = o.spec.subnet
         /\ e.state.gateway = gw
         /\ e.error = err
<1> DEFINE cut == RemoveFromStatus(o, n)
           state == Encoded(ShownState(cut, gw))
           e == [state |-> state, error |-> err]
<1>1. cut \in Object /\ cut.spec = o.spec /\ cut.status[n] = None
  BY ObjectOps DEF RemoveFromStatus, Object, Status
<1>2. /\ state \in [subnet : Subnets, gateway : ShownGateways, table : Tables \union {None},
                    selectors : Selectors]
      /\ state.subnet = o.spec.subnet /\ state.gateway = gw
  BY <1>1 DEF Encoded, ShownState, Object, RouteSpec, Selectors
<1>3. e \in Entry /\ e # None
  BY <1>2, RecordAssumption DEF Entry
<1>4. AddToStatus(cut, n, gw, err).status[n] = e
  <2> HIDE DEF e
  <2>1. [cut EXCEPT !.status[n] = e].status[n] = e
    BY <1>1 DEF Object, Status
  <2> QED BY <1>1, <2>1 DEF AddToStatus, AlreadyInStatus, e
<1> HIDE DEF state, cut
<1> QED BY <1>2, <1>3, <1>4 DEF cut

\* After the report, the deletion, or the end.
LEMMA AfterReportNext ==
  ASSUME TypeOK, NEW w \in Workers, worker[w].pc = "report", NEW x \in Names, x = worker[w].name,
         NEW job \in Job, job.name = x, NEW again \in BOOLEAN, AfterReport(w, job, again)
  PROVE  /\ \A v \in Workers \ {w} : queue'[v] = queue[v]
         /\ queue[w] \subseteq queue'[w]
         /\ worker'[w].pc \notin Untouched
         /\ IF job.inst.deleting
            THEN worker'[w].pc = "deregister" /\ worker'[w].name = x
            ELSE again => x \in queue'[w]
<1>1. CASE job.inst.deleting
  <2> DEFINE j == [job EXCEPT !.pc = "deregister", !.again = FALSE]
  <2>1. j.pc = "deregister" /\ j.name = x
    BY DEF Job
  <2>2. worker'[w] = j /\ UNCHANGED queue
    BY <1>1, GotoOthers DEF AfterReport
  <2> QED BY <1>1, <2>1, <2>2 DEF Untouched
<1>2. CASE ~job.inst.deleting
  <2>1. Finish(w, again)
    BY <1>2 DEF AfterReport
  <2>2. /\ worker'[w] = Idle
        /\ \A v \in Workers \ {w} : queue'[v] = queue[v]
        /\ queue[w] \subseteq queue'[w]
    BY <2>1, Finished
  <2>3. Idle.pc = "idle" /\ "idle" \notin Untouched
    BY DEF Idle, Untouched
  <2>4. again => x \in queue'[w]
    BY <2>1 DEF Finish, Requeue, TypeOK
  <2> QED BY <1>2, <2>2, <2>3, <2>4
<1> QED BY <1>1, <1>2

\* What is owed at the report: the deletion is next, the reconciliation comes
\* back, or all has been told.
LEMMA ReportDebt ==
  ASSUME TypeOK, NEW w \in Workers, worker[w].pc = "report", NEW x \in Names, x = worker[w].name,
         OwnCopy(w), InDebt(w, x), UNCHANGED seen,
         NEW job \in Job, job.name = x, job.inst.deleting = worker[w].inst.deleting,
         NEW again \in BOOLEAN, AfterReport(w, job, again),
         job.inst.deleting => w \in latest'[x],
         worker[w].again => again,
         \/ again
         \/ <<worker[w].gw, worker[w].err>> = Verdict(NodeOf(w), objects[x]) => Told(NodeOf(w), objects[x])
  PROVE  Owes(w, x)'
<1>1. /\ IF job.inst.deleting
         THEN worker'[w].pc = "deregister" /\ worker'[w].name = x
         ELSE again => x \in queue'[w]
  BY AfterReportNext
<1>2. job.inst.deleting = objects[x].deleting
  BY DEF OwnCopy, CopyOf, InDebt
<1>3. CASE job.inst.deleting
  <2>1. ~Expected(NodeOf(w), x)'
    BY <1>2, <1>3 DEF Expected, InDebt
  <2> QED BY <1>1, <1>3, <2>1 DEF Owes, Concludes
<1>4. CASE ~job.inst.deleting /\ again
  BY <1>1, <1>4 DEF Owes
<1>5. CASE ~job.inst.deleting /\ ~again
  BY <1>2, <1>5 DEF InDebt, Concludes, Done
<1> QED BY <1>3, <1>4, <1>5

\* A worker reports nothing if all has been told.
LEMMA NothingToReportRest ==
  ASSUME RestIInv, NEW w \in Workers, NEW x, x = worker[w].name, NothingToReport(w)
  PROVE  RestStep(w)
<1> DEFINE job == worker[w]
           n == NodeOf(w)
<1>1. /\ IInv /\ TypeOK /\ EntryOwn(w) /\ OwnCopy(w)
      /\ job.pc = "report" /\ job.pc \in PCs /\ job.pc \in Untouched
      /\ UNCHANGED <<objects, labels, seen>>
      /\ StatusMatch(job.inst, n, job.gw, job.err)
      /\ Unapplied(w, job.inst.deleting)
      /\ AfterReport(w, job, job.again)
  BY PerWorker DEF RestIInv, HonestyIInv, IInv, EntryCurrent, EntryOwn, NothingToReport, PCs, Untouched,
         Unapplied, labelVars
<1>2. /\ job \in Job /\ x \in Names /\ n \in Nodes /\ job.inst \in Object /\ job.again \in BOOLEAN
      /\ job.inst.deleting \in BOOLEAN
  BY <1>1, Busy, WorkerNode DEF Object
<1>3. /\ \A v \in Workers \ {w} : queue'[v] = queue[v]
      /\ queue[w] \subseteq queue'[w]
      /\ worker'[w].pc \notin Untouched
  BY <1>1, <1>2, AfterReportNext
<1>4. CopiesStay(w) /\ (job.inst.deleting => latest' = latest)
  BY <1>1, <1>2, UnappliedStays
<1>5. StepOK(w)
  BY <1>1, NothingToReportOK
<1>6. InDebt(w, x) => Owes(w, x)'
  <2> SUFFICES ASSUME InDebt(w, x) PROVE Owes(w, x)'
    OBVIOUS
  <2>1. CopyOf(w, x) /\ objects[x] \in Object /\ w \in latest[x]
    BY <1>1, <1>2 DEF InDebt, OwnCopy, TypeOK, ApiTypeOK
  <2>2. job.inst.spec.subnet = objects[x].spec.subnet
    BY <1>2, <2>1, EncodedSubnet DEF CopyOf, Object
  <2>3. job.inst.status[n] = objects[x].status[n]
    BY <1>1, <1>2, <2>1 DEF EntryOwn
  <2>4. <<job.gw, job.err>> = Verdict(n, objects[x]) => Told(n, objects[x])
    BY <1>1, <2>2, <2>3 DEF Told, StatusMatch, AlreadyInStatus
  <2>5. job.inst.deleting => w \in latest'[x]
    BY <1>4, <2>1
  <2> QED BY <1>1, <1>2, <2>4, <2>5, ReportDebt
<1> QED BY <1>1, <1>3, <1>4, <1>5, <1>6, BusyRest DEF labelVars

\* A report that changes nothing repeats what had been told.
LEMMA ReportStatusRest ==
  ASSUME RestIInv, NEW w \in Workers, NEW x, x = worker[w].name, ReportStatus(w)
  PROVE  RestStep(w)
<1> DEFINE job == worker[w]
           n == NodeOf(w)
           o == AddToStatus(RemoveFromStatus(job.inst, n), n, job.gw, job.err)
           new == [job EXCEPT !.inst = o]
<1>1. /\ IInv /\ TypeOK /\ OwnCopy(w)
      /\ job.pc = "report" /\ job.pc \in PCs
      /\ UNCHANGED <<labels, seen>>
      /\ \/ Applied(w, "status", o, o.deleting) /\ AfterReport(w, new, job.again)
         \/ Failed(w, "status", o, o.deleting) /\ AfterReport(w, new, TRUE)
  BY PerWorker DEF RestIInv, HonestyIInv, IInv, ReportStatus, PCs, labelVars
<1>2. /\ job \in Job /\ x \in Names /\ n \in Nodes /\ job.inst \in Object /\ job.again \in BOOLEAN
      /\ job.gw \in ShownGateways /\ job.err \in Errors
  BY <1>1, Busy, WorkerNode
<1>3. /\ o \in Object
      /\ o.spec = job.inst.spec /\ o.deleting = job.inst.deleting
      /\ o.status[n] # None
      /\ o.status[n].state.subnet = job.inst.spec.subnet
      /\ o.status[n].state.gateway = job.gw
      /\ o.status[n].error = job.err
  <2> DEFINE inst == job.inst
             gw == job.gw
             err == job.err
             made == AddToStatus(RemoveFromStatus(inst, n), n, gw, err)
  <2>1. /\ made \in Object
        /\ made.spec = inst.spec /\ made.deleting = inst.deleting
        /\ made.status[n] # None
        /\ made.status[n].state.subnet = inst.spec.subnet
        /\ made.status[n].state.gateway = gw
        /\ made.status[n].error = err
    <3>1. n \in Nodes /\ inst \in Object /\ gw \in ShownGateways /\ err \in Errors
      BY <1>2
    <3> HIDE DEF n, inst, gw, err
    <3>2. made \in Object /\ made.spec = inst.spec /\ made.deleting = inst.deleting
      BY <3>1, EntryRight
    <3> DEFINE e == made.status[n]
    <3>3. e # None /\ e.state.subnet = inst.spec.subnet /\ e.state.gateway = gw /\ e.error = err
      BY <3>1, EntryTold
    <3> QED BY <3>2, <3>3
  <2> QED BY <2>1
<1> HIDE DEF o
<1>4. o.deleting \in BOOLEAN
  BY <1>3 DEF Object
<1>5. new \in Job /\ new.name = x /\ new.inst = o
  BY <1>2, <1>3 DEF Job
<1> HIDE DEF new
<1>6. StepOK(w)
  BY <1>1, ReportStatusOK
<1>7. CopiesStay(w) /\ (o.deleting /\ w \in latest[x] /\ objects'[x] = objects[x] => w \in latest'[x])
  BY <1>1, <1>2, <1>3, <1>4, CallStays
<1>8. PICK again \in BOOLEAN :
        /\ AfterReport(w, new, again)
        /\ job.again => again
        /\ again \/ Applied(w, "status", o, o.deleting)
  BY <1>1, <1>2
<1>9. /\ \A v \in Workers \ {w} : queue'[v] = queue[v]
      /\ queue[w] \subseteq queue'[w]
      /\ worker'[w].pc \notin Untouched
  BY <1>1, <1>2, <1>5, <1>8, AfterReportNext
<1>10. InDebt(w, x) => Owes(w, x)'
  <2> SUFFICES ASSUME InDebt(w, x) PROVE Owes(w, x)'
    OBVIOUS
  <2>1. CopyOf(w, x) /\ objects[x] \in Object /\ w \in latest[x] /\ objects'[x] = objects[x]
    BY <1>1, <1>2 DEF InDebt, OwnCopy, TypeOK, ApiTypeOK
  <2>2. job.inst.spec.subnet = objects[x].spec.subnet
    BY <1>2, <2>1, EncodedSubnet DEF CopyOf, Object
  <2>3. ASSUME Applied(w, "status", o, o.deleting)
        PROVE  objects[x].status = o.status
    <3> DEFINE keep == o.deleting
    <3>1. objects'[x] = Put(x, "status", o)
      <4>1. keep \in BOOLEAN /\ Applied(w, "status", o, keep)
        BY <1>4, <2>3
      <4> HIDE DEF keep
      <4> QED BY <1>1, <1>3, <4>1, AppliedEffect
    <3> QED BY <2>1, <3>1 DEF Put, WithStatus, Object
  <2>4. again \/ (<<job.gw, job.err>> = Verdict(n, objects[x]) => Told(n, objects[x]))
    BY <1>3, <1>8, <2>2, <2>3 DEF Told
  <2>5. new.inst.deleting = job.inst.deleting /\ (new.inst.deleting => w \in latest'[x])
    BY <1>3, <1>5, <1>7, <2>1
  <2> QED BY <1>1, <1>2, <1>5, <1>8, <2>4, <2>5, ReportDebt
<1> QED BY <1>1, <1>6, <1>7, <1>9, <1>10, BusyRest DEF labelVars

-----------------------------------------------------------------------------
(***************************************************************************)
(* deleteOperation                                                         *)
(***************************************************************************)
\* The entry goes next.
LEMMA DeRegisterRouteRest ==
  ASSUME RestIInv, NEW w \in Workers, NEW x, x = worker[w].name, DeRegisterRoute(w)
  PROVE  RestStep(w)
<1> DEFINE job == worker[w]
           j == [job EXCEPT !.pc = "forget"]
<1>1. /\ IInv /\ TypeOK
      /\ job.pc = "deregister" /\ job.pc \in PCs
      /\ UNCHANGED <<objects, latest, queue, labels, seen>>
      /\ Goto(w, j)
  BY DEF RestIInv, HonestyIInv, IInv, DeRegisterRoute, PCs, apiVars, labelVars
<1>2. job \in Job
  BY <1>1, Busy
<1>3. j.pc = "forget" /\ j.name = x /\ j.inst = job.inst /\ j.again = job.again /\ j.pc \notin Untouched
  BY <1>2 DEF Job, Untouched
<1>4. worker'[w] = j
  BY <1>1, GotoOthers
<1> HIDE DEF j
<1>5. StepOK(w)
  BY <1>1, DeRegisterRouteOK
<1>6. InDebt(w, x) => Owes(w, x)'
  <2> SUFFICES ASSUME InDebt(w, x) PROVE Owes(w, x)'
    OBVIOUS
  <2>1. Expected(NodeOf(w), x)' <=> Expected(NodeOf(w), x)
    BY <1>1, DoneStays
  <2>2. w \in latest'[x]
    BY <1>1 DEF InDebt
  <2>3. CASE job.again
    BY <1>3, <1>4, <2>2, <2>3 DEF Owes
  <2>4. CASE Concludes(w, x)
    <3>1. ~Expected(NodeOf(w), x)
      BY <1>1, <2>4 DEF Concludes, Untouched
    <3>2. Concludes(w, x)'
      BY <1>3, <1>4, <2>1, <3>1 DEF Concludes
    <3> QED BY <1>3, <1>4, <2>2, <3>2 DEF Owes
  <2> QED BY <2>3, <2>4 DEF InDebt
<1> QED BY <1>1, <1>3, <1>4, <1>5, <1>6, LocalRest

\* A worker that ends leaves no debt of its own, or comes back.
LEMMA EndRest ==
  ASSUME RestIInv, NEW w \in Workers, worker[w].pc \in PCs, NEW x, x = worker[w].name,
         StepOK(w), CopiesStay(w), UNCHANGED labelVars,
         NEW again \in BOOLEAN, Finish(w, again), InDebt(w, x) => again
  PROVE  RestStep(w)
<1>1. IInv /\ TypeOK /\ x \in Names
  BY Busy DEF RestIInv, HonestyIInv, IInv
<1>2. /\ worker'[w] = Idle
      /\ \A v \in Workers \ {w} : queue'[v] = queue[v]
      /\ queue[w] \subseteq queue'[w]
  BY <1>1, Finished
<1>3. again => Owes(w, x)'
  BY <1>1 DEF Finish, Requeue, TypeOK, Owes
<1>4. Idle.pc = "idle" /\ "idle" \notin Untouched
  BY DEF Idle, Untouched
<1> QED BY <1>1, <1>2, <1>3, <1>4, BusyRest

\* The manager fails to remove the route, and the reconciliation comes back.
LEMMA DeRegisterFailsRest ==
  ASSUME RestIInv, NEW w \in Workers, NEW x, x = worker[w].name, DeRegisterFails(w)
  PROVE  RestStep(w)
<1>1. /\ IInv /\ TypeOK /\ worker[w].pc \in PCs
      /\ UNCHANGED objects /\ UNCHANGED labelVars
      /\ Drop(x, w)
      /\ Finish(w, TRUE)
  BY DEF RestIInv, HonestyIInv, IInv, DeRegisterFails, PCs
<1>2. x \in Names
  BY <1>1, Busy
<1>3. CopiesStay(w)
  BY <1>1, <1>2 DEF CopiesStay, Drop, TypeOK, ApiTypeOK
<1>4. StepOK(w)
  BY <1>1, DeRegisterFailsOK
<1> QED BY <1>1, <1>3, <1>4, EndRest

\* Where the entry was to go, it is gone.
LEMMA ForgetStatusRest ==
  ASSUME RestIInv, NEW w \in Workers, NEW x, x = worker[w].name, ForgetStatus(w)
  PROVE  RestStep(w)
<1> DEFINE job == worker[w]
           n == NodeOf(w)
           o == job.inst
<1>1. /\ IInv /\ TypeOK /\ OwnJob(w) /\ OwnCopy(w)
      /\ job.pc = "forget" /\ job.pc \in PCs
      /\ UNCHANGED labelVars
  BY PerWorker DEF RestIInv, HonestyIInv, IInv, ForgetStatus, PCs
<1>2. job \in Job /\ x \in Names /\ n \in Nodes /\ o \in Object /\ job.again \in BOOLEAN
  BY <1>1, Busy, WorkerNode
<1>3. ~Healthy(o, n)
  BY <1>1 DEF OwnJob
<1>4. StepOK(w)
  BY <1>1, ForgetStatusOK
<1>5. ASSUME NEW keep \in BOOLEAN, Applied(w, "status", o, keep), InDebt(w, x)
      PROVE  job.again
  <2>1. objects'[x] = Put(x, "status", o) /\ objects[x] \in Object
    <3> HIDE DEF o
    <3> QED BY <1>1, <1>2, <1>5, AppliedEffect
  <2>2. objects[x].status = o.status
    BY <1>5, <2>1 DEF Put, WithStatus, Object, InDebt
  <2>3. ~Healthy(objects[x], n)
    BY <1>3, <2>2 DEF Healthy
  <2>4. ~Concludes(w, x)
    BY <1>1, <1>5, <2>3 DEF Concludes, Untouched, InDebt, Done
  <2> QED BY <1>5, <2>4 DEF InDebt
<1> HIDE DEF o
<1>6. ASSUME NEW keep \in BOOLEAN, Applied(w, "status", o, keep) \/ Failed(w, "status", o, keep)
      PROVE  CopiesStay(w) /\ (keep /\ w \in latest[x] /\ objects'[x] = objects[x] => w \in latest'[x])
  BY <1>1, <1>2, <1>6, CallStays
<1>7. CASE /\ Applied(w, "status", o, TRUE)
           /\ Goto(w, [job EXCEPT !.pc = "release"])
           /\ UNCHANGED queue
  <2> DEFINE j == [job EXCEPT !.pc = "release"]
  <2>1. worker'[w] = j
    BY <1>1, <1>7, GotoOthers
  <2>2. j.pc = "release" /\ j.name = x /\ j.again = job.again /\ j.pc \notin Untouched
    BY <1>2 DEF Job, Untouched
  <2> HIDE DEF j
  <2>3. CopiesStay(w) /\ (w \in latest[x] /\ objects'[x] = objects[x] => w \in latest'[x])
    BY <1>6, <1>7
  <2>4. InDebt(w, x) => Owes(w, x)'
    BY <1>5, <1>7, <2>1, <2>2, <2>3 DEF Owes, InDebt
  <2> QED BY <1>1, <1>4, <1>7, <2>1, <2>2, <2>3, <2>4, BusyRest
<1>8. CASE Applied(w, "status", o, FALSE) /\ Finish(w, job.again)
  BY <1>1, <1>2, <1>4, <1>5, <1>6, <1>8, EndRest
<1>9. CASE Failed(w, "status", o, FALSE) /\ Finish(w, TRUE)
  BY <1>1, <1>4, <1>6, <1>9, EndRest
<1> QED BY <1>7, <1>8, <1>9 DEF ForgetStatus, o

\* Nothing is owed at the finalizer but to come back.
LEMMA ReleaseFinalizerRest ==
  ASSUME RestIInv, NEW w \in Workers, NEW x, x = worker[w].name, ReleaseFinalizer(w)
  PROVE  RestStep(w)
<1> DEFINE job == worker[w]
           o == [job.inst EXCEPT !.finalizer = FALSE]
<1>1. /\ IInv /\ TypeOK /\ job.pc = "release" /\ job.pc \in PCs
      /\ UNCHANGED labelVars
      /\ Applied(w, "object", o, FALSE) \/ Failed(w, "object", o, FALSE)
  BY DEF RestIInv, HonestyIInv, IInv, ReleaseFinalizer, PCs
<1>2. job \in Job /\ x \in Names /\ job.inst \in Object /\ job.again \in BOOLEAN
  BY <1>1, Busy
<1>3. o \in Object
  BY <1>2 DEF Object
<1>4. PICK again \in BOOLEAN : Finish(w, again) /\ (job.again => again)
  BY <1>2 DEF ReleaseFinalizer
<1> HIDE DEF o
<1>5. CopiesStay(w)
  BY <1>1, <1>3, CallStays
<1>6. StepOK(w)
  BY <1>1, ReleaseFinalizerOK
<1>7. InDebt(w, x) => job.again
  BY <1>1 DEF InDebt, Concludes, Untouched
<1> QED BY <1>1, <1>4, <1>5, <1>6, <1>7, EndRest

\* Every step of a worker that has begun.
LEMMA StepsRest ==
  ASSUME RestIInv, NEW w \in Workers, Step(w)
  PROVE  RestStep(w)
<1>1. PICK x : x = worker[w].name
  OBVIOUS
<1> QED BY <1>1, StoreFinalizerRest, RouteRest, NothingToReportRest, ReportStatusRest,
           DeRegisterRouteRest, DeRegisterFailsRest, ForgetStatusRest, ReleaseFinalizerRest DEF Step

-----------------------------------------------------------------------------
(***************************************************************************)
(* The decisions of reconcileImpl                                          *)
(***************************************************************************)
\* There is something left to do for the node of w, which knows the news of x.
Due(w, x) ==
  /\ NodeOf(w) \in latest[x]
  /\ objects[x] # None
  /\ ~Done(NodeOf(w), x)

\* What a reconciliation that begins has in common with the others.
LEMMA BeginRest ==
  ASSUME RestIInv, NEW w \in Workers, worker[w].pc = "idle", NEW x \in Names,
         StepOK(w), CopiesStay(w), UNCHANGED labelVars,
         \A v \in Workers \ {w} : queue'[v] = queue[v],
         queue[w] \ {x} \subseteq queue'[w],
         EntryOwn(w)',
         Due(w, x) => Owes(w, x)'
  PROVE  RestStep(w)
<1>1. worker[w].name = None
  <2>1. IInv /\ worker[w] \in Job \union {Idle}
    BY DEF RestIInv, HonestyIInv, IInv, TypeOK
  <2>2. worker[w] \notin Job
    BY DEF Job, PCs
  <2>3. Idle.name = None
    BY DEF Idle
  <2> QED BY <2>1, <2>2, <2>3
<1>2. ASSUME NEW y \in Names, NodeOf(w) \in latest'[y], objects[y] # None, ~Done(NodeOf(w), y), Owes(w, y)
      PROVE  Owes(w, y)'
  <2>1. y \in queue[w]
    BY <1>1, <1>2, NoneAssumption DEF Owes
  <2>2. NodeOf(w) \in latest[y]
    <3>1. NodeOf(w) \in Clients \ {w}
      BY WorkerNode, ClientAssumption DEF Clients
    <3> QED BY <1>2, <3>1 DEF StepOK, Undisturbed
  <2>3. CASE y # x
    BY <2>1, <2>3 DEF Owes
  <2>4. CASE y = x
    BY <1>2, <2>2, <2>4 DEF Due
  <2> QED BY <2>3, <2>4
<1> QED BY <1>2 DEF RestStep

\* A request that ends where it began goes back, or nothing was left to do.
LEMMA SkipRest ==
  ASSUME RestIInv, NEW w \in Workers, worker[w].pc = "idle", NEW x \in Names, x \in queue[w],
         NEW again \in BOOLEAN, Skip(w, x, again), StepOK(w),
         Due(w, x) => again
  PROVE  RestStep(w)
<1>1. /\ TypeOK
      /\ UNCHANGED <<objects, latest, worker>> /\ UNCHANGED labelVars
      /\ queue' = IF again THEN queue ELSE [queue EXCEPT ![w] = @ \ {x}]
  BY DEF RestIInv, HonestyIInv, IInv, Skip
<1>2. CopiesStay(w) /\ EntryOwn(w)'
  BY <1>1 DEF CopiesStay, RestIInv, EntryCurrent, EntryOwn
<1>3. /\ \A v \in Workers \ {w} : queue'[v] = queue[v]
      /\ queue[w] \ {x} \subseteq queue'[w]
      /\ again => Owes(w, x)'
  BY <1>1 DEF TypeOK, Owes
<1> QED BY <1>1, <1>2, <1>3, BeginRest

\* A job that starts on what the cache has, and will do what is to be done.
LEMMA StartRest ==
  ASSUME RestIInv, NEW w \in Workers, worker[w].pc = "idle", NEW x \in Names,
         NEW job \in Job, Start(w, x, job), StepOK(w),
         NEW n, n = NodeOf(w), NEW o, o = cache[n][x], job.name = x,
         job.pc \in Untouched => job.inst.status[n] = o.status[n],
         Due(w, x) =>
           \/ job.again
           \/ IF Expected(n, x)
              THEN job.pc \in Untouched /\ <<job.gw, job.err>> = Verdict(n, o)
              ELSE job.pc \in {"deregister", "forget"} \/ (job.pc = "report" /\ job.inst.deleting)
  PROVE  RestStep(w)
<1>1. /\ TypeOK /\ CacheCurrent
      /\ UNCHANGED objects /\ UNCHANGED labelVars
      /\ queue' = [queue EXCEPT ![w] = @ \ {x}]
      /\ latest' = [latest EXCEPT ![x] = IF n \in @ THEN @ \union {w} ELSE @]
      /\ Goto(w, job)
      /\ n \in Nodes
  BY WorkerNode DEF RestIInv, HonestyIInv, IInv, Start
<1>2. worker'[w] = job
  BY <1>1, GotoOthers
<1>3. CopiesStay(w)
  BY <1>1 DEF CopiesStay, TypeOK, ApiTypeOK
<1>4. /\ \A v \in Workers \ {w} : queue'[v] = queue[v]
      /\ queue[w] \ {x} \subseteq queue'[w]
  BY <1>1 DEF TypeOK
<1>5. \A y \in Names : w \in latest'[y] => y = x
  BY <1>2 DEF StepOK, OwnCopy, CopyOf
<1>6. w \notin latest[x]
  BY PerWorker, IdleOwnsNothing DEF RestIInv, HonestyIInv, IInv
<1>7. n \in latest[x] => w \in latest'[x] /\ objects[x] = o
  BY <1>1 DEF TypeOK, ApiTypeOK, CacheCurrent
<1>8. w \in latest'[x] => n \in latest[x]
  BY <1>1, <1>6 DEF TypeOK, ApiTypeOK
<1>9. EntryOwn(w)'
  BY <1>1, <1>2, <1>5, <1>7, <1>8 DEF EntryOwn
<1>10. ASSUME Due(w, x)
       PROVE  Owes(w, x)'
  <2>1. w \in latest'[x] /\ objects[x] = o
    BY <1>7, <1>10 DEF Due
  <2>2. CASE job.again
    BY <1>2, <2>1, <2>2 DEF Owes
  <2>3. CASE ~job.again
    <3>1. Expected(n, x)' <=> Expected(n, x)
      BY <1>1, DoneStays DEF labelVars
    <3>2. Verdict(n, objects[x])' = Verdict(n, o)
      BY <1>1, <2>1 DEF Verdict, IsProtected, NextHop, Routable
    <3>3. Concludes(w, x)'
      BY <1>2, <1>10, <2>3, <3>1, <3>2 DEF Concludes
    <3> QED BY <1>2, <2>1, <3>3 DEF Owes
  <2> QED BY <2>2, <2>3
<1> QED BY <1>1, <1>3, <1>4, <1>9, <1>10, BeginRest

\* A job that goes straight to the report tells the verdict, sees a deletion, or
\* comes back.
LEMMA ReportRest ==
  ASSUME RestIInv, NEW w \in Workers, worker[w].pc = "idle", NEW x \in Names,
         NEW n, n = NodeOf(w), NEW o \in Object, o = cache[n][x], StepOK(w),
         NEW gw \in ShownGateways, NEW err \in Errors, NEW again \in BOOLEAN,
         Start(w, x, NewJob(x, "report", o, gw, err, again)),
         Due(w, x) =>
           \/ again
           \/ IF Expected(n, x) THEN <<gw, err>> = Verdict(n, o) ELSE o.deleting
  PROVE  RestStep(w)
<1> DEFINE job == NewJob(x, "report", o, gw, err, again)
<1>1. /\ job \in Job /\ job.pc = "report" /\ job.name = x /\ job.inst = o /\ job.gw = gw
      /\ job.err = err /\ job.again = again
  <2>1. "report" \in PCs
    BY DEF PCs
  <2> QED BY <2>1, NewJobType DEF NewJob
<1>2. "report" \in Untouched
  BY DEF Untouched
<1> HIDE DEF job
<1>3. Start(w, x, job)
  BY DEF job
<1> QED BY <1>1, <1>2, <1>3, StartRest

\* A node that is deselected, and still shows a route in place, once passed the
\* checks, and still does.
LEMMA DepartingPasses ==
  ASSUME RestIInv, NEW w \in Workers, NEW x \in Names, Due(w, x),
         NEW n, n = NodeOf(w), NEW o, o = cache[n][x],
         Departing(n, o), o.spec.selectors # BadSelectors
  PROVE  ~Expected(n, x) /\ ~IsProtected(o) /\ Routable(n, o)
<1>1. o = objects[x] /\ n \in Nodes
  BY WorkerNode DEF RestIInv, HonestyIInv, IInv, CacheCurrent, Due
<1>2. ~Expected(n, x)
  BY <1>1 DEF Expected, Departing
<1>3. Healthy(o, n)
  BY <1>1, <1>2 DEF Due, Done
<1>4. Shows(n, o)
  BY <1>1, <1>3 DEF RestIInv, HonestyIInv, ReportsPassed, HealthyNodes, Due
<1> QED BY <1>2, <1>4 DEF Shows, Passed

\* An early return past the selectors.  Where it keeps silent the node is selected.
LEMMA RefuseRest ==
  ASSUME RestIInv, NEW w \in Workers, worker[w].pc = "idle", NEW x \in Names, x \in queue[w],
         NEW n, n = NodeOf(w), NEW o \in Object, o = cache[n][x], StepOK(w), PastSelectors(n, o),
         NEW gw \in ShownGateways, NEW err \in Errors, NEW again \in BOOLEAN,
         Refuse(w, x, o, gw, err, again),
         \/ again
         \/ /\ IsProtected(o) \/ ~Routable(n, o)
            /\ <<gw, err>> = Verdict(n, o) \/ Verdict(n, o)[1] = None
  PROVE  RestStep(w)
<1>1. CASE Departing(n, o)
  <2>1. Skip(w, x, again)
    BY <1>1 DEF Refuse
  <2>2. Due(w, x) => again
    BY <1>1, DepartingPasses DEF PastSelectors
  <2> QED BY <2>1, <2>2, SkipRest
<1>2. CASE ~Departing(n, o)
  <2>1. Start(w, x, NewJob(x, "report", o, gw, err, again))
    BY <1>2 DEF Refuse
  <2>2. ASSUME Due(w, x), ~again
        PROVE  IF Expected(n, x) THEN <<gw, err>> = Verdict(n, o) ELSE o.deleting
    <3>1. o = objects[x]
      BY <2>2, WorkerNode DEF RestIInv, HonestyIInv, IInv, CacheCurrent, Due
    <3>2. Selected(n, o)
      BY <1>2 DEF Departing, PastSelectors
    <3>3. Expected(n, x) => Verdict(n, o)[1] # None
      BY <2>2, <3>1 DEF Due, Done, Told
    <3> QED BY <2>2, <3>1, <3>2, <3>3 DEF Expected
  <2> QED BY <2>1, <2>2, ReportRest
<1> QED BY <1>1, <1>2

\* The entry is taken out if there is one.
LEMMA WithdrawRest ==
  ASSUME RestIInv, NEW w \in Workers, worker[w].pc = "idle", NEW x \in Names, x \in queue[w],
         NEW n, n = NodeOf(w), NEW o \in Object, o = cache[n][x], StepOK(w), Withdraw(w, x, n, o)
  PROVE  RestStep(w)
<1> DEFINE gw == NextHop(n, o)
           again == IsChanged(o, n, gw)
           job == NewJob(x, "deregister", RemoveFromStatus(o, n), gw, "", again)
<1>1. n \in Nodes /\ (Due(w, x) => o = objects[x])
  BY WorkerNode DEF RestIInv, HonestyIInv, IInv, CacheCurrent, Due
<1>2. ASSUME ~again
      PROVE  Due(w, x) => ~Expected(n, x)
  BY <1>1, <1>2 DEF Withdraw, MustWithdraw, Departing, PastProtected, PastSelectors, Expected
<1>3. CASE Skip(w, x, FALSE) /\ ~AlreadyInStatus(o, n)
  <2>1. ~again
    BY <1>3 DEF IsChanged
  <2>2. ~Due(w, x)
    BY <1>1, <1>2, <1>3, <2>1 DEF Due, Done, Healthy, AlreadyInStatus
  <2> QED BY <1>3, <2>2, SkipRest
<1>4. CASE Start(w, x, job)
  <2>1. /\ gw \in ShownGateways /\ again \in BOOLEAN
        /\ RemoveFromStatus(o, n) \in Object
        /\ "deregister" \in PCs /\ "" \in Errors
    <3>1. ZeroGw \in ShownGateways /\ "" \in Errors /\ "deregister" \in PCs
      BY DEF ShownGateways, Errors, PCs
    <3>2. gw \in ShownGateways
      BY <1>1, <3>1, RouteTypes
    <3>3. RemoveFromStatus(o, n) \in Object
      BY <1>1, <3>1, ObjectOps
    <3> QED BY <3>1, <3>2, <3>3 DEF IsChanged, AlreadyInStatus
  <2>2. /\ job \in Job /\ job.pc = "deregister" /\ job.name = x /\ job.again = again
    <3> HIDE DEF again, gw
    <3>1. job \in Job
      BY <2>1, NewJobType
    <3> QED BY <2>1, <3>1 DEF NewJob
  <2> HIDE DEF job, again
  <2>3. "deregister" \notin Untouched
    BY DEF Untouched
  <2> QED BY <1>2, <1>4, <2>2, <2>3, StartRest
<1> QED BY <1>3, <1>4 DEF Withdraw

\* The route is to be provided, and its gateway is the verdict.
LEMMA ProvideRest ==
  ASSUME RestIInv, NEW w \in Workers, worker[w].pc = "idle", NEW x \in Names,
         NEW n, n = NodeOf(w), NEW o \in Object, o = cache[n][x], StepOK(w), Provide(w, x, n, o)
  PROVE  RestStep(w)
<1> DEFINE gw == NextHop(n, o)
<1>1. n \in Nodes /\ (Due(w, x) => o = objects[x])
  BY WorkerNode DEF RestIInv, HonestyIInv, IInv, CacheCurrent, Due
<1>2. PICK pc \in {"register", "finalizer"} : Start(w, x, NewJob(x, pc, o, gw, "", FALSE))
  BY DEF Provide
<1>3. Due(w, x) => Expected(n, x)
  BY <1>1 DEF Provide, MustWithdraw, Departing, PastProtected, PastSelectors, Expected
<1>4. Verdict(n, o) = <<gw, "">>
  <2>1. /\ o.spec.selectors # BadSelectors /\ ~IsProtected(o) /\ Routable(n, o)
    BY DEF Provide, PastProtected, PastSelectors
  <2>2. o.spec.gateway \notin Malformed /\ NextHop(n, o) # NilGw
    BY <1>1, <2>1, GatewayAssumption, NoneAssumption DEF Routable, NextHop
  <2> QED BY <2>1, <2>2 DEF Verdict
<1> DEFINE job == NewJob(x, pc, o, gw, "", FALSE)
<1>5. gw \in ShownGateways /\ pc \in PCs /\ "" \in Errors /\ pc \in Untouched
  <2>1. ZeroGw \in ShownGateways /\ "" \in Errors /\ pc \in PCs /\ pc \in Untouched
    BY DEF ShownGateways, Errors, PCs, Untouched
  <2> QED BY <1>1, <2>1, RouteTypes
<1> HIDE DEF gw
<1>6. job \in Job /\ job.pc = pc /\ job.name = x /\ job.inst = o /\ job.gw = gw /\ job.err = ""
  <2>1. job \in Job
    BY <1>5, NewJobType
  <2> QED BY <2>1 DEF NewJob
<1>7. Start(w, x, job)
  BY <1>2
<1> HIDE DEF job
<1> QED BY <1>3, <1>4, <1>5, <1>6, <1>7, StartRest

\* All outcomes.
LEMMA BeginsRest ==
  ASSUME RestIInv, NEW w \in Workers, NEW x \in Names, Begin(w, x)
  PROVE  RestStep(w)
<1> DEFINE n == NodeOf(w)
           o == cache[n][x]
<1>1. /\ worker[w].pc = "idle" /\ x \in queue[w] /\ StepOK(w)
      /\ TypeOK /\ n \in Nodes
      /\ Due(w, x) => o = objects[x]
  BY BeginOK, WorkerNode DEF RestIInv, HonestyIInv, IInv, CacheCurrent, Begin, Due
<1>2. CASE o = None /\ Skip(w, x, FALSE)
  <2>1. ~Due(w, x)
    BY <1>1, <1>2 DEF Due
  <2> QED BY <1>1, <1>2, <2>1, SkipRest
<1>3. CASE Skip(w, x, TRUE)
  BY <1>1, <1>3, SkipRest
<1>4. ASSUME o # None
      PROVE  o \in Object
  BY <1>1, <1>4 DEF TypeOK
<1>5. /\ ZeroGw \in ShownGateways /\ NilGw \in ShownGateways
      /\ {"", "overlap", "nextHop", "list", "get"} \subseteq Errors
  BY DEF ShownGateways, Errors
<1> HIDE DEF o, n
<1>6. CASE o # None /\ WrongSelector(w, x, o)
  <2>1. Start(w, x, NewJob(x, "report", o, ZeroGw, "", FALSE)) /\ o.spec.selectors = BadSelectors
    BY <1>6 DEF WrongSelector
  <2>2. Due(w, x) => IF Expected(n, x) THEN <<ZeroGw, "">> = Verdict(n, o) ELSE o.deleting
    BY <1>1, <2>1 DEF Verdict, Expected
  <2> QED BY <1>1, <1>4, <1>5, <1>6, <2>1, <2>2, ReportRest DEF o, n
<1>7. CASE o # None /\ NodeListFails(w, x, o)
  <2>1. Start(w, x, NewJob(x, "report", o, ZeroGw, "list", TRUE))
    BY <1>7 DEF NodeListFails
  <2> QED BY <1>1, <1>4, <1>5, <1>7, <2>1, ReportRest DEF o, n
<1>8. CASE o # None /\ NotSelected(w, x, n, o)
  <2>1. Skip(w, x, FALSE)
    BY <1>8 DEF NotSelected
  <2>2. ~Due(w, x)
    BY <1>1, <1>8 DEF NotSelected, Due, Done, Expected, Healthy, AlreadyInStatus, n
  <2> QED BY <1>1, <2>1, <2>2, SkipRest
<1>9. CASE o # None /\ Overlaps(w, x, n, o)
  <2>1. /\ Refuse(w, x, o, ZeroGw, "overlap", FALSE) /\ PastSelectors(n, o) /\ IsProtected(o)
        /\ <<ZeroGw, "overlap">> = Verdict(n, o)
    BY <1>9 DEF Overlaps, PastSelectors, Verdict
  <2> QED BY <1>1, <1>4, <1>5, <1>9, <2>1, RefuseRest DEF o, n
<1>10. CASE o # None /\ InvalidGateway(w, x, n, o)
  <2>1. /\ Refuse(w, x, o, NilGw, "", FALSE) /\ PastSelectors(n, o) /\ ~Routable(n, o)
        /\ Verdict(n, o)[1] = None
    BY <1>1, <1>10, GatewayAssumption, NoneAssumption
       DEF InvalidGateway, PastProtected, PastSelectors, Routable, Verdict
  <2> QED BY <1>1, <1>4, <1>5, <1>10, <2>1, RefuseRest DEF o, n
<1>11. CASE o # None /\ RouteGetFails(w, x, n, o)
  <2>1. Refuse(w, x, o, NilGw, "get", TRUE) /\ PastSelectors(n, o)
    BY <1>11 DEF RouteGetFails, PastProtected
  <2> QED BY <1>1, <1>4, <1>5, <1>11, <2>1, RefuseRest DEF o, n
<1>12. CASE o # None /\ NotDirectlyRoutable(w, x, n, o)
  <2>1. /\ Refuse(w, x, o, o.spec.gateway, "nextHop", FALSE) /\ PastSelectors(n, o)
        /\ o.spec.gateway \in Gateways \ ({None} \union Malformed \union Direct[n])
    BY <1>4, <1>12 DEF NotDirectlyRoutable, PastProtected, Object, RouteSpec
  <2>2. ~Routable(n, o) /\ NextHop(n, o) # NilGw /\ o.spec.gateway \in ShownGateways
    BY <2>1, GatewayAssumption DEF Routable, NextHop, ShownGateways
  <2>3. <<o.spec.gateway, "nextHop">> = Verdict(n, o)
    BY <1>12, <2>1, <2>2 DEF NotDirectlyRoutable, PastProtected, PastSelectors, Verdict
  <2> QED BY <1>1, <1>4, <1>5, <1>12, <2>1, <2>2, <2>3, RefuseRest DEF o, n
<1>13. CASE o # None /\ NoNextHop(w, x, n, o)
  <2>1. Refuse(w, x, o, NilGw, "", TRUE) /\ PastSelectors(n, o)
    BY <1>13 DEF NoNextHop, PastProtected
  <2> QED BY <1>1, <1>4, <1>5, <1>13, <2>1, RefuseRest DEF o, n
<1>14. CASE o # None /\ Withdraw(w, x, n, o)
  BY <1>1, <1>4, <1>14, WithdrawRest DEF o, n
<1>15. CASE o # None /\ Provide(w, x, n, o)
  BY <1>1, <1>4, <1>15, ProvideRest DEF o, n
<1> QED BY <1>2, <1>3, <1>6, <1>7, <1>8, <1>9, <1>10, <1>11, <1>12, <1>13, <1>14, <1>15
        DEF Begin, o, n

-----------------------------------------------------------------------------
(***************************************************************************)
(* Events                                                                  *)
(***************************************************************************)
\* What leaves the workers alone, drops nothing from a queue, and changes what
\* a node knows of its labels only where it fills a queue.
LEMMA EventRest ==
  ASSUME RestIInv, HonestyIInv', NodesThere',
         UNCHANGED worker,
         \A w \in Workers : queue[w] \subseteq queue'[w] /\ Undisturbed(w),
         \A n \in Nodes, x \in Names : n \in latest'[x] =>
           \/ /\ n \in latest[x] /\ objects'[x] = objects[x]
              /\ \A w \in Workers : w \in latest[x] => w \in latest'[x]
              /\ seen'[n][n] = seen[n][n]
           \/ objects'[x] = None
           \/ \E w \in Workers : NodeOf(w) = n /\ x \in queue'[w]
  PROVE  RestIInv'
<1>1. EntryCurrent'
  BY DEF RestIInv, EntryCurrent, Undisturbed
<1>2. ASSUME NEW n \in Nodes, NEW x \in Names, n \in latest'[x], objects'[x] # None, ~Done(n, x)'
      PROVE  \E w \in Workers : NodeOf(w) = n /\ Owes(w, x)'
  <2>1. CASE /\ n \in latest[x] /\ objects'[x] = objects[x]
             /\ \A w \in Workers : w \in latest[x] => w \in latest'[x]
             /\ seen'[n][n] = seen[n][n]
    <3>1. ~Done(n, x)
      BY <1>2, <2>1, DoneStays
    <3>2. PICK w \in Workers : NodeOf(w) = n /\ Owes(w, x)
      BY <1>2, <2>1, <3>1 DEF RestIInv, Owed
    <3>3. Owes(w, x)'
      BY <2>1, <3>2, OwesStays
    <3> QED BY <3>2, <3>3
  <2>2. CASE \E w \in Workers : NodeOf(w) = n /\ x \in queue'[w]
    BY <2>2 DEF Owes
  <2> QED BY <1>2, <2>1, <2>2
<1>3. Owed'
  BY <1>2 DEF Owed
<1> QED BY <1>1, <1>3 DEF RestIInv

\* The administrator's edits are news to everybody.
LEMMA UserRest ==
  ASSUME RestIInv, User, HonestyIInv'
  PROVE  RestIInv'
<1>1. /\ TypeOK
      /\ UNCHANGED <<queue, worker, labels, seen>>
  BY DEF RestIInv, HonestyIInv, IInv, User, UserCreates, UserEdits, UserDeletes, podVars, labelVars
<1>2. PICK x \in Names : UserStep(x)
  BY <1>1, UserSteps
<1>3. /\ latest'[x] = {}
      /\ \A y \in Names \ {x} : objects'[y] = objects[y] /\ latest'[y] = latest[y]
  BY <1>1, <1>2 DEF UserStep, TypeOK, ApiTypeOK
<1>4. \A w \in Workers : Undisturbed(w)
  BY <1>3 DEF Undisturbed
<1>5. NodesThere'
  BY <1>1 DEF RestIInv, NodesThere
<1> QED BY <1>1, <1>3, <1>4, <1>5, EventRest

\* The news come with a request.
LEMMA ObserveRest ==
  ASSUME "route" \in Controllers, RestIInv, NEW n \in Nodes, NEW x \in Names, Observe(n, x), HonestyIInv'
  PROVE  RestIInv'
<1> DEFINE v == <<n, "route">>
<1>1. /\ TypeOK
      /\ UNCHANGED <<objects, worker, labels, seen>>
      /\ latest' = [latest EXCEPT ![x] = @ \union {n}]
      /\ queue' = [queue EXCEPT ![v] = @ \union {x}]
  BY DEF RestIInv, HonestyIInv, IInv, Observe, labelVars
<1>2. v \in Workers /\ NodeOf(v) = n
  BY DEF Workers, NodeOf
<1> HIDE DEF v
<1>3. x \in queue'[v] /\ \A w \in Workers : queue[w] \subseteq queue'[w]
  BY <1>1, <1>2 DEF TypeOK
<1>4. ASSUME NEW w \in Workers
      PROVE  Undisturbed(w)
  <2>1. w # n
    BY WorkerNode, ClientAssumption
  <2> QED BY <1>1, <2>1 DEF Undisturbed, TypeOK, ApiTypeOK
<1>5. ASSUME NEW m \in Nodes, NEW y \in Names, m \in latest'[y]
      PROVE  \/ /\ m \in latest[y]
                /\ \A w \in Workers : w \in latest[y] => w \in latest'[y]
             \/ \E w \in Workers : NodeOf(w) = m /\ y \in queue'[w]
  BY <1>1, <1>2, <1>3, <1>5 DEF TypeOK, ApiTypeOK
<1>6. NodesThere'
  BY <1>1 DEF RestIInv, NodesThere
<1> QED BY <1>1, <1>3, <1>4, <1>5, <1>6, EventRest

\* New labels of the own Node submit every StaticRoute in the cache.
LEMMA ObserveNodeRest ==
  ASSUME LabelNews, RestIInv, NEW n \in Nodes, NEW m \in Nodes, ObserveNode(n, m), HonestyIInv'
  PROVE  RestIInv'
<1> DEFINE v == <<n, "label">>
           listed == {x \in Names : cache[n][x] # None}
<1>1. /\ TypeOK /\ CacheCurrent
      /\ UNCHANGED <<objects, latest, cache, worker, labels>>
      /\ seen[n][m] # labels[m]
      /\ seen' = [seen EXCEPT ![n][m] = labels[m]]
      /\ queue' = IF LabelsChanged(seen[n][m], labels[m])
                  THEN [queue EXCEPT ![v] = @ \union listed]
                  ELSE queue
  BY DEF RestIInv, HonestyIInv, IInv, ObserveNode, apiVars
<1>2. LabelsChanged(seen[n][m], labels[m])
  <2>1. seen[n][m] \in Labels /\ labels[m] \in Labels
    BY <1>1 DEF RestIInv, NodesThere, TypeOK
  <2> QED BY <1>1, <2>1 DEF LabelNews
<1>3. v \in Workers /\ NodeOf(v) = n
  BY DEF LabelNews, Workers, NodeOf
<1> HIDE DEF v, listed
<1>4. listed \subseteq queue'[v] /\ \A w \in Workers : queue[w] \subseteq queue'[w]
  BY <1>1, <1>2, <1>3 DEF TypeOK
<1>5. ASSUME NEW k \in Nodes, NEW x \in Names, k \in latest'[x]
      PROVE  \/ k \in latest[x] /\ seen'[k][k] = seen[k][k]
             \/ objects'[x] = None
             \/ \E w \in Workers : NodeOf(w) = k /\ x \in queue'[w]
  <2>1. CASE k # n
    BY <1>1, <1>5, <2>1 DEF TypeOK
  <2>2. CASE k = n
    BY <1>1, <1>3, <1>4, <1>5, <2>2 DEF CacheCurrent, listed
  <2> QED BY <2>1, <2>2
<1>6. \A w \in Workers : Undisturbed(w)
  BY <1>1 DEF Undisturbed
<1>7. NodesThere'
  BY <1>1 DEF RestIInv, NodesThere, TypeOK
<1> QED BY <1>1, <1>4, <1>5, <1>6, <1>7, EventRest

\* A new pod has every StaticRoute in its queue; the others do not notice.
LEMMA RestartRest ==
  ASSUME "route" \in Controllers, RestIInv, NEW n \in Nodes, Restart(n), HonestyIInv'
  PROVE  RestIInv'
<1> DEFINE v == <<n, "route">>
<1>1. /\ TypeOK
      /\ UNCHANGED <<objects, labels>>
      /\ worker' = [w \in Workers |-> IF NodeOf(w) = n THEN Idle ELSE worker[w]]
      /\ seen' = [seen EXCEPT ![n] = labels]
      /\ queue' = [w \in Workers |->
                     IF NodeOf(w) # n THEN queue[w]
                     ELSE IF w[2] = "route" THEN {x \in Names : objects[x] # None} ELSE {}]
      /\ latest' = [x \in Names |-> HeldElsewhere(n, x) \union {n}]
  BY DEF RestIInv, HonestyIInv, IInv, Restart, Die, ListAll
<1>2. v \in Workers /\ NodeOf(v) = n /\ v[2] = "route"
  BY DEF Workers, NodeOf
<1> HIDE DEF v
<1>3. \A x \in Names : objects[x] # None => x \in queue'[v]
  BY <1>1, <1>2
<1>4. ASSUME NEW w \in Workers, NodeOf(w) # n
      PROVE  /\ worker'[w] = worker[w] /\ queue'[w] = queue[w]
             /\ \A x \in Names : w \in latest'[x] <=> w \in latest[x]
  <2>1. w # n /\ w \in Readers
    BY WorkerNode, ClientAssumption
  <2> QED BY <1>1, <1>4, <2>1 DEF HeldElsewhere
<1>5. ASSUME NEW w \in Workers, NodeOf(w) = n
      PROVE  worker'[w] = Idle /\ \A x \in Names : w \notin latest'[x]
  <2>1. w # n /\ w \in Readers
    BY WorkerNode, ClientAssumption
  <2> QED BY <1>1, <1>5, <2>1 DEF HeldElsewhere
<1>6. NodesThere'
  BY <1>1 DEF RestIInv, NodesThere, TypeOK
<1>7. EntryCurrent'
  <2> SUFFICES ASSUME NEW w \in Workers PROVE EntryOwn(w)'
    BY DEF EntryCurrent, EntryOwn
  <2>1. CASE NodeOf(w) = n
    BY <1>5, <2>1 DEF EntryOwn
  <2>2. CASE NodeOf(w) # n
    BY <1>1, <1>4, <2>2 DEF EntryOwn, RestIInv, EntryCurrent
  <2> QED BY <2>1, <2>2
<1>8. ASSUME NEW m \in Nodes, NEW x \in Names, m \in latest'[x], objects'[x] # None, ~Done(m, x)'
      PROVE  \E w \in Workers : NodeOf(w) = m /\ Owes(w, x)'
  <2>1. CASE m = n
    BY <1>1, <1>2, <1>3, <1>8, <2>1 DEF Owes
  <2>2. CASE m # n
    <3>1. m \in latest[x] /\ seen'[m][m] = seen[m][m]
      BY <1>1, <1>8, <2>2 DEF HeldElsewhere, TypeOK
    <3>2. ~Done(m, x)
      BY <1>1, <1>8, <3>1, DoneStays
    <3>3. PICK w \in Workers : NodeOf(w) = m /\ Owes(w, x)
      BY <1>1, <1>8, <3>1, <3>2 DEF RestIInv, Owed
    <3>4. /\ worker'[w] = worker[w] /\ queue'[w] = queue[w]
          /\ w \in latest'[x] <=> w \in latest[x]
      BY <1>4, <2>2, <3>3
    <3>5. Owes(w, x)'
      BY <1>1, <3>1, <3>3, <3>4, OwesStays
    <3> QED BY <3>3, <3>5
  <2> QED BY <2>1, <2>2
<1>9. Owed'
  BY <1>8 DEF Owed
<1> QED BY <1>6, <1>7, <1>9 DEF RestIInv

-----------------------------------------------------------------------------
(***************************************************************************)
(* The theorems                                                            *)
(***************************************************************************)
\* RestIInv is inductive.
LEMMA RestNext ==
  ASSUME OwnRoutes, LabelNews, RestIInv, [Next]_vars
  PROVE  RestIInv'
<1>1. HonestyIInv'
  BY HonestyNext DEF RestIInv
<1>2. ASSUME NEW w \in Workers, Step(w) \/ \E x \in Names : Begin(w, x)
      PROVE  RestIInv'
  BY <1>1, <1>2, StepsRest, BeginsRest, RestStepOK
<1>3. ASSUME NEW n \in Nodes, NEW x \in Names, Observe(n, x)
      PROVE  RestIInv'
  BY <1>1, <1>3, ObserveRest DEF OwnRoutes
<1>4. ASSUME NEW n \in Nodes, NEW m \in Nodes, ObserveNode(n, m)
      PROVE  RestIInv'
  BY <1>1, <1>4, ObserveNodeRest
<1>5. ASSUME UNCHANGED <<objects, latest, worker, seen>>, NodesThere',
             \A w \in Workers : queue[w] \subseteq queue'[w]
      PROVE  RestIInv'
  BY <1>1, <1>5, EventRest DEF Undisturbed
<1>6. ASSUME NEW w \in Workers, NEW x \in Names, Resync(w, x)
      PROVE  RestIInv'
  <2>1. \A v \in Workers : queue[v] \subseteq queue'[v]
    BY <1>6 DEF Resync, RestIInv, HonestyIInv, IInv, TypeOK
  <2> QED BY <1>5, <1>6, <2>1 DEF Resync, apiVars, labelVars, RestIInv, NodesThere
<1>7. ASSUME NEW n \in Nodes, Relabel(n)
      PROVE  RestIInv'
  <2>1. PICK l \in Labels : labels' = [labels EXCEPT ![n] = l]
    BY <1>7 DEF Relabel
  <2>2. NodesThere'
    BY <1>7, <2>1, NoneAssumption DEF Relabel, RestIInv, HonestyIInv, IInv, TypeOK, NodesThere
  <2> QED BY <1>5, <1>7, <2>2 DEF Relabel, apiVars, podVars
<1>8. ASSUME NEW n \in Nodes, Restart(n)
      PROVE  RestIInv'
  BY <1>1, <1>8, RestartRest DEF OwnRoutes
<1>9. CASE User
  BY <1>1, <1>9, UserRest
<1>10. CASE UNCHANGED vars
  BY <1>5, <1>10 DEF vars, RestIInv, NodesThere
<1> QED BY <1>2, <1>3, <1>4, <1>6, <1>7, <1>8, <1>9, <1>10 DEF Next, Watch, Disturbance

\* There is nothing to do at first.
LEMMA RestInit == Init => RestIInv
<1> SUFFICES ASSUME Init PROVE RestIInv
  OBVIOUS
<1>1. /\ \A x \in Names : objects[x] = None /\ latest[x] = Nodes
      /\ labels \in [Nodes -> Labels]
      /\ seen = [n \in Nodes |-> labels]
  BY DEF Init, ApiInit
<1>2. EntryCurrent
  BY <1>1, WorkerNode, ClientAssumption DEF EntryCurrent
<1>3. NodesThere
  BY <1>1, NoneAssumption DEF NodesThere
<1>4. Owed
  BY <1>1 DEF Owed
<1> QED BY <1>2, <1>3, <1>4, HonestyInit DEF RestIInv

\* Where all that is due is owed by somebody, nothing is due at rest.
LEMMA DoneAtRest ==
  ASSUME OwnRoute, RestIInv
  PROVE  RestsWhenDone
<1> SUFFICES ASSUME NEW n \in Nodes, NEW x \in Names, AtRest(n, x), seen[n][n] = labels[n], objects[x] # None
             PROVE  IF Wanted(n, x) THEN Served(n, x) ELSE n \notin HealthyNodes(x)
  BY DEF RestsWhenDone
<1>1. Done(n, x)
  BY DEF RestIInv, Owed, Owes, AtRest
<1>2. Wanted(n, x) <=> Expected(n, x)
  BY DEF Wanted, Expected, Selected
<1>3. CASE ~Wanted(n, x)
  BY <1>1, <1>2, <1>3 DEF Done, HealthyNodes
<1>4. CASE Wanted(n, x)
  <2> DEFINE o == objects[x]
             v == Verdict(n, o)
             state == o.status[n].state
  <2>1. Told(n, o)
    BY <1>1, <1>2, <1>4 DEF Done
  <2>2. ASSUME v[1] \in Gateways, v[2] = "", o.spec.subnet \notin Unparsable
        PROVE  RouteOf(o, v[1]) \in kernel[n]
    <3>1. v[1] # None
      BY <2>2, NoneAssumption
    <3>2. /\ o.status[n] # None /\ o.status[n].error = ""
          /\ state.subnet = o.spec.subnet /\ state.gateway = v[1]
      BY <2>1, <2>2, <3>1 DEF Told
    <3>3. n \in HealthyNodes(x)
      BY <2>2, <3>2 DEF HealthyNodes, Healthy
    <3>4. Shows(n, o)
      BY <3>3 DEF RestIInv, HonestyIInv, ReportsPassed
    <3>5. RouteOf([spec |-> state], state.gateway) \in kernel[n]
      BY <2>2, <3>2, <3>3, HonestAtRest DEF RestIInv, HonestStatus
    <3>6. RouteOf([spec |-> state], state.gateway) = RouteOf(o, v[1])
      BY <3>2, <3>4 DEF RouteOf, Shows
    <3> QED BY <3>5, <3>6
  <2>3. Routed(n, o)
    BY <2>2 DEF Routed
  <2> QED BY <1>4, <2>1, <2>3 DEF Served
<1> QED BY <1>3, <1>4

\* The inductive invariant, where every StaticRoute keeps one route of its own
\* and the event filter misses no change of labels.
THEOREM RestInductive ==
  ASSUME OwnRoutes, LabelNews
  PROVE  Spec => []RestIInv
<1>1. RestIInv /\ [Next]_vars => RestIInv'
  BY RestNext
<1> QED BY <1>1, RestInit, PTL DEF Spec

\* A node has work in its queues, or under way, until its status tells what
\* became of the route and its kernel has the route if it can, or until it has
\* taken back what it showed: for any number of nodes and StaticRoutes, edits,
\* label changes, conflicts, lost answers and restarts.
THEOREM RestsDone ==
  ASSUME OwnRoutes, LabelNews
  PROVE  Spec => []RestsWhenDone
<1>1. RestIInv => RestsWhenDone
  BY DoneAtRest DEF OwnRoutes
<1> QED BY <1>1, RestInductive, PTL

=============================================================================
