------------------------- MODULE StaticRouteProofs -------------------------
(***************************************************************************)
(* Proofs that the safety properties of StaticRouteProperties hold for any *)
(* number of nodes and StaticRoutes, any specs and any disturbances.       *)
(*                                                                         *)
(* StepOK says what a step of a worker may do to the stored objects and to *)
(* the copies of the others.  Each action of a worker has a lemma that it  *)
(* is such a step; the theorems follow from StepOK alone.                  *)
(***************************************************************************)
EXTENDS StaticRouteTyping

-----------------------------------------------------------------------------
(***************************************************************************)
(* What IInv says of one worker                                            *)
(***************************************************************************)
CopyOf(w, x) ==
  /\ worker[w] \in Job
  /\ worker[w].name = x
  /\ objects[x] # None
  /\ Encoded(worker[w].inst.spec) = Encoded(objects[x].spec)
  /\ worker[w].inst.deleting = objects[x].deleting
  /\ \A n \in Nodes \ {NodeOf(w)} : worker[w].inst.status[n] = objects[x].status[n]
  /\ Joining(w) => objects[x].finalizer
  /\ worker[w].pc = "release" => NoEntries(objects[x])

OwnCopy(w) == \A x \in Names : w \in latest[x] => CopyOf(w, x)

OwnJob(w) ==
  /\ Joining(w) \/ worker[w].pc = "finalizer" => ~worker[w].inst.deleting
  /\ worker[w].pc \in {"deregister", "forget"} => ~Healthy(worker[w].inst, NodeOf(w))

\* What IInv says of a worker is said of one worker at a time.
LEMMA PerWorker ==
  (CopyCurrent /\ JoinersHeld /\ LeaversGone) <=> (\A w \in Workers : OwnCopy(w) /\ OwnJob(w))
BY DEF CopyCurrent, JoinersHeld, LeaversGone, OwnCopy, CopyOf, OwnJob

\* The same after a step.
LEMMA PerWorkerNext ==
  (CopyCurrent' /\ JoinersHeld' /\ LeaversGone') <=> (\A w \in Workers : OwnCopy(w)' /\ OwnJob(w)')
BY DEF CopyCurrent, JoinersHeld, LeaversGone, OwnCopy, CopyOf, OwnJob

\* Client c gains no current copy and loses the currency of those overwritten.
Undisturbed(c) ==
  \A x \in Names : c \in latest'[x] => c \in latest[x] /\ objects'[x] = objects[x]

\* A worker that stands still while its object does keeps its part of IInv.
LEMMA WorkerKept ==
  ASSUME NEW w \in Workers, OwnCopy(w), OwnJob(w), worker'[w] = worker[w], Undisturbed(w)
  PROVE  OwnCopy(w)' /\ OwnJob(w)'
<1>1. Joining(w)' <=> Joining(w)
  BY DEF Joining
<1>2. OwnJob(w)'
  BY <1>1 DEF OwnJob
<1>3. OwnCopy(w)'
  BY <1>1 DEF OwnCopy, CopyOf, Undisturbed
<1> QED BY <1>2, <1>3

\* Caches that do not change stay current while the objects are undisturbed.
LEMMA CacheKept ==
  ASSUME CacheCurrent, UNCHANGED cache, \A n \in Nodes : Undisturbed(n)
  PROVE  CacheCurrent'
BY DEF CacheCurrent, Undisturbed

\* An idle worker without current copies is as IInv has it.
LEMMA WorkerIdle ==
  ASSUME NEW w \in Workers, worker'[w] = Idle, \A x \in Names : w \notin latest'[x]
  PROVE  OwnCopy(w)' /\ OwnJob(w)'
<1>1. worker'[w].pc = "idle"
  <2>1. Idle.pc = "idle"
    BY DEF Idle
  <2> QED BY <2>1
<1>2. ~Joining(w)'
  BY <1>1 DEF Joining
<1>3. OwnJob(w)'
  BY <1>1, <1>2 DEF OwnJob
<1>4. OwnCopy(w)'
  BY DEF OwnCopy
<1> QED BY <1>3, <1>4

\* Objects that do not change, or whose finalizer stays, keep HealthyHeld.
LEMMA HeldKept ==
  ASSUME HealthyHeld, DoomedHeld, UNCHANGED objects
  PROVE  HealthyHeld' /\ DoomedHeld'
BY DEF HealthyHeld, HealthyNodes, Healthy, DoomedHeld

-----------------------------------------------------------------------------
(***************************************************************************)
(* The effect of a call to the API server                                  *)
(***************************************************************************)
LEMMA StoreEffect ==
  ASSUME TypeOK, NEW x \in Names, NEW o \in Object \union {None}, NEW w \in Workers,
         NEW keep \in BOOLEAN, Store(x, o, w, keep)
  PROVE  /\ objects' = [objects EXCEPT ![x] = o]
         /\ objects'[x] = o
         /\ \A c \in Clients \ {w} : Undisturbed(c)
         /\ \A y \in Names \ {x} : w \in latest'[y] => w \in latest[y]
         /\ w \in latest'[x] => keep
BY DEF TypeOK, ApiTypeOK, Store, Undisturbed

\* A call that is not applied disturbs nobody.
LEMMA UnappliedEffect ==
  ASSUME TypeOK, NEW w \in Workers, worker[w].name \in Names, NEW keep \in BOOLEAN, Unapplied(w, keep)
  PROVE  /\ UNCHANGED objects
         /\ \A c \in Clients : Undisturbed(c)
         /\ w \in latest'[worker[w].name] => keep
BY DEF TypeOK, ApiTypeOK, Unapplied, Drop, Undisturbed

\* A failed call leaves a current copy only of what it did not change.
LEMMA FailedEffect ==
  ASSUME TypeOK, NEW w \in Workers, worker[w].pc \in PCs, NEW part, NEW o \in Object,
         NEW keep \in BOOLEAN, Failed(w, part, o, keep)
  PROVE  /\ \/ UNCHANGED objects
            \/ /\ Acceptable(w, o)
               /\ objects' = [objects EXCEPT ![worker[w].name] = Put(worker[w].name, part, o)]
         /\ \A c \in Clients : Undisturbed(c)
         /\ w \in latest'[worker[w].name] => keep
<1> DEFINE x == worker[w].name
           stored == Put(x, part, o)
<1>1. x \in Names /\ w \in Clients
  BY Busy, WorkerNode
<1>2. CASE Unapplied(w, keep)
  BY <1>1, <1>2, UnappliedEffect
<1>3. CASE Acceptable(w, o) /\ Store(x, stored, w, keep /\ stored = objects[x])
  <2>1. objects[x] \in Object /\ w \in latest[x]
    BY <1>1, <1>3 DEF Acceptable, Accepts, TypeOK, ApiTypeOK
  <2>2. stored \in Object \union {None}
    BY <1>1, <2>1, PutType
  <2> DEFINE kept == keep /\ stored = objects[x]
  <2>3. /\ objects' = [objects EXCEPT ![x] = stored]
        /\ objects'[x] = stored
        /\ \A c \in Clients \ {w} : Undisturbed(c)
        /\ \A y \in Names \ {x} : w \in latest'[y] => w \in latest[y]
        /\ w \in latest'[x] => kept
    <3>1. kept \in BOOLEAN /\ Store(x, stored, w, kept)
      BY <1>3
    <3> HIDE DEF kept, stored, x
    <3> QED BY <1>1, <2>2, <3>1, StoreEffect
  <2>4. Undisturbed(w)
    BY <1>1, <2>1, <2>3 DEF Undisturbed, TypeOK, ApiTypeOK
  <2> QED BY <1>3, <2>3, <2>4
<1> QED BY <1>2, <1>3 DEF Failed

\* An applied call changes one object, and its author alone may stay current.
LEMMA AppliedEffect ==
  ASSUME TypeOK, NEW w \in Workers, worker[w].pc \in PCs, NEW part, NEW o \in Object,
         NEW keep \in BOOLEAN, Applied(w, part, o, keep)
  PROVE  /\ Acceptable(w, o)
         /\ worker[w].name \in Names
         /\ w \in latest[worker[w].name]
         /\ objects[worker[w].name] \in Object
         /\ objects' = [objects EXCEPT ![worker[w].name] = Put(worker[w].name, part, o)]
         /\ objects'[worker[w].name] = Put(worker[w].name, part, o)
         /\ \A c \in Clients \ {w} : Undisturbed(c)
         /\ \A y \in Names \ {worker[w].name} : w \in latest'[y] => w \in latest[y]
         /\ w \in latest'[worker[w].name] => keep
<1> DEFINE x == worker[w].name
           stored == Put(x, part, o)
<1>1. x \in Names /\ w \in Clients
  BY Busy, WorkerNode
<1>2. Acceptable(w, o) /\ objects[x] \in Object /\ w \in latest[x]
  BY <1>1 DEF Applied, Acceptable, Accepts, TypeOK, ApiTypeOK
<1>3. stored \in Object \union {None}
  BY <1>1, <1>2, PutType
<1>4. Store(x, stored, w, keep)
  BY DEF Applied
<1> HIDE DEF stored
<1>5. /\ objects' = [objects EXCEPT ![x] = stored]
      /\ objects'[x] = stored
      /\ \A c \in Clients \ {w} : Undisturbed(c)
      /\ \A y \in Names \ {x} : w \in latest'[y] => w \in latest[y]
      /\ w \in latest'[x] => keep
  BY <1>1, <1>3, <1>4, StoreEffect
<1> QED BY <1>1, <1>2, <1>5 DEF stored

\* The two cases of keep.
LEMMA AppliedKeep ==
  ASSUME TypeOK, NEW w \in Workers, worker[w].pc \in PCs, NEW part, NEW o \in Object,
         Applied(w, part, o, TRUE)
  PROVE  /\ Acceptable(w, o)
         /\ objects' = [objects EXCEPT ![worker[w].name] = Put(worker[w].name, part, o)]
         /\ objects'[worker[w].name] = Put(worker[w].name, part, o)
         /\ \A c \in Clients \ {w} : Undisturbed(c)
         /\ \A y \in Names \ {worker[w].name} : w \in latest'[y] => w \in latest[y]
BY AppliedEffect

\* The worker is done with the object.
LEMMA AppliedDrop ==
  ASSUME TypeOK, NEW w \in Workers, worker[w].pc \in PCs, NEW part, NEW o \in Object,
         Applied(w, part, o, FALSE)
  PROVE  /\ Acceptable(w, o)
         /\ objects' = [objects EXCEPT ![worker[w].name] = Put(worker[w].name, part, o)]
         /\ objects'[worker[w].name] = Put(worker[w].name, part, o)
         /\ \A c \in Clients \ {w} : Undisturbed(c)
         /\ \A y \in Names \ {worker[w].name} : w \in latest'[y] => w \in latest[y]
         /\ w \notin latest'[worker[w].name]
BY AppliedEffect

\* A failed call, when the worker goes on with the object.
LEMMA FailedKeep ==
  ASSUME TypeOK, NEW w \in Workers, worker[w].pc \in PCs, NEW part, NEW o \in Object,
         Failed(w, part, o, TRUE)
  PROVE  /\ \/ UNCHANGED objects
            \/ /\ Acceptable(w, o)
               /\ objects' = [objects EXCEPT ![worker[w].name] = Put(worker[w].name, part, o)]
         /\ \A c \in Clients : Undisturbed(c)
BY FailedEffect

\* A failed call, when the worker is done with it.
LEMMA FailedDrop ==
  ASSUME TypeOK, NEW w \in Workers, worker[w].pc \in PCs, NEW part, NEW o \in Object,
         Failed(w, part, o, FALSE)
  PROVE  /\ \/ UNCHANGED objects
            \/ /\ Acceptable(w, o)
               /\ objects' = [objects EXCEPT ![worker[w].name] = Put(worker[w].name, part, o)]
         /\ \A c \in Clients : Undisturbed(c)
         /\ w \notin latest'[worker[w].name]
BY FailedEffect

-----------------------------------------------------------------------------
(***************************************************************************)
(* The steps of a worker                                                   *)
(***************************************************************************)
\* The object as a PUT from a current copy stores it, with or without the
\* finalizer.
Stored(o, b) == [o EXCEPT !.spec = Encoded(@), !.finalizer = b]

LEMMA StoredObject ==
  ASSUME NEW o \in Object, NEW b \in BOOLEAN
  PROVE  /\ Stored(o, b) \in Object
         /\ Stored(o, b).spec = Encoded(o.spec)
         /\ Stored(o, b).finalizer = b
         /\ Stored(o, b).deleting = o.deleting
         /\ Stored(o, b).status = o.status
BY EncodedSpec DEF Stored, Object

\* What a step of w does to the object it works on, if anything: it sets the
\* finalizer, replaces or removes the entry of its node, or, with no entry
\* left, removes the finalizer.
ObjectStep(w) ==
  LET x == worker[w].name
      n == NodeOf(w)
      o == objects[x] IN
  /\ x \in Names
  /\ o \in Object
  /\ \/ ~o.deleting /\ objects' = [objects EXCEPT ![x] = Stored(o, TRUE)]
     \/ \E o2 \in Object :
          /\ objects' = [objects EXCEPT ![x] = o2]
          /\ \E e \in Entry \union {None} : o2 = [o EXCEPT !.status[n] = e]
          /\ Healthy(o2, n) => o.finalizer /\ ~o.deleting
     \/ /\ NoEntries(o)
        /\ objects' = [objects EXCEPT ![x] =
                         IF o.deleting THEN None ELSE Stored(o, FALSE)]

\* A step of w leaves the others' copies alone and its own as IInv says.
StepOK(w) ==
  /\ UNCHANGED cache
  /\ \A v \in Workers \ {w} : worker'[v] = worker[v]
  /\ \A c \in Clients \ {w} : Undisturbed(c)
  /\ OwnCopy(w)'
  /\ OwnJob(w)'
  /\ UNCHANGED objects \/ ObjectStep(w)

\* w has a current copy of no object but the one it works on.
LEMMA OwnCopyNext ==
  ASSUME NEW w \in Workers, OwnCopy(w), NEW x \in Names, worker[w].name = x,
         \A y \in Names \ {x} : w \in latest'[y] => w \in latest[y],
         w \in latest'[x] => CopyOf(w, x)'
  PROVE  OwnCopy(w)'
BY DEF OwnCopy, CopyOf

\* A worker that drops its copy and goes idle keeps its part of IInv.
LEMMA OwnCopyIdle ==
  ASSUME NEW w \in Workers, OwnCopy(w), NEW x \in Names, worker[w].name = x,
         \A y \in Names \ {x} : w \in latest'[y] => w \in latest[y],
         w \notin latest'[x],
         worker'[w] = Idle
  PROVE  OwnCopy(w)' /\ OwnJob(w)'
BY WorkerIdle DEF OwnCopy, CopyOf

\* One worker moves, and the others keep their jobs.
LEMMA GotoOthers ==
  ASSUME TypeOK, NEW w \in Workers, NEW job, Goto(w, job)
  PROVE  worker'[w] = job /\ \A v \in Workers \ {w} : worker'[v] = worker[v]
BY DEF TypeOK, Goto

\* The finalizer is stored before the worker counts as joining.
LEMMA StoreFinalizerOK ==
  ASSUME IInv, NEW w \in Workers, StoreFinalizer(w)
  PROVE  StepOK(w)
<1> DEFINE job == worker[w]
           n == NodeOf(w)
           x == job.name
           o == SetFinalizer(job.inst)
<1>1. /\ TypeOK /\ OwnCopy(w) /\ OwnJob(w)
      /\ job.pc = "finalizer" /\ job.pc \in PCs
      /\ n \in Nodes /\ w \in Clients
  BY PerWorker, WorkerNode DEF IInv, StoreFinalizer, PCs
<1>2. job \in Job /\ x \in Names /\ job.inst \in Object /\ ~job.inst.deleting
  BY <1>1, Busy DEF OwnJob
<1>3. /\ o \in Object
      /\ o.finalizer /\ o.spec = job.inst.spec /\ o.deleting = job.inst.deleting
      /\ o.status = job.inst.status
  BY <1>2 DEF SetFinalizer, Object
<1>4. ASSUME Acceptable(w, o)
      PROVE  /\ w \in latest[x] /\ objects[x] \in Object
             /\ CopyOf(w, x)
             /\ Put(x, "object", o) = Stored(objects[x], TRUE)
  <2>1. w \in latest[x] /\ objects[x] \in Object /\ CopyOf(w, x)
    BY <1>1, <1>2, <1>4 DEF Acceptable, Accepts, TypeOK, ApiTypeOK, OwnCopy
  <2>2. Put(x, "object", o) = Stored(objects[x], TRUE)
    BY <1>2, <1>3, <2>1 DEF Put, WithMeta, CopyOf, Stored, Object
  <2> QED BY <2>1, <2>2
<1>5. UNCHANGED cache
  BY DEF StoreFinalizer
<1>6. CASE /\ Applied(w, "object", o, TRUE)
           /\ Goto(w, [job EXCEPT !.pc = "register", !.inst = o])
  <2> DEFINE j == [job EXCEPT !.pc = "register", !.inst = o]
  <2>1. /\ Acceptable(w, o)
        /\ objects' = [objects EXCEPT ![x] = Put(x, "object", o)]
        /\ objects'[x] = Put(x, "object", o)
        /\ \A c \in Clients \ {w} : Undisturbed(c)
        /\ \A y \in Names \ {x} : w \in latest'[y] => w \in latest[y]
    <3>1. Applied(w, "object", o, TRUE)
      BY <1>6
    <3> HIDE DEF o
    <3>2. o \in Object /\ worker[w].pc \in PCs /\ TypeOK
      BY <1>1, <1>3
    <3> QED BY <3>1, <3>2, AppliedKeep
  <2>2. worker'[w] = j /\ \A v \in Workers \ {w} : worker'[v] = worker[v]
    BY <1>1, <1>6, GotoOthers
  <2>3. j \in Job /\ j.pc = "register" /\ j.inst = o /\ j.name = x
    <3>1. "register" \in PCs
      BY DEF PCs
    <3>2. j \in Job
      BY <1>2, <1>3, <3>1 DEF Job
    <3> QED BY <1>2, <3>2 DEF Job
  <2>4. objects'[x] = Stored(objects[x], TRUE) /\ ~objects[x].deleting
    BY <1>2, <1>4, <2>1 DEF CopyOf
  <2>5. /\ objects'[x] # None
        /\ Encoded(objects'[x].spec) = Encoded(o.spec)
        /\ objects'[x].deleting = o.deleting /\ objects'[x].finalizer
        /\ \A m \in Nodes \ {n} : o.status[m] = objects'[x].status[m]
    <3>1. CopyOf(w, x) /\ objects[x] \in Object /\ w \in latest[x]
      BY <1>4, <2>1
    <3>2. objects'[x] \in Object
      BY <2>4, <3>1, StoredObject
    <3>3. objects'[x] # None
      BY <3>2, RecordAssumption
    <3>4. /\ Encoded(objects'[x].spec) = Encoded(objects[x].spec)
          /\ objects'[x].deleting = objects[x].deleting
          /\ objects'[x].finalizer /\ objects'[x].status = objects[x].status
      <4>1. objects[x].spec \in RouteSpec
        BY <3>1 DEF Object
      <4>2. /\ Stored(objects[x], TRUE).spec = Encoded(objects[x].spec)
            /\ Stored(objects[x], TRUE).deleting = objects[x].deleting
            /\ Stored(objects[x], TRUE).finalizer
            /\ Stored(objects[x], TRUE).status = objects[x].status
        BY <3>1, StoredObject
      <4>3. Encoded(Encoded(objects[x].spec)) = Encoded(objects[x].spec)
        BY <4>1, EncodedSpec
      <4> QED BY <2>4, <4>2, <4>3
    <3> QED BY <1>3, <3>1, <3>3, <3>4 DEF CopyOf
  <2>6. CopyOf(w, x)'
    BY <2>2, <2>3, <2>5 DEF CopyOf
  <2>7. OwnCopy(w)' /\ OwnJob(w)'
    BY <1>1, <1>2, <1>3, <2>1, <2>2, <2>3, <2>6, OwnCopyNext DEF OwnJob
  <2>8. ObjectStep(w)
    BY <1>2, <1>4, <2>1, <2>4 DEF ObjectStep
  <2> QED BY <1>5, <2>1, <2>2, <2>7, <2>8 DEF StepOK
<1>7. CASE /\ Failed(w, "object", o, TRUE)
           /\ Goto(w, [job EXCEPT !.pc = "report", !.inst = o, !.err = "update", !.again = TRUE])
  <2> DEFINE j == [job EXCEPT !.pc = "report", !.inst = o, !.err = "update", !.again = TRUE]
  <2>1. /\ \/ UNCHANGED objects
           \/ Acceptable(w, o) /\ objects' = [objects EXCEPT ![x] = Put(x, "object", o)]
        /\ \A c \in Clients : Undisturbed(c)
    BY <1>1, <1>3, <1>7, FailedKeep
  <2>2. worker'[w] = j /\ \A v \in Workers \ {w} : worker'[v] = worker[v]
    BY <1>1, <1>7, GotoOthers
  <2>3. j \in Job /\ j.pc = "report" /\ j.err = "update" /\ j.inst = o /\ j.name = x
    <3>1. "report" \in PCs /\ "update" \in Errors
      BY DEF PCs, Errors
    <3>2. j \in Job
      BY <1>2, <1>3, <3>1 DEF Job
    <3> QED BY <1>2, <3>2 DEF Job
  <2>4. ~Joining(w)'
    BY <2>2, <2>3 DEF Joining
  <2>5. ASSUME NEW y \in Names, w \in latest'[y]
        PROVE  CopyOf(w, y)'
    <3>1. CopyOf(w, y) /\ objects'[y] = objects[y]
      BY <1>1, <2>1, <2>5 DEF Undisturbed, OwnCopy
    <3> QED BY <1>3, <2>2, <2>3, <2>4, <3>1 DEF CopyOf
  <2>6. OwnCopy(w)' /\ OwnJob(w)'
    BY <2>2, <2>3, <2>4, <2>5 DEF OwnCopy, OwnJob
  <2>7. UNCHANGED objects \/ ObjectStep(w)
    BY <1>2, <1>4, <2>1 DEF ObjectStep, CopyOf
  <2> QED BY <1>5, <2>1, <2>2, <2>6, <2>7 DEF StepOK
<1> QED BY <1>6, <1>7 DEF StoreFinalizer

\* A step that calls nobody but the route manager keeps the copy as it is.
LEMMA LocalOK ==
  ASSUME IInv, NEW w \in Workers, worker[w].pc \in PCs,
         UNCHANGED <<objects, latest, cache>>,
         NEW j \in Job, Goto(w, j),
         j.name = worker[w].name, j.inst = worker[w].inst, j.pc # "release",
         Joining(w)' => Joining(w), OwnJob(w)'
  PROVE  StepOK(w)
<1>1. TypeOK /\ OwnCopy(w)
  BY PerWorker DEF IInv
<1>2. worker'[w] = j /\ \A v \in Workers \ {w} : worker'[v] = worker[v]
  BY <1>1, GotoOthers
<1>3. \A c \in Clients : Undisturbed(c)
  BY DEF Undisturbed
<1>4. OwnCopy(w)'
  BY <1>1, <1>2 DEF OwnCopy, CopyOf
<1> QED BY <1>2, <1>3, <1>4 DEF StepOK

\* Looking up the route manager.
LEMMA CheckRegisteredOK ==
  ASSUME IInv, NEW w \in Workers, CheckRegistered(w)
  PROVE  StepOK(w)
<1> DEFINE job == worker[w]
<1>1. TypeOK /\ OwnJob(w) /\ job.pc = "register" /\ job.pc \in PCs
  BY PerWorker DEF IInv, CheckRegistered, PCs
<1>2. job \in Job /\ Joining(w) /\ ~job.inst.deleting
  BY <1>1, Busy DEF Joining, OwnJob
<1>3. PICK pc \in {"add", "report"} : Goto(w, [job EXCEPT !.pc = pc])
  BY DEF CheckRegistered
<1> DEFINE j == [job EXCEPT !.pc = pc]
<1>4. j \in Job /\ j.name = job.name /\ j.inst = job.inst /\ j.pc = pc
  BY <1>2 DEF PCs, Job
<1>5. worker'[w] = j
  BY <1>1, <1>3, GotoOthers
<1>6. OwnJob(w)'
  BY <1>2, <1>4, <1>5 DEF OwnJob
<1>7. UNCHANGED <<objects, latest, cache>>
  BY DEF CheckRegistered, apiVars
<1> HIDE DEF j
<1> QED BY <1>1, <1>2, <1>3, <1>4, <1>6, <1>7, LocalOK DEF j

\* The route is added.
LEMMA RegisterRouteOK ==
  ASSUME IInv, NEW w \in Workers, RegisterRoute(w)
  PROVE  StepOK(w)
<1> DEFINE job == worker[w]
           j == [job EXCEPT !.pc = "report"]
<1>1. TypeOK /\ OwnJob(w) /\ job.pc = "add" /\ job.pc \in PCs
  BY PerWorker DEF IInv, RegisterRoute, PCs
<1>2. job \in Job /\ Joining(w) /\ ~job.inst.deleting
  BY <1>1, Busy DEF Joining, OwnJob
<1>3. Goto(w, j) /\ UNCHANGED <<objects, latest, cache>>
  BY DEF RegisterRoute, apiVars
<1>4. j \in Job /\ j.name = job.name /\ j.inst = job.inst /\ j.pc = "report"
  BY <1>2 DEF PCs, Job
<1>5. worker'[w] = j
  BY <1>1, <1>3, GotoOthers
<1>6. OwnJob(w)'
  BY <1>2, <1>4, <1>5 DEF OwnJob
<1> HIDE DEF j
<1> QED BY <1>1, <1>2, <1>3, <1>4, <1>6, LocalOK

\* It is not: the report will show an error.
LEMMA RegisterFailsOK ==
  ASSUME IInv, NEW w \in Workers, RegisterFails(w)
  PROVE  StepOK(w)
<1> DEFINE job == worker[w]
           j == [job EXCEPT !.pc = "report", !.err = "register", !.again = TRUE]
<1>1. TypeOK /\ OwnJob(w) /\ job.pc = "add" /\ job.pc \in PCs
  BY PerWorker DEF IInv, RegisterFails, PCs
<1>2. job \in Job /\ Joining(w) /\ ~job.inst.deleting
  BY <1>1, Busy DEF Joining, OwnJob
<1>3. Goto(w, j) /\ UNCHANGED <<objects, latest, cache>>
  BY DEF RegisterFails, apiVars
<1>4. j \in Job /\ j.name = job.name /\ j.inst = job.inst /\ j.pc = "report"
  BY <1>2 DEF PCs, Errors, Job
<1>5. worker'[w] = j
  BY <1>1, <1>3, GotoOthers
<1>6. OwnJob(w)'
  BY <1>2, <1>4, <1>5 DEF OwnJob
<1> HIDE DEF j
<1> QED BY <1>1, <1>2, <1>3, <1>4, <1>6, LocalOK

\* The route is removed.
LEMMA DeRegisterRouteOK ==
  ASSUME IInv, NEW w \in Workers, DeRegisterRoute(w)
  PROVE  StepOK(w)
<1> DEFINE job == worker[w]
           j == [job EXCEPT !.pc = "forget"]
<1>1. TypeOK /\ OwnJob(w) /\ job.pc = "deregister" /\ job.pc \in PCs
  BY PerWorker DEF IInv, DeRegisterRoute, PCs
<1>2. job \in Job /\ ~Healthy(job.inst, NodeOf(w))
  BY <1>1, Busy DEF OwnJob
<1>3. Goto(w, j) /\ UNCHANGED <<objects, latest, cache>>
  BY DEF DeRegisterRoute, apiVars
<1>4. j \in Job /\ j.name = job.name /\ j.inst = job.inst /\ j.pc = "forget"
  BY <1>2 DEF PCs, Job
<1>5. worker'[w] = j
  BY <1>1, <1>3, GotoOthers
<1>6. ~Joining(w)'
  BY <1>4, <1>5 DEF Joining
<1>7. OwnJob(w)'
  BY <1>2, <1>4, <1>5, <1>6 DEF OwnJob
<1> HIDE DEF j
<1> QED BY <1>1, <1>3, <1>4, <1>6, <1>7, LocalOK

\* It is not: the worker gives up.
LEMMA DeRegisterFailsOK ==
  ASSUME IInv, NEW w \in Workers, DeRegisterFails(w)
  PROVE  StepOK(w)
<1> DEFINE job == worker[w]
           x == job.name
<1>1. TypeOK /\ OwnCopy(w) /\ job.pc \in PCs
  BY PerWorker DEF IInv, DeRegisterFails, PCs
<1>2. x \in Names
  BY <1>1, Busy
<1>3. Goto(w, Idle) /\ Drop(x, w) /\ UNCHANGED objects /\ UNCHANGED cache
  BY DEF DeRegisterFails, Finish
<1>4. worker'[w] = Idle /\ \A v \in Workers \ {w} : worker'[v] = worker[v]
  BY <1>1, <1>3, GotoOthers
<1>5. /\ \A c \in Clients : Undisturbed(c)
      /\ w \notin latest'[x]
      /\ \A y \in Names \ {x} : w \in latest'[y] => w \in latest[y]
  BY <1>1, <1>2, <1>3 DEF Drop, Undisturbed, TypeOK, ApiTypeOK
<1>6. OwnCopy(w)' /\ OwnJob(w)'
  BY <1>1, <1>2, <1>4, <1>5, OwnCopyIdle
<1> QED BY <1>3, <1>4, <1>5, <1>6 DEF StepOK

\* A status written from a current copy changes the entry of the node alone.
LEMMA StatusStored ==
  ASSUME NEW w \in Workers, NEW x \in Names, CopyOf(w, x), objects[x] \in Object,
         NEW o \in Object,
         \A m \in Nodes \ {NodeOf(w)} : o.status[m] = worker[w].inst.status[m]
  PROVE  LET o2 == Put(x, "status", o) IN
         /\ o2 \in Object
         /\ o2.spec = objects[x].spec /\ o2.deleting = objects[x].deleting
         /\ o2.finalizer = objects[x].finalizer /\ o2.status = o.status
         /\ \E e \in Entry \union {None} : o2 = [objects[x] EXCEPT !.status[NodeOf(w)] = e]
<1> DEFINE n == NodeOf(w)
           o2 == Put(x, "status", o)
<1>1. n \in Nodes
  BY WorkerNode
<1>2. o2 = [objects[x] EXCEPT !.status = o.status]
  BY DEF Put, WithStatus
<1>3. o.status \in Status /\ objects[x].status \in Status /\ o.status[n] \in Entry \union {None}
  BY <1>1 DEF Object, Status
<1>4. \A m \in Nodes \ {n} : o.status[m] = objects[x].status[m]
  BY DEF CopyOf
<1>5. o.status = [objects[x].status EXCEPT ![n] = o.status[n]]
  BY <1>1, <1>3, <1>4 DEF Status
<1>6. o2 = [objects[x] EXCEPT !.status[n] = o.status[n]]
  BY <1>2, <1>5
<1>7. /\ o2 \in Object
      /\ o2.spec = objects[x].spec /\ o2.deleting = objects[x].deleting
      /\ o2.finalizer = objects[x].finalizer /\ o2.status = o.status
  BY <1>2, <1>3 DEF Object
<1> HIDE DEF o2
<1> QED BY <1>3, <1>6, <1>7 DEF o2

\* The copy with the entry to report.
LEMMA EntryReported ==
  ASSUME NEW o \in Object, NEW n \in Nodes, NEW gw \in ShownGateways, NEW err \in Errors
  PROVE  LET new == AddToStatus(RemoveFromStatus(o, n), n, gw, err) IN
         /\ new \in Object
         /\ new.spec = o.spec /\ new.deleting = o.deleting /\ new.finalizer = o.finalizer
         /\ \A m \in Nodes \ {n} : new.status[m] = o.status[m]
         /\ Healthy(new, n) <=> (err = "" /\ gw \in Gateways)
<1> DEFINE r == RemoveFromStatus(o, n)
           e == [state |-> Encoded(ShownState(o, gw)), error |-> err]
           new == AddToStatus(r, n, gw, err)
<1>1. /\ r \in Object /\ r.spec = o.spec /\ r.deleting = o.deleting /\ r.finalizer = o.finalizer
      /\ r.status[n] = None
      /\ \A m \in Nodes \ {n} : r.status[m] = o.status[m]
  BY DEF RemoveFromStatus, Object, Status
<1>2. e \in Entry /\ e.error = err /\ e.state.gateway = gw
  BY EntryType
<1>3. new = [r EXCEPT !.status[n] = e]
  BY <1>1 DEF AddToStatus, AlreadyInStatus, ShownState
<1> HIDE DEF r, e, new
<1>4. /\ new \in Object
      /\ new.spec = r.spec /\ new.deleting = r.deleting /\ new.finalizer = r.finalizer
      /\ new.status[n] = e
      /\ \A m \in Nodes \ {n} : new.status[m] = r.status[m]
  BY <1>1, <1>2, <1>3 DEF Object, Status
<1>5. Healthy(new, n) <=> (err = "" /\ gw \in Gateways)
  BY <1>2, <1>4, RecordAssumption DEF Healthy
<1> QED BY <1>1, <1>4, <1>5 DEF new, r

\* Without a report the worker goes on to the deletion, or is done.
LEMMA NothingToReportOK ==
  ASSUME IInv, NEW w \in Workers, NothingToReport(w)
  PROVE  StepOK(w)
<1> DEFINE job == worker[w]
           x == job.name
           j == [job EXCEPT !.pc = "deregister", !.again = FALSE]
<1>1. /\ TypeOK /\ OwnCopy(w) /\ OwnJob(w)
      /\ job.pc = "report" /\ job.pc \in PCs
  BY PerWorker DEF IInv, NothingToReport, PCs
<1>2. job \in Job /\ x \in Names
  BY <1>1, Busy
<1>3. /\ Unapplied(w, job.inst.deleting)
      /\ AfterReport(w, job, job.again)
      /\ UNCHANGED cache
      /\ StatusMatch(job.inst, NodeOf(w), job.gw, job.err)
  BY DEF NothingToReport
<1>4. CASE job.inst.deleting
  <2>1. Goto(w, j) /\ UNCHANGED <<objects, latest, cache>>
    BY <1>3, <1>4 DEF AfterReport, Unapplied
  <2>2. j \in Job /\ j.name = job.name /\ j.inst = job.inst /\ j.pc = "deregister"
    BY <1>2 DEF PCs, Job
  <2>3. worker'[w] = j
    BY <1>1, <2>1, GotoOthers
  <2>4. ~Joining(w)'
    BY <2>2, <2>3 DEF Joining
  <2>5. ~Healthy(job.inst, NodeOf(w))
    BY <1>1, <1>3, <1>4 DEF OwnJob, Joining, Healthy, StatusMatch
  <2>6. OwnJob(w)'
    BY <2>2, <2>3, <2>4, <2>5 DEF OwnJob
  <2> HIDE DEF j
  <2> QED BY <1>1, <2>1, <2>2, <2>4, <2>6, LocalOK
<1>5. CASE ~job.inst.deleting
  <2>1. Goto(w, Idle) /\ Drop(x, w) /\ UNCHANGED objects
    BY <1>3, <1>5 DEF AfterReport, Finish, Unapplied
  <2>2. worker'[w] = Idle /\ \A v \in Workers \ {w} : worker'[v] = worker[v]
    BY <1>1, <2>1, GotoOthers
  <2>3. /\ \A c \in Clients : Undisturbed(c)
        /\ w \notin latest'[x]
        /\ \A y \in Names \ {x} : w \in latest'[y] => w \in latest[y]
    BY <1>1, <1>2, <2>1 DEF Drop, Undisturbed, TypeOK, ApiTypeOK
  <2>4. OwnCopy(w)' /\ OwnJob(w)'
    BY <1>1, <1>2, <2>2, <2>3, OwnCopyIdle
  <2> QED BY <1>3, <2>1, <2>2, <2>3, <2>4 DEF StepOK
<1> QED BY <1>4, <1>5

\* With one, a healthy entry appears only where the finalizer is held.
LEMMA ReportStatusOK ==
  ASSUME IInv, NEW w \in Workers, ReportStatus(w)
  PROVE  StepOK(w)
<1> DEFINE job == worker[w]
           n == NodeOf(w)
           x == job.name
           o == AddToStatus(RemoveFromStatus(job.inst, n), n, job.gw, job.err)
           new == [job EXCEPT !.inst = o]
           j == [new EXCEPT !.pc = "deregister", !.again = FALSE]
<1>1. /\ TypeOK /\ OwnCopy(w) /\ OwnJob(w)
      /\ job.pc = "report" /\ job.pc \in PCs
      /\ n \in Nodes /\ w \in Clients
  BY PerWorker, WorkerNode DEF IInv, ReportStatus, PCs
<1>2. /\ job \in Job /\ x \in Names /\ job.inst \in Object
      /\ job.gw \in ShownGateways /\ job.err \in Errors
  BY <1>1, Busy
<1>3. /\ o \in Object
      /\ o.spec = job.inst.spec /\ o.deleting = job.inst.deleting /\ o.finalizer = job.inst.finalizer
      /\ \A m \in Nodes \ {n} : o.status[m] = job.inst.status[m]
      /\ Healthy(o, n) <=> (job.err = "" /\ job.gw \in Gateways)
      /\ o.deleting \in BOOLEAN
  <2>1. /\ o \in Object
        /\ o.spec = job.inst.spec /\ o.deleting = job.inst.deleting /\ o.finalizer = job.inst.finalizer
        /\ \A m \in Nodes \ {n} : o.status[m] = job.inst.status[m]
        /\ Healthy(o, n) <=> (job.err = "" /\ job.gw \in Gateways)
    <3> DEFINE inst == job.inst
               gw == job.gw
               err == job.err
    <3>1. inst \in Object /\ n \in Nodes /\ gw \in ShownGateways /\ err \in Errors
      BY <1>1, <1>2
    <3> HIDE DEF inst, gw, err, n
    <3>2. /\ AddToStatus(RemoveFromStatus(inst, n), n, gw, err) \in Object
          /\ AddToStatus(RemoveFromStatus(inst, n), n, gw, err).spec = inst.spec
          /\ AddToStatus(RemoveFromStatus(inst, n), n, gw, err).deleting = inst.deleting
          /\ AddToStatus(RemoveFromStatus(inst, n), n, gw, err).finalizer = inst.finalizer
          /\ \A m \in Nodes \ {n} :
               AddToStatus(RemoveFromStatus(inst, n), n, gw, err).status[m] = inst.status[m]
          /\ Healthy(AddToStatus(RemoveFromStatus(inst, n), n, gw, err), n)
               <=> (err = "" /\ gw \in Gateways)
      BY <3>1, EntryReported
    <3> QED BY <3>2 DEF inst, gw, err, n
  <2>2. o.deleting \in BOOLEAN
    BY <2>1 DEF Object
  <2> QED BY <2>1, <2>2
<1>4. Healthy(o, n) => Joining(w) /\ ~o.deleting
  BY <1>1, <1>3 DEF OwnJob, Joining
<1>5. PICK again \in BOOLEAN : AfterReport(w, new, again)
  BY <1>2 DEF ReportStatus, Job
<1>6. UNCHANGED cache
  BY DEF ReportStatus
<1>7. ASSUME Acceptable(w, o)
      PROVE  /\ CopyOf(w, x) /\ objects[x] \in Object
             /\ Put(x, "status", o) \in Object
             /\ Put(x, "status", o).spec = objects[x].spec
             /\ Put(x, "status", o).deleting = objects[x].deleting
             /\ Put(x, "status", o).finalizer = objects[x].finalizer
             /\ Put(x, "status", o).status = o.status
             /\ \E e \in Entry \union {None} :
                  Put(x, "status", o) = [objects[x] EXCEPT !.status[n] = e]
  <2>1. CopyOf(w, x) /\ objects[x] \in Object
    BY <1>1, <1>2, <1>7 DEF Acceptable, Accepts, TypeOK, ApiTypeOK, OwnCopy
  <2> HIDE DEF o
  <2> QED BY <1>2, <1>3, <2>1, StatusStored
<1> HIDE DEF o
<1>8. ASSUME Acceptable(w, o), objects' = [objects EXCEPT ![x] = Put(x, "status", o)]
      PROVE  ObjectStep(w)
  <2>1. Put(x, "status", o).status[n] = o.status[n]
    BY <1>7, <1>8
  <2>2. Healthy(Put(x, "status", o), n) => objects[x].finalizer /\ ~objects[x].deleting
    BY <1>2, <1>3, <1>4, <1>7, <1>8, <2>1 DEF Healthy, CopyOf
  <2> QED BY <1>2, <1>7, <1>8, <2>2 DEF ObjectStep
<1>9. /\ UNCHANGED objects \/ ObjectStep(w)
      /\ \A c \in Clients \ {w} : Undisturbed(c)
      /\ \A y \in Names \ {x} : w \in latest'[y] => w \in latest[y]
      /\ w \in latest'[x] => /\ o.deleting
                             /\ CopyOf(w, x)
                             /\ objects'[x] # None
                             /\ Encoded(objects'[x].spec) = Encoded(o.spec)
                             /\ objects'[x].deleting = o.deleting
                             /\ \A m \in Nodes \ {n} : o.status[m] = objects'[x].status[m]
  <2>1. CASE Applied(w, "status", o, o.deleting)
    <3>1. /\ Acceptable(w, o)
          /\ objects' = [objects EXCEPT ![x] = Put(x, "status", o)]
          /\ objects'[x] = Put(x, "status", o)
          /\ \A c \in Clients \ {w} : Undisturbed(c)
          /\ \A y \in Names \ {x} : w \in latest'[y] => w \in latest[y]
          /\ w \in latest'[x] => o.deleting
      <4>1. TypeOK /\ job.pc \in PCs /\ o \in Object
        BY <1>1, <1>3
      <4>2. \/ Applied(w, "status", o, TRUE) /\ o.deleting
            \/ Applied(w, "status", o, FALSE)
        BY <1>3, <2>1
      <4>3. CASE Applied(w, "status", o, TRUE) /\ o.deleting
        BY <4>1, <4>3, AppliedKeep
      <4>4. CASE Applied(w, "status", o, FALSE)
        BY <4>1, <4>4, AppliedDrop
      <4> QED BY <4>2, <4>3, <4>4
    <3>2. objects'[x] # None
      BY <1>7, <3>1, RecordAssumption
    <3> QED BY <1>2, <1>3, <1>7, <1>8, <3>1, <3>2 DEF CopyOf
  <2>2. CASE Failed(w, "status", o, o.deleting)
    <3>1. /\ \/ UNCHANGED objects
             \/ Acceptable(w, o) /\ objects' = [objects EXCEPT ![x] = Put(x, "status", o)]
          /\ \A c \in Clients : Undisturbed(c)
          /\ w \in latest'[x] => o.deleting
      <4>1. TypeOK /\ job.pc \in PCs /\ o \in Object
        BY <1>1, <1>3
      <4>2. \/ Failed(w, "status", o, TRUE) /\ o.deleting
            \/ Failed(w, "status", o, FALSE)
        BY <1>3, <2>2
      <4>3. CASE Failed(w, "status", o, TRUE) /\ o.deleting
        BY <4>1, <4>3, FailedKeep
      <4>4. CASE Failed(w, "status", o, FALSE)
        BY <4>1, <4>4, FailedDrop
      <4> QED BY <4>2, <4>3, <4>4
    <3>2. w \in latest'[x] => w \in latest[x] /\ objects'[x] = objects[x] /\ CopyOf(w, x)
      BY <1>1, <1>2, <3>1 DEF Undisturbed, OwnCopy
    <3>3. \A y \in Names \ {x} : w \in latest'[y] => w \in latest[y]
      BY <1>1, <3>1 DEF Undisturbed
    <3> QED BY <1>3, <1>8, <3>1, <3>2, <3>3 DEF CopyOf
  <2> QED BY <2>1, <2>2 DEF ReportStatus, o
<1>10. new \in Job /\ new.inst = o /\ new.name = x
  BY <1>2, <1>3 DEF Job
<1>11. CASE o.deleting
  <2>1. j \in Job /\ j.pc = "deregister" /\ j.inst = o /\ j.name = x
    BY <1>10 DEF PCs, Job
  <2>2. Goto(w, j)
    BY <1>5, <1>10, <1>11 DEF AfterReport
  <2> HIDE DEF j
  <2>3. worker'[w] = j /\ \A v \in Workers \ {w} : worker'[v] = worker[v]
    BY <1>1, <2>2, GotoOthers
  <2>4. ~Joining(w)'
    BY <2>1, <2>3 DEF Joining
  <2>5. OwnJob(w)'
    BY <1>4, <1>11, <2>1, <2>3, <2>4 DEF OwnJob
  <2>6. w \in latest'[x] => CopyOf(w, x)'
    BY <1>9, <2>1, <2>3, <2>4 DEF CopyOf
  <2>7. OwnCopy(w)'
    <3>1. /\ OwnCopy(w) /\ x \in Names
          /\ \A y \in Names \ {x} : w \in latest'[y] => w \in latest[y]
          /\ worker'[w].name = x
      BY <1>1, <1>2, <1>9, <2>1, <2>3
    <3> QED BY <2>6, <3>1, OwnCopyNext
  <2> QED BY <1>6, <1>9, <2>3, <2>5, <2>7 DEF StepOK
<1>12. CASE ~o.deleting
  <2>1. Goto(w, Idle)
    BY <1>5, <1>10, <1>12 DEF AfterReport, Finish
  <2>2. worker'[w] = Idle /\ \A v \in Workers \ {w} : worker'[v] = worker[v]
    BY <1>1, <2>1, GotoOthers
  <2>3. OwnCopy(w)' /\ OwnJob(w)'
    BY <1>1, <1>2, <1>9, <1>12, <2>2, OwnCopyIdle
  <2> QED BY <1>6, <1>9, <2>2, <2>3 DEF StepOK
<1> QED BY <1>11, <1>12

\* Only the worker that stored an empty status goes on to the finalizer.
LEMMA ForgetStatusOK ==
  ASSUME IInv, NEW w \in Workers, ForgetStatus(w)
  PROVE  StepOK(w)
<1> DEFINE job == worker[w]
           n == NodeOf(w)
           x == job.name
           o == job.inst
           j == [job EXCEPT !.pc = "release"]
           stored == Put(x, "status", o)
<1>1. /\ TypeOK /\ OwnCopy(w) /\ OwnJob(w)
      /\ job.pc = "forget" /\ job.pc \in PCs
      /\ n \in Nodes /\ w \in Clients
  BY PerWorker, WorkerNode DEF IInv, ForgetStatus, PCs
<1>2. job \in Job /\ x \in Names /\ o \in Object /\ ~Healthy(o, n)
  BY <1>1, Busy DEF OwnJob
<1>3. UNCHANGED cache
  BY DEF ForgetStatus
<1>4. ASSUME Acceptable(w, o)
      PROVE  /\ CopyOf(w, x) /\ objects[x] \in Object
             /\ stored \in Object
             /\ stored.spec = objects[x].spec
             /\ stored.deleting = objects[x].deleting
             /\ stored.status = o.status
             /\ \E e \in Entry \union {None} : stored = [objects[x] EXCEPT !.status[n] = e]
  <2>1. CopyOf(w, x) /\ objects[x] \in Object
    BY <1>1, <1>2, <1>4 DEF Acceptable, Accepts, TypeOK, ApiTypeOK, OwnCopy
  <2> QED BY <1>2, <2>1, StatusStored
<1> HIDE DEF stored
<1>5. ASSUME Acceptable(w, o), objects' = [objects EXCEPT ![x] = stored]
      PROVE  ObjectStep(w)
  <2>1. ~Healthy(stored, n)
    BY <1>2, <1>4, <1>5 DEF Healthy
  <2> QED BY <1>2, <1>4, <1>5, <2>1 DEF ObjectStep
<1>6. ASSUME Applied(w, "status", o, TRUE) \/ Applied(w, "status", o, FALSE)
      PROVE  /\ Acceptable(w, o)
             /\ objects' = [objects EXCEPT ![x] = stored]
             /\ objects'[x] = stored
             /\ \A c \in Clients \ {w} : Undisturbed(c)
             /\ \A y \in Names \ {x} : w \in latest'[y] => w \in latest[y]
             /\ Applied(w, "status", o, FALSE) => w \notin latest'[x]
  <2>1. TypeOK /\ job.pc \in PCs /\ o \in Object
    BY <1>1, <1>2
  <2> HIDE DEF o
  <2>2. CASE Applied(w, "status", o, FALSE)
    <3>1. /\ Acceptable(w, o)
          /\ objects' = [objects EXCEPT ![x] = Put(x, "status", o)]
          /\ objects'[x] = Put(x, "status", o)
          /\ \A c \in Clients \ {w} : Undisturbed(c)
          /\ \A y \in Names \ {x} : w \in latest'[y] => w \in latest[y]
          /\ w \notin latest'[x]
      BY <2>1, <2>2, AppliedDrop
    <3> QED BY <3>1 DEF stored
  <2>3. CASE ~Applied(w, "status", o, FALSE)
    <3>1. Applied(w, "status", o, TRUE)
      BY <1>6, <2>3
    <3>2. /\ Acceptable(w, o)
          /\ objects' = [objects EXCEPT ![x] = Put(x, "status", o)]
          /\ objects'[x] = Put(x, "status", o)
          /\ \A c \in Clients \ {w} : Undisturbed(c)
          /\ \A y \in Names \ {x} : w \in latest'[y] => w \in latest[y]
      BY <2>1, <3>1, AppliedKeep
    <3> QED BY <2>3, <3>2 DEF stored
  <2> QED BY <2>2, <2>3
<1>7. CASE NoEntries(o) /\ Applied(w, "status", o, TRUE) /\ Goto(w, j)
  <2>1. j \in Job /\ j.pc = "release" /\ j.inst = o /\ j.name = x
    BY <1>2 DEF PCs, Job
  <2>2. worker'[w] = j /\ \A v \in Workers \ {w} : worker'[v] = worker[v]
    BY <1>1, <1>7, GotoOthers
  <2> HIDE DEF j
  <2>3. ~Joining(w)'
    BY <2>1, <2>2 DEF Joining
  <2>4. OwnJob(w)'
    BY <2>1, <2>2, <2>3 DEF OwnJob
  <2>5. objects'[x] = stored /\ stored # None /\ NoEntries(stored)
    BY <1>4, <1>6, <1>7, RecordAssumption DEF NoEntries
  <2>6. CopyOf(w, x)'
    BY <1>4, <1>6, <1>7, <2>1, <2>2, <2>3, <2>5 DEF CopyOf
  <2>7. OwnCopy(w)'
    <3>1. /\ OwnCopy(w) /\ x \in Names
          /\ \A y \in Names \ {x} : w \in latest'[y] => w \in latest[y]
          /\ worker'[w].name = x
      BY <1>1, <1>2, <1>6, <1>7, <2>1, <2>2
    <3> QED BY <2>6, <3>1, OwnCopyNext
  <2> QED BY <1>3, <1>5, <1>6, <1>7, <2>2, <2>4, <2>7 DEF StepOK
<1>8. CASE Applied(w, "status", o, FALSE) /\ Goto(w, Idle)
  <2>1. worker'[w] = Idle /\ \A v \in Workers \ {w} : worker'[v] = worker[v]
    BY <1>1, <1>8, GotoOthers
  <2>2. OwnCopy(w)' /\ OwnJob(w)'
    BY <1>1, <1>2, <1>6, <1>8, <2>1, OwnCopyIdle
  <2> QED BY <1>3, <1>5, <1>6, <1>8, <2>1, <2>2 DEF StepOK
<1>9. CASE Failed(w, "status", o, FALSE) /\ Goto(w, Idle)
  <2>1. /\ \/ UNCHANGED objects
           \/ Acceptable(w, o) /\ objects' = [objects EXCEPT ![x] = stored]
        /\ \A c \in Clients : Undisturbed(c)
        /\ w \notin latest'[x]
    <3>1. TypeOK /\ job.pc \in PCs /\ o \in Object
      BY <1>1, <1>2
    <3> QED BY <1>9, <3>1, FailedDrop DEF stored
  <2>2. worker'[w] = Idle /\ \A v \in Workers \ {w} : worker'[v] = worker[v]
    BY <1>1, <1>9, GotoOthers
  <2>3. OwnCopy(w)' /\ OwnJob(w)'
    BY <1>1, <1>2, <2>1, <2>2, OwnCopyIdle DEF Undisturbed
  <2> QED BY <1>3, <1>5, <2>1, <2>2, <2>3 DEF StepOK
<1> QED BY <1>7, <1>8, <1>9 DEF ForgetStatus, Finish

\* The finalizer goes only when no entry is left.
LEMMA ReleaseFinalizerOK ==
  ASSUME IInv, NEW w \in Workers, ReleaseFinalizer(w)
  PROVE  StepOK(w)
<1> DEFINE job == worker[w]
           x == job.name
           o == [job.inst EXCEPT !.finalizer = FALSE]
           stored == Put(x, "object", o)
<1>1. /\ TypeOK /\ OwnCopy(w)
      /\ job.pc = "release" /\ job.pc \in PCs
      /\ w \in Clients
  BY PerWorker, WorkerNode DEF IInv, ReleaseFinalizer, PCs
<1>2. x \in Names /\ job.inst \in Object
  BY <1>1, Busy
<1>3. o \in Object /\ ~o.finalizer /\ o.spec = job.inst.spec
  BY <1>2 DEF Object
<1> HIDE DEF o
<1>4. ASSUME Acceptable(w, o), objects' = [objects EXCEPT ![x] = stored]
      PROVE  ObjectStep(w)
  <2>1. CopyOf(w, x) /\ objects[x] \in Object
    BY <1>1, <1>2, <1>4 DEF Acceptable, Accepts, TypeOK, ApiTypeOK, OwnCopy
  <2>2. stored = IF objects[x].deleting THEN None ELSE Stored(objects[x], FALSE)
    BY <1>3, <2>1 DEF Put, WithMeta, CopyOf, Stored, Object
  <2>3. NoEntries(objects[x])
    BY <1>1, <2>1 DEF CopyOf
  <2> HIDE DEF stored
  <2> QED BY <1>2, <1>4, <2>1, <2>2, <2>3 DEF ObjectStep
<1>5. Goto(w, Idle) /\ UNCHANGED cache
  BY DEF ReleaseFinalizer, Finish
<1>6. worker'[w] = Idle /\ \A v \in Workers \ {w} : worker'[v] = worker[v]
  BY <1>1, <1>5, GotoOthers
<1>7. /\ UNCHANGED objects \/ ObjectStep(w)
      /\ \A c \in Clients \ {w} : Undisturbed(c)
      /\ \A y \in Names \ {x} : w \in latest'[y] => w \in latest[y]
      /\ w \notin latest'[x]
  <2>1. TypeOK /\ job.pc \in PCs /\ o \in Object
    BY <1>1, <1>3
  <2>2. CASE Applied(w, "object", o, FALSE)
    <3>1. /\ Acceptable(w, o)
          /\ objects' = [objects EXCEPT ![x] = stored]
          /\ \A c \in Clients \ {w} : Undisturbed(c)
          /\ \A y \in Names \ {x} : w \in latest'[y] => w \in latest[y]
          /\ w \notin latest'[x]
      BY <2>1, <2>2, AppliedDrop
    <3> QED BY <1>4, <3>1
  <2>3. CASE Failed(w, "object", o, FALSE)
    <3>1. /\ \/ UNCHANGED objects
             \/ Acceptable(w, o) /\ objects' = [objects EXCEPT ![x] = stored]
          /\ \A c \in Clients : Undisturbed(c)
          /\ w \notin latest'[x]
      BY <2>1, <2>3, FailedDrop
    <3> QED BY <1>1, <1>4, <3>1 DEF Undisturbed
  <2> QED BY <2>2, <2>3 DEF ReleaseFinalizer, o
<1>8. OwnCopy(w)' /\ OwnJob(w)'
  BY <1>1, <1>2, <1>6, <1>7, OwnCopyIdle
<1> QED BY <1>5, <1>6, <1>7, <1>8 DEF StepOK

\* Whatever a worker that has begun does next.
LEMMA StepsOK ==
  ASSUME IInv, NEW w \in Workers, Step(w)
  PROVE  StepOK(w)
BY StoreFinalizerOK, CheckRegisteredOK, RegisterRouteOK, RegisterFailsOK, NothingToReportOK,
   ReportStatusOK, DeRegisterRouteOK, DeRegisterFailsOK, ForgetStatusOK, ReleaseFinalizerOK
   DEF Step

-----------------------------------------------------------------------------
(***************************************************************************)
(* The beginning of a reconciliation                                       *)
(***************************************************************************)
\* An idle worker has no current copy.
LEMMA IdleOwnsNothing ==
  ASSUME NEW w \in Workers, worker[w].pc = "idle", OwnCopy(w)
  PROVE  \A x \in Names : w \notin latest[x]
<1> SUFFICES ASSUME NEW x \in Names, w \in latest[x] PROVE FALSE
  OBVIOUS
<1>1. worker[w] \in Job
  BY DEF OwnCopy, CopyOf
<1>2. worker[w].pc \in PCs
  BY <1>1 DEF Job
<1> QED BY <1>2 DEF PCs

\* A reconciliation that goes no further changes nothing that IInv is about.
LEMMA SkipOK ==
  ASSUME IInv, NEW w \in Workers, NEW x \in Names, NEW again, Skip(w, x, again)
  PROVE  StepOK(w)
<1>1. UNCHANGED <<objects, latest, cache, worker>>
  BY DEF Skip
<1>2. OwnCopy(w) /\ OwnJob(w)
  BY PerWorker DEF IInv
<1>3. \A c \in Clients : Undisturbed(c)
  BY <1>1 DEF Undisturbed
<1>4. w \in Clients
  BY WorkerNode
<1>5. OwnCopy(w)' /\ OwnJob(w)'
  BY <1>1, <1>2, <1>3, <1>4, WorkerKept
<1> QED BY <1>1, <1>3, <1>5 DEF StepOK

\* A copy taken from the cache is current only if the cache is.
LEMMA StartOK ==
  ASSUME IInv, NEW w \in Workers, NEW x \in Names, NEW o \in Object, NEW job \in Job,
         worker[w].pc = "idle",
         o = cache[NodeOf(w)][x],
         Start(w, x, job),
         job.name = x, job.inst.spec = o.spec, job.inst.deleting = o.deleting,
         \A m \in Nodes \ {NodeOf(w)} : job.inst.status[m] = o.status[m],
         job.pc \in {"finalizer", "register", "report", "deregister"},
         job.pc = "finalizer" => ~o.deleting,
         job.pc = "register" => ~o.deleting /\ o.finalizer,
         job.pc = "report" => job.err # "" \/ job.gw \notin Gateways,
         job.pc = "deregister" => ~Healthy(job.inst, NodeOf(w))
  PROVE  StepOK(w)
<1> DEFINE n == NodeOf(w)
<1>1. TypeOK /\ OwnCopy(w) /\ CacheCurrent /\ n \in Nodes /\ w \in Clients
  BY PerWorker, WorkerNode DEF IInv
<1>2. /\ UNCHANGED <<objects, cache>>
      /\ worker'[w] = job
      /\ \A v \in Workers \ {w} : worker'[v] = worker[v]
  BY <1>1, GotoOthers DEF Start
<1>3. /\ \A c \in Clients \ {w} : Undisturbed(c)
      /\ \A y \in Names : w \in latest'[y] => y = x /\ n \in latest[x]
  <2>1. latest' = [latest EXCEPT ![x] = IF n \in @ THEN @ \union {w} ELSE @]
    BY DEF Start
  <2>2. \A y \in Names : w \notin latest[y]
    BY <1>1, IdleOwnsNothing
  <2> QED BY <1>1, <1>2, <2>1, <2>2 DEF TypeOK, ApiTypeOK, Undisturbed
<1>4. OwnJob(w)'
  BY <1>2 DEF OwnJob, Joining
<1>5. ASSUME NEW y \in Names, w \in latest'[y]
      PROVE  CopyOf(w, y)'
  <2>1. y = x /\ objects'[x] = o
    BY <1>1, <1>2, <1>3, <1>5 DEF CacheCurrent
  <2>2. o # None
    BY RecordAssumption
  <2>3. Joining(w)' => o.finalizer
    BY <1>2 DEF Joining
  <2> QED BY <1>2, <2>1, <2>2, <2>3 DEF CopyOf
<1>6. OwnCopy(w)'
  BY <1>5 DEF OwnCopy
<1> QED BY <1>2, <1>3, <1>4, <1>6 DEF StepOK

\* The two ways of an early return.
LEMMA ReportOK ==
  ASSUME IInv, NEW w \in Workers, NEW x \in Names, NEW o \in Object,
         worker[w].pc = "idle", o = cache[NodeOf(w)][x],
         NEW gw \in ShownGateways, NEW err \in Errors, NEW again \in BOOLEAN,
         err # "" \/ gw \notin Gateways,
         \/ Start(w, x, NewJob(x, "report", o, gw, err, again))
         \/ Refuse(w, x, o, gw, err, again)
  PROVE  StepOK(w)
<1> DEFINE job == NewJob(x, "report", o, gw, err, again)
<1>1. job \in Job
  BY DEF NewJob, Job, PCs
<1>2. /\ job.name = x /\ job.inst = o /\ job.pc = "report"
      /\ job.gw = gw /\ job.err = err
  BY DEF NewJob
<1>3. Start(w, x, job) \/ Skip(w, x, again)
  BY DEF Refuse
<1> HIDE DEF job
<1>4. CASE Start(w, x, job)
  BY <1>1, <1>2, <1>4, StartOK
<1>5. CASE Skip(w, x, again)
  BY <1>5, SkipOK
<1> QED BY <1>3, <1>4, <1>5

\* The copy of a withdrawing worker has no entry of its own node.
LEMMA WithdrawOK ==
  ASSUME IInv, NEW w \in Workers, NEW x \in Names, NEW o \in Object,
         worker[w].pc = "idle", o = cache[NodeOf(w)][x],
         Withdraw(w, x, NodeOf(w), o)
  PROVE  StepOK(w)
<1> DEFINE n == NodeOf(w)
           r == RemoveFromStatus(o, n)
           again == IsChanged(o, n, NextHop(n, o))
           job == NewJob(x, "deregister", r, NextHop(n, o), "", again)
<1>1. n \in Nodes
  BY WorkerNode
<1>2. /\ r \in Object /\ r.spec = o.spec /\ r.deleting = o.deleting
      /\ \A m \in Nodes \ {n} : r.status[m] = o.status[m]
      /\ r.status[n] = None
  BY <1>1 DEF RemoveFromStatus, Object, Status
<1>3. ~Healthy(r, n)
  BY <1>2 DEF Healthy
<1>4. again \in BOOLEAN /\ NextHop(n, o) \in ShownGateways /\ "" \in Errors
  BY <1>1, RouteTypes DEF IsChanged, Errors, ShownGateways
<1>5. CASE Start(w, x, job)
  <2> HIDE DEF r, again
  <2>1. job \in Job
    BY <1>2, <1>4 DEF NewJob, Job, PCs
  <2>2. job.name = x /\ job.inst = r /\ job.pc = "deregister"
    BY DEF NewJob
  <2> HIDE DEF job
  <2> QED BY <1>2, <1>3, <1>5, <2>1, <2>2, StartOK
<1>6. CASE Skip(w, x, FALSE)
  BY <1>6, SkipOK
<1> QED BY <1>5, <1>6 DEF Withdraw

\* A providing worker saw no deletion; it joins at once if it saw the finalizer.
LEMMA ProvideOK ==
  ASSUME IInv, NEW w \in Workers, NEW x \in Names, NEW o \in Object,
         worker[w].pc = "idle", o = cache[NodeOf(w)][x],
         Provide(w, x, NodeOf(w), o)
  PROVE  StepOK(w)
<1> DEFINE n == NodeOf(w)
           pc == IF o.finalizer THEN "register" ELSE "finalizer"
           job == NewJob(x, pc, o, NextHop(n, o), "", FALSE)
<1>1. n \in Nodes
  BY WorkerNode
<1>2. ~o.deleting /\ Start(w, x, job)
  BY DEF Provide, MustWithdraw
<1>3. NextHop(n, o) \in ShownGateways /\ "" \in Errors
  BY <1>1, RouteTypes DEF Errors, ShownGateways
<1>4. /\ job \in Job
      /\ job.name = x /\ job.inst = o /\ job.pc = pc
  BY <1>3 DEF NewJob, Job, PCs
<1>5. pc = "finalizer" \/ (pc = "register" /\ o.finalizer)
  OBVIOUS
<1> HIDE DEF job, pc
<1> QED BY <1>2, <1>4, <1>5, StartOK

\* Whatever an idle worker decides.
LEMMA BeginOK ==
  ASSUME IInv, NEW w \in Workers, NEW x \in Names, Begin(w, x)
  PROVE  StepOK(w) /\ UNCHANGED objects
<1> DEFINE n == NodeOf(w)
           o == cache[n][x]
<1>1. TypeOK /\ n \in Nodes /\ worker[w].pc = "idle"
  BY WorkerNode DEF IInv, Begin
<1>2. o = None \/ o \in Object
  BY <1>1 DEF TypeOK
<1>3. /\ {"", "overlap", "nextHop", "list", "get"} \subseteq Errors
      /\ ZeroGw \in ShownGateways \ Gateways
      /\ NilGw \in ShownGateways \ Gateways
  BY GatewayAssumption DEF Errors, ShownGateways
<1>4. CASE \E again : Skip(w, x, again)
  BY <1>4, SkipOK DEF Skip
<1>5. ASSUME o # None, WrongSelector(w, x, o)
      PROVE  StepOK(w) /\ UNCHANGED objects
  BY <1>1, <1>2, <1>3, <1>5, ReportOK DEF WrongSelector, Start
<1>6. ASSUME o # None, NodeListFails(w, x, o)
      PROVE  StepOK(w) /\ UNCHANGED objects
  BY <1>1, <1>2, <1>3, <1>6, ReportOK DEF NodeListFails, Start
<1>7. ASSUME o # None, Overlaps(w, x, n, o)
      PROVE  StepOK(w) /\ UNCHANGED objects
  BY <1>1, <1>2, <1>3, <1>7, ReportOK DEF Overlaps, Refuse, Start, Skip
<1>8. ASSUME o # None, InvalidGateway(w, x, n, o)
      PROVE  StepOK(w) /\ UNCHANGED objects
  BY <1>1, <1>2, <1>3, <1>8, ReportOK DEF InvalidGateway, Refuse, Start, Skip
<1>9. ASSUME o # None, RouteGetFails(w, x, n, o)
      PROVE  StepOK(w) /\ UNCHANGED objects
  BY <1>1, <1>2, <1>3, <1>9, ReportOK DEF RouteGetFails, Refuse, Start, Skip
<1>10. ASSUME o # None, NotDirectlyRoutable(w, x, n, o)
       PROVE  StepOK(w) /\ UNCHANGED objects
  <2>1. o.spec.gateway \in ShownGateways
    BY <1>2, <1>10 DEF NotDirectlyRoutable, Object, RouteSpec, ShownGateways
  <2> QED BY <1>1, <1>2, <1>3, <1>10, <2>1, ReportOK DEF NotDirectlyRoutable, Refuse, Start, Skip
<1>11. ASSUME o # None, NoNextHop(w, x, n, o)
       PROVE  StepOK(w) /\ UNCHANGED objects
  BY <1>1, <1>2, <1>3, <1>11, ReportOK DEF NoNextHop, Refuse, Start, Skip
<1>12. ASSUME o # None, Withdraw(w, x, n, o)
       PROVE  StepOK(w) /\ UNCHANGED objects
  BY <1>1, <1>2, <1>12, WithdrawOK DEF Withdraw, Start, Skip
<1>13. ASSUME o # None, Provide(w, x, n, o)
       PROVE  StepOK(w) /\ UNCHANGED objects
  BY <1>1, <1>2, <1>13, ProvideOK DEF Provide, Start
<1>14. ASSUME o # None, NotSelected(w, x, n, o)
       PROVE  StepOK(w) /\ UNCHANGED objects
  BY <1>14, SkipOK DEF NotSelected, Skip
<1> QED
  BY <1>4, <1>5, <1>6, <1>7, <1>8, <1>9, <1>10, <1>11, <1>12, <1>13, <1>14 DEF Begin

-----------------------------------------------------------------------------
(***************************************************************************)
(* Events                                                                  *)
(***************************************************************************)
\* With the workers as they were, only the currency of the copies matters.
LEMMA AllKept ==
  ASSUME IInv, UNCHANGED worker, \A w \in Workers : Undisturbed(w), CacheCurrent', TypeOK',
         HealthyHeld', DoomedHeld'
  PROVE  IInv'
<1>1. \A w \in Workers : OwnCopy(w)' /\ OwnJob(w)'
  BY PerWorker, WorkerKept DEF IInv
<1> QED BY <1>1, PerWorkerNext DEF IInv

\* What the administrator does to an object: x has another version then.
UserStep(x) ==
  /\ UNCHANGED <<cache, worker>>
  /\ latest' = [latest EXCEPT ![x] = {}]
  /\ \/ /\ objects[x] = None
        /\ \E s \in Specs[x] : objects' = [objects EXCEPT ![x] = NewObject(s)]
     \/ /\ objects[x] # None
        /\ \E s \in Specs[x] : objects' = [objects EXCEPT ![x].spec = s]
     \/ /\ objects[x] # None
        /\ ~objects[x].deleting
        /\ objects' = [objects EXCEPT ![x] = IF objects[x].finalizer
                                              THEN [objects[x] EXCEPT !.deleting = TRUE]
                                              ELSE None]

\* Everything the administrator does is a UserStep of one object.
LEMMA UserSteps ==
  ASSUME TypeOK, User
  PROVE  \E x \in Names : UserStep(x)
<1>1. PICK x \in Names : UserCreates(x) \/ UserEdits(x) \/ UserDeletes(x)
  BY DEF User
<1>2. CASE UserCreates(x)
  BY <1>2 DEF UserCreates, Create, Overwrite, UserStep, podVars
<1>3. CASE UserEdits(x)
  BY <1>3 DEF UserEdits, Edit, Overwrite, UserStep, podVars, TypeOK, ApiTypeOK
<1>4. CASE UserDeletes(x)
  BY <1>4 DEF UserDeletes, Delete, Overwrite, UserStep, podVars
<1> QED BY <1>1, <1>2, <1>3, <1>4

\* Neither does any of this show a node in the status without the finalizer.
LEMMA UserHeld ==
  ASSUME TypeOK, HealthyHeld, NEW x \in Names, UserStep(x)
  PROVE  HealthyHeld'
<1> SUFFICES ASSUME NEW y \in Names, NEW n \in Nodes,
                    objects'[y] # None, Healthy(objects'[y], n)
             PROVE  objects'[y].finalizer
  BY DEF HealthyHeld, HealthyNodes, Healthy
<1>1. CASE y # x
  <2>1. objects'[y] = objects[y]
    BY <1>1 DEF UserStep, TypeOK, ApiTypeOK
  <2> QED BY <2>1 DEF HealthyHeld, HealthyNodes
<1>2. ASSUME y = x, NEW s \in Specs[x], objects' = [objects EXCEPT ![x] = NewObject(s)]
      PROVE  FALSE
  <2>1. objects'[x] = NewObject(s)
    BY <1>2 DEF TypeOK, ApiTypeOK
  <2>2. objects'[x].status[n] = None
    BY <2>1 DEF NewObject
  <2> QED BY <1>2, <2>2 DEF Healthy
<1>3. ASSUME y = x, objects[x] # None, NEW s \in Specs[x], objects' = [objects EXCEPT ![x].spec = s]
      PROVE  objects'[y].finalizer
  <2>1. /\ objects'[x].status = objects[x].status
        /\ objects'[x].finalizer = objects[x].finalizer
    BY <1>3 DEF TypeOK, ApiTypeOK, Object
  <2>2. Healthy(objects[x], n)
    BY <1>3, <2>1 DEF Healthy
  <2> QED BY <1>3, <2>1, <2>2 DEF HealthyHeld, HealthyNodes
<1>4. ASSUME y = x, objects[x] # None,
             objects' = [objects EXCEPT ![x] = IF objects[x].finalizer
                                                THEN [objects[x] EXCEPT !.deleting = TRUE]
                                                ELSE None]
      PROVE  objects'[y].finalizer
  BY <1>4 DEF TypeOK, ApiTypeOK, Object
<1> QED BY <1>1, <1>2, <1>3, <1>4 DEF UserStep

\* Nor does it ask for a deletion that nothing holds up.
LEMMA UserDoomed ==
  ASSUME TypeOK, DoomedHeld, NEW x \in Names, UserStep(x)
  PROVE  DoomedHeld'
<1> SUFFICES ASSUME NEW y \in Names, objects'[y] # None, objects'[y].deleting
             PROVE  objects'[y].finalizer
  BY DEF DoomedHeld
<1>1. CASE objects'[y] = objects[y]
  BY <1>1 DEF DoomedHeld
<1>2. ASSUME NEW s \in Specs[x], objects' = [objects EXCEPT ![x] = NewObject(s)],
             objects'[y] # objects[y]
      PROVE  FALSE
  BY <1>2 DEF TypeOK, ApiTypeOK, NewObject
<1>3. ASSUME objects[x] # None, NEW s \in Specs[x], objects' = [objects EXCEPT ![x].spec = s],
             objects'[y] # objects[y]
      PROVE  objects'[y].finalizer
  <2>1. /\ y = x
        /\ objects'[x].deleting = objects[x].deleting
        /\ objects'[x].finalizer = objects[x].finalizer
    BY <1>3 DEF TypeOK, ApiTypeOK, Object
  <2> QED BY <1>3, <2>1 DEF DoomedHeld
<1>4. ASSUME objects[x] # None, objects'[y] # objects[y],
             objects' = [objects EXCEPT ![x] = IF objects[x].finalizer
                                                THEN [objects[x] EXCEPT !.deleting = TRUE]
                                                ELSE None]
      PROVE  objects'[y].finalizer
  BY <1>4 DEF TypeOK, ApiTypeOK, Object
<1> QED BY <1>1, <1>2, <1>3, <1>4 DEF UserStep

\* So IInv survives the administrator.
LEMMA UserOK ==
  ASSUME IInv, User, TypeOK'
  PROVE  IInv'
<1>1. PICK x \in Names : UserStep(x)
  BY UserSteps DEF IInv
<1>2. \A c \in Clients : Undisturbed(c)
  BY <1>1 DEF UserStep, Undisturbed, IInv, TypeOK, ApiTypeOK
<1>3. CacheCurrent'
  BY <1>1, <1>2, CacheKept DEF UserStep, IInv, Clients
<1>4. HealthyHeld'
  BY <1>1, UserHeld DEF IInv
<1>5. DoomedHeld'
  BY <1>1, UserDoomed DEF IInv
<1> QED BY <1>1, <1>2, <1>3, <1>4, <1>5, AllKept, WorkerNode DEF UserStep, Clients

\* The watches make a cache current by copying the stored object.
LEMMA WatchOK ==
  ASSUME IInv, Watch, TypeOK'
  PROVE  IInv'
<1>1. ASSUME NEW n \in Nodes, NEW m \in Nodes, ObserveNode(n, m)
      PROVE  IInv'
  <2>1. UNCHANGED <<objects, latest, cache, worker>>
    BY <1>1 DEF ObserveNode, apiVars
  <2>2. \A c \in Clients : Undisturbed(c)
    BY <2>1 DEF Undisturbed
  <2> QED BY <2>1, <2>2, CacheKept, HeldKept, AllKept, WorkerNode DEF IInv, Clients
<1>2. ASSUME NEW n \in Nodes, NEW x \in Names, Observe(n, x)
      PROVE  IInv'
  <2>1. /\ UNCHANGED <<objects, worker>>
        /\ latest' = [latest EXCEPT ![x] = @ \union {n}]
        /\ cache' = [cache EXCEPT ![n][x] = objects[x]]
    BY <1>2 DEF Observe
  <2>2. \A w \in Workers : Undisturbed(w)
    BY <2>1, ClientAssumption, WorkerNode DEF Undisturbed, IInv, TypeOK, ApiTypeOK
  <2>3. CacheCurrent'
    <3> SUFFICES ASSUME NEW m \in Nodes, NEW y \in Names, m \in latest'[y]
                 PROVE  cache'[m][y] = objects'[y]
      BY DEF CacheCurrent
    <3>1. CASE m = n /\ y = x
      BY <2>1, <3>1 DEF IInv, TypeOK
    <3>2. CASE ~(m = n /\ y = x)
      <4>1. m \in latest[y] /\ cache'[m][y] = cache[m][y]
        BY <2>1, <3>2 DEF IInv, TypeOK, ApiTypeOK
      <4> QED BY <2>1, <4>1 DEF IInv, CacheCurrent
    <3> QED BY <3>1, <3>2
  <2> QED BY <2>1, <2>2, <2>3, HeldKept, AllKept DEF IInv
<1> QED BY <1>1, <1>2 DEF Watch

\* The workers of a pod that dies are idle, and nothing it held is current.
LEMMA DieOK ==
  ASSUME IInv, NEW n \in Nodes, Die(n), TypeOK', CacheCurrent',
         \A x \in Names : latest'[x] \subseteq HeldElsewhere(n, x) \union {n}
  PROVE  IInv'
<1>1. /\ UNCHANGED objects
      /\ worker' = [w \in Workers |-> IF NodeOf(w) = n THEN Idle ELSE worker[w]]
  BY DEF Die
<1>2. ASSUME NEW w \in Workers
      PROVE  OwnCopy(w)' /\ OwnJob(w)'
  <2>1. w \in Readers /\ w # n
    BY ClientAssumption, WorkerNode
  <2>2. CASE NodeOf(w) = n
    <3>1. \A x \in Names : w \notin latest'[x]
      BY <2>1, <2>2 DEF HeldElsewhere
    <3> QED BY <1>1, <2>2, <3>1, WorkerIdle
  <2>3. CASE NodeOf(w) # n
    <3>1. worker'[w] = worker[w] /\ Undisturbed(w)
      BY <1>1, <2>1, <2>3 DEF HeldElsewhere, Undisturbed
    <3> QED BY <3>1, PerWorker, WorkerKept DEF IInv
  <2> QED BY <2>2, <2>3
<1> QED BY <1>1, <1>2, HeldKept, PerWorkerNext DEF IInv

\* The caches of the others stay current when n lists its own.
LEMMA RebootOK ==
  ASSUME IInv, NEW n \in Nodes, Die(n), ListAll(n), TypeOK'
  PROVE  IInv'
<1>1. /\ UNCHANGED objects
      /\ cache' = [cache EXCEPT ![n] = objects]
      /\ \A x \in Names : latest'[x] = HeldElsewhere(n, x) \union {n}
  BY DEF Die, ListAll
<1>2. CacheCurrent'
  <2> SUFFICES ASSUME NEW m \in Nodes, NEW y \in Names, m \in latest'[y]
               PROVE  cache'[m][y] = objects'[y]
    BY DEF CacheCurrent
  <2>1. CASE m = n
    BY <1>1, <2>1 DEF IInv, TypeOK
  <2>2. CASE m # n
    <3>1. m \in latest[y] /\ cache'[m][y] = cache[m][y]
      BY <1>1, <2>2 DEF HeldElsewhere, IInv, TypeOK
    <3> QED BY <1>1, <3>1 DEF IInv, CacheCurrent
  <2> QED BY <2>1, <2>2
<1> QED BY <1>1, <1>2, DieOK

\* IInv survives restarts, label changes and resyncs.
LEMMA DisturbanceOK ==
  ASSUME IInv, Disturbance, TypeOK'
  PROVE  IInv'
<1>1. CASE \E n \in Nodes : Restart(n)
  BY <1>1, RebootOK DEF Restart
<1>2. CASE \/ \E n \in Nodes : Relabel(n)
           \/ \E w \in Workers, x \in Names : Resync(w, x)
  <2>1. UNCHANGED <<objects, latest, cache, worker>>
    BY <1>2 DEF Relabel, Resync, apiVars, podVars
  <2>2. \A c \in Clients : Undisturbed(c)
    BY <2>1 DEF Undisturbed
  <2> QED BY <2>1, <2>2, CacheKept, HeldKept, AllKept, WorkerNode DEF IInv, Clients
<1> QED BY <1>1, <1>2 DEF Disturbance

\* What a worker does to an object leaves the finalizer on a healthy status.
LEMMA ObjectStepHeld ==
  ASSUME TypeOK, HealthyHeld, NEW w \in Workers, ObjectStep(w)
  PROVE  HealthyHeld'
<1> DEFINE x == worker[w].name
           n == NodeOf(w)
           o == objects[x]
<1>0. x \in Names /\ o \in Object /\ n \in Nodes
  BY WorkerNode DEF ObjectStep
<1> SUFFICES ASSUME NEW y \in Names, NEW m \in Nodes,
                    objects'[y] # None, Healthy(objects'[y], m)
             PROVE  objects'[y].finalizer
  BY DEF HealthyHeld, HealthyNodes, Healthy
<1>1. CASE y # x
  <2>1. objects'[y] = objects[y]
    BY <1>0, <1>1 DEF ObjectStep, TypeOK, ApiTypeOK
  <2> QED BY <2>1 DEF HealthyHeld, HealthyNodes
<1>2. ASSUME y = x, objects' = [objects EXCEPT ![x] = Stored(o, TRUE)]
      PROVE  objects'[y].finalizer
  BY <1>0, <1>2, StoredObject DEF TypeOK, ApiTypeOK
<1>3. ASSUME y = x, NEW o2 \in Object, objects' = [objects EXCEPT ![x] = o2],
             NEW e \in Entry \union {None}, o2 = [o EXCEPT !.status[n] = e],
             Healthy(o2, n) => o.finalizer
      PROVE  objects'[y].finalizer
  <2>1. objects'[y] = o2 /\ o2.finalizer = o.finalizer
    BY <1>0, <1>3 DEF TypeOK, ApiTypeOK, Object
  <2>2. CASE m = n
    BY <1>3, <2>1, <2>2
  <2>3. CASE m # n
    <3>1. o2.status[m] = o.status[m]
      BY <1>0, <1>3, <2>3 DEF Object, Status
    <3>2. o # None /\ Healthy(o, m)
      BY <1>0, <2>1, <3>1, RecordAssumption DEF Healthy
    <3> QED BY <1>0, <2>1, <3>2 DEF HealthyHeld, HealthyNodes
  <2> QED BY <2>2, <2>3
<1>4. ASSUME y = x, NoEntries(o),
             objects' = [objects EXCEPT ![x] =
                           IF o.deleting THEN None ELSE Stored(o, FALSE)]
      PROVE  objects'[y].finalizer
  <2>1. objects'[y].status = o.status
    BY <1>0, <1>4, StoredObject DEF TypeOK, ApiTypeOK
  <2> QED BY <1>4, <2>1 DEF Healthy, NoEntries
<1> QED BY <1>1, <1>2, <1>3, <1>4 DEF ObjectStep

\* Nor does it leave a pending deletion without it.
LEMMA ObjectStepDoomed ==
  ASSUME TypeOK, DoomedHeld, NEW w \in Workers, ObjectStep(w)
  PROVE  DoomedHeld'
<1> DEFINE x == worker[w].name
           n == NodeOf(w)
           o == objects[x]
<1>0. x \in Names /\ o \in Object /\ n \in Nodes
  BY WorkerNode DEF ObjectStep
<1>1. o.deleting => o.finalizer
  BY <1>0, RecordAssumption DEF DoomedHeld
<1> SUFFICES ASSUME NEW y \in Names, objects'[y] # None, objects'[y].deleting
             PROVE  objects'[y].finalizer
  BY DEF DoomedHeld
<1>2. CASE y # x
  <2>1. objects'[y] = objects[y]
    BY <1>0, <1>2 DEF ObjectStep, TypeOK, ApiTypeOK
  <2> QED BY <2>1 DEF DoomedHeld
<1>3. ASSUME y = x, objects' = [objects EXCEPT ![x] = Stored(o, TRUE)]
      PROVE  objects'[y].finalizer
  BY <1>0, <1>3, StoredObject DEF TypeOK, ApiTypeOK
<1>4. ASSUME y = x, NEW o2 \in Object, objects' = [objects EXCEPT ![x] = o2],
             NEW e \in Entry \union {None}, o2 = [o EXCEPT !.status[n] = e]
      PROVE  objects'[y].finalizer
  <2>1. objects'[y].deleting = o.deleting /\ objects'[y].finalizer = o.finalizer
    BY <1>0, <1>4 DEF TypeOK, ApiTypeOK, Object
  <2> QED BY <1>1, <2>1
<1>5. ASSUME y = x,
             objects' = [objects EXCEPT ![x] =
                           IF o.deleting THEN None ELSE Stored(o, FALSE)]
      PROVE  FALSE
  BY <1>0, <1>5, StoredObject DEF TypeOK, ApiTypeOK
<1> QED BY <1>2, <1>3, <1>4, <1>5 DEF ObjectStep

\* A step of a worker keeps every part of IInv.
LEMMA WorkerOK ==
  ASSUME IInv, NEW w \in Workers, StepOK(w), TypeOK'
  PROVE  IInv'
<1>1. CacheCurrent'
  BY CacheKept, ClientAssumption, WorkerNode DEF StepOK, IInv, Clients
<1>2. \A v \in Workers : OwnCopy(v)' /\ OwnJob(v)'
  BY PerWorker, WorkerKept, WorkerNode DEF StepOK, IInv, Clients
<1>3. HealthyHeld' /\ DoomedHeld'
  BY HeldKept, ObjectStepHeld, ObjectStepDoomed DEF StepOK, IInv
<1> QED BY <1>1, <1>2, <1>3, PerWorkerNext DEF IInv

-----------------------------------------------------------------------------
(***************************************************************************)
(* The theorems                                                            *)
(***************************************************************************)
\* Every step is one of a worker, which StepOK describes, or an event.
LEMMA NextCases ==
  ASSUME IInv, [Next]_vars
  PROVE  \/ \E w \in Workers : StepOK(w)
         \/ User
         \/ Watch \/ Disturbance
         \/ UNCHANGED vars
BY StepsOK, BeginOK DEF Next

\* Nothing is held initially.
LEMMA InitOK == Init => IInv
<1> SUFFICES ASSUME Init PROVE IInv
  OBVIOUS
<1>1. TypeOK
  BY InitType
<1>2. /\ \A x \in Names : objects[x] = None /\ latest[x] = Nodes
      /\ \A n \in Nodes, x \in Names : cache[n][x] = None
      /\ \A w \in Workers : worker[w].pc = "idle"
  BY DEF Init, ApiInit, Idle
<1>3. CacheCurrent /\ HealthyHeld /\ DoomedHeld
  BY <1>2 DEF CacheCurrent, HealthyHeld, HealthyNodes, DoomedHeld
<1>4. ASSUME NEW w \in Workers PROVE OwnCopy(w) /\ OwnJob(w)
  <2>1. \A x \in Names : w \notin latest[x]
    BY <1>2, ClientAssumption, WorkerNode
  <2> QED BY <1>2, <2>1 DEF OwnCopy, OwnJob, Joining
<1> QED BY <1>1, <1>3, <1>4, PerWorker DEF IInv

\* IInv is inductive.
LEMMA NextOK ==
  ASSUME IInv, [Next]_vars
  PROVE  IInv'
<1>1. TypeOK'
  BY NextType DEF IInv
<1>2. CASE \E w \in Workers : StepOK(w)
  BY <1>1, <1>2, WorkerOK
<1>3. CASE User
  BY <1>1, <1>3, UserOK
<1>4. CASE Watch \/ Disturbance
  BY <1>1, <1>4, WatchOK, DisturbanceOK
<1>5. CASE UNCHANGED vars
  <2>1. UNCHANGED <<objects, latest, cache, worker>>
    BY <1>5 DEF vars
  <2>2. \A c \in Clients : Undisturbed(c)
    BY <2>1 DEF Undisturbed
  <2> QED BY <1>1, <2>1, <2>2, CacheKept, HeldKept, AllKept, WorkerNode DEF IInv, Clients
<1> QED BY <1>2, <1>3, <1>4, <1>5, NextCases

\* The inductive invariant: a copy that the API server would still accept
\* differs from the stored object only in what its worker may write.
THEOREM Inductive == Spec => []IInv
BY InitOK, NextOK, PTL DEF Spec

\* The finalizer is set as long as a node's status shows the route in place,
\* for any number of nodes, objects, specs and disturbances.
THEOREM AlwaysHeld == Spec => []HealthyHeld
<1>1. IInv => HealthyHeld
  BY DEF IInv
<1> QED BY <1>1, Inductive, PTL

-----------------------------------------------------------------------------
(***************************************************************************)
(* Action properties                                                       *)
(***************************************************************************)
\* A StaticRoute vanishes for good reason: no entry is left, or it had no finalizer.
LEMMA VanishOK ==
  ASSUME IInv, [Next]_vars, NEW x \in Names, objects[x] # None, objects'[x] = None
  PROVE  HealthyNodes(x) = {}
<1>1. CASE \E w \in Workers : StepOK(w)
  <2>1. PICK w \in Workers : ObjectStep(w)
    BY <1>1 DEF StepOK
  <2> DEFINE y == worker[w].name
             o == objects[y]
  <2>2. y \in Names /\ o \in Object
    BY <2>1 DEF ObjectStep
  <2>3. y = x
    BY <2>1, <2>2 DEF ObjectStep, IInv, TypeOK, ApiTypeOK
  <2>4. Stored(o, TRUE) \in Object /\ Stored(o, FALSE) \in Object
    BY <2>2, StoredObject
  <2>5. NoEntries(o)
    BY <2>1, <2>2, <2>3, <2>4, RecordAssumption DEF ObjectStep, IInv, TypeOK, ApiTypeOK
  <2> QED BY <2>3, <2>5 DEF HealthyNodes, Healthy, NoEntries
<1>2. CASE User
  <2>1. PICK y \in Names : UserStep(y)
    BY <1>2, UserSteps DEF IInv
  <2>2. CASE objects[x].finalizer
    <3>0. objects[x] \in Object
      BY DEF IInv, TypeOK, ApiTypeOK
    <3>1. [objects[x] EXCEPT !.deleting = TRUE] \in Object
      BY <3>0 DEF Object
    <3>2. \A s \in Specs[x] : [objects[x] EXCEPT !.spec = s] \in Object
      BY <3>0, ControllerAssumption DEF Object
    <3>3. objects \in [Names -> Object \union {None}]
      BY DEF IInv, TypeOK, ApiTypeOK
    <3>4. y = x
      BY <2>1, <3>3 DEF UserStep
    <3>5. ASSUME NEW s \in Specs[x], objects' = [objects EXCEPT ![x].spec = s]
          PROVE  FALSE
      <4>1. objects'[x] = [objects[x] EXCEPT !.spec = s]
        BY <3>3, <3>5
      <4> QED BY <3>2, <4>1, RecordAssumption
    <3>6. ASSUME objects' = [objects EXCEPT ![x] = [objects[x] EXCEPT !.deleting = TRUE]]
          PROVE  FALSE
      <4>1. objects'[x] = [objects[x] EXCEPT !.deleting = TRUE]
        BY <3>3, <3>6
      <4> QED BY <3>1, <4>1, RecordAssumption
    <3> QED BY <2>1, <2>2, <3>4, <3>5, <3>6 DEF UserStep
  <2>3. CASE ~objects[x].finalizer
    BY <2>3 DEF IInv, HealthyHeld
  <2> QED BY <2>2, <2>3
<1>3. CASE (Watch \/ Disturbance) \/ UNCHANGED vars
  <2>1. UNCHANGED objects
    BY <1>3 DEF Watch, Observe, ObserveNode, Disturbance, Relabel, Restart, Die, Resync, apiVars, vars
  <2> QED BY <2>1
<1> QED BY <1>1, <1>2, <1>3, NextCases

\* A StaticRoute vanishes only when no node's status shows the route in place.
THEOREM NeverVanishes == Spec => DeletionWaits
<1>1. IInv /\ [Next]_vars
        => [\A x \in Names : objects[x] # None /\ objects'[x] = None => HealthyNodes(x) = {}]_vars
  BY VanishOK
<1> QED BY <1>1, Inductive, PTL DEF Spec, DeletionWaits

\* A worker's write stays within the spec it read and the entry of its node.
LEMMA ForeignOK ==
  ASSUME IInv, [Next]_vars, NEW w \in Workers, NEW x \in Names,
         worker'[w] # worker[w], objects[x] # None, objects'[x] # None
  PROVE  /\ objects'[x].spec \in {objects[x].spec, Encoded(objects[x].spec)}
         /\ \A n \in Nodes \ {NodeOf(w)} : objects'[x].status[n] = objects[x].status[n]
<1>1. CASE UNCHANGED objects
  BY <1>1
<1>2. CASE ObjectStep(w)
  <2> DEFINE y == worker[w].name
             o == objects[y]
  <2>1. y \in Names /\ o \in Object
    BY <1>2 DEF ObjectStep
  <2>2. CASE x # y
    <3>1. objects'[x] = objects[x]
      BY <1>2, <2>1, <2>2 DEF ObjectStep, IInv, TypeOK, ApiTypeOK
    <3> QED BY <3>1
  <2>3. CASE x = y /\ objects'[y] = Stored(o, TRUE)
    BY <2>1, <2>3, StoredObject
  <2>4. ASSUME x = y, NEW e \in Entry \union {None},
               objects'[y] = [o EXCEPT !.status[NodeOf(w)] = e]
        PROVE  /\ objects'[x].spec = objects[x].spec
               /\ \A n \in Nodes \ {NodeOf(w)} : objects'[x].status[n] = objects[x].status[n]
    BY <2>1, <2>4 DEF Object, Status
  <2>5. CASE x = y /\ objects'[y] = Stored(o, FALSE)
    BY <2>1, <2>5, StoredObject
  <2>6. \/ objects'[y] = Stored(o, TRUE)
        \/ \E e \in Entry \union {None} : objects'[y] = [o EXCEPT !.status[NodeOf(w)] = e]
        \/ objects'[y] = Stored(o, FALSE)
        \/ objects'[y] = None
    BY <1>2, <2>1 DEF ObjectStep, IInv, TypeOK, ApiTypeOK
  <2> QED BY <2>2, <2>3, <2>4, <2>5, <2>6
<1>3. CASE \E v \in Workers : StepOK(v)
  <2>1. StepOK(w)
    BY <1>3 DEF StepOK
  <2> QED BY <1>1, <1>2, <2>1 DEF StepOK
<1>4. ~User
  BY DEF User, UserCreates, UserEdits, UserDeletes, podVars
<1>5. CASE (Watch \/ Disturbance) \/ UNCHANGED vars
  <2>1. UNCHANGED objects
    BY <1>5 DEF Watch, Observe, ObserveNode, Disturbance, Relabel, Restart, Die, Resync, apiVars, vars
  <2> QED BY <1>1, <2>1
<1> QED BY <1>3, <1>4, <1>5, NextCases

\* A node's controllers change no spec, and no entry but the node's own.
THEOREM NoForeignWrites == Spec => OwnEntryOnly
<1>1. IInv /\ [Next]_vars
        => [\A w \in Workers, x \in Names :
              worker'[w] # worker[w] /\ objects[x] # None /\ objects'[x] # None
                => /\ objects'[x].spec \in {objects[x].spec, Encoded(objects[x].spec)}
                   /\ \A n \in Nodes \ {NodeOf(w)} :
                        objects'[x].status[n] = objects[x].status[n]]_vars
  BY ForeignOK
<1> QED BY <1>1, Inductive, PTL DEF Spec, OwnEntryOnly

=============================================================================
