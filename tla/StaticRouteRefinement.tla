----------------------- MODULE StaticRouteRefinement -----------------------
(***************************************************************************)
(* Proof that the reconcilers implement FinalizerProtocol: the abstract    *)
(* state depends on the stored objects alone, and every change of one is a *)
(* step of the protocol.                                                   *)
(***************************************************************************)
EXTENDS StaticRouteProofs

\* When nothing but x changes, the abstract state changes in x at most.
LEMMA Pointwise ==
  ASSUME TypeOK, NEW x \in Names, NEW o, objects' = [objects EXCEPT ![x] = o]
  PROVE  /\ objects'[x] = o
         /\ phase' = [phase EXCEPT ![x] = Phase(x)']
         /\ held' = [held EXCEPT ![x] = Held(x)']
         /\ joined' = [joined EXCEPT ![x] = HealthyNodes(x)']
<1>1. objects'[x] = o /\ \A y \in Names \ {x} : objects'[y] = objects[y]
  BY DEF TypeOK, ApiTypeOK
<1>2. \A y \in Names \ {x} : /\ Phase(y)' = Phase(y)
                             /\ Held(y)' = Held(y)
                             /\ HealthyNodes(y)' = HealthyNodes(y)
  BY <1>1 DEF Phase, Held, HealthyNodes, Healthy
<1>3. phase' = [phase EXCEPT ![x] = Phase(x)']
  BY <1>2 DEF phase
<1>4. held' = [held EXCEPT ![x] = Held(x)']
  BY <1>2 DEF held
<1>5. joined' = [joined EXCEPT ![x] = HealthyNodes(x)']
  BY <1>2 DEF joined
<1> QED BY <1>1, <1>3, <1>4, <1>5

\* What stays as it is at x stays as it is altogether.
LEMMA Same ==
  ASSUME NEW x \in Names
  PROVE  /\ phase[x] = Phase(x) /\ [phase EXCEPT ![x] = Phase(x)] = phase
         /\ held[x] = Held(x) /\ [held EXCEPT ![x] = Held(x)] = held
         /\ joined[x] = HealthyNodes(x) /\ [joined EXCEPT ![x] = HealthyNodes(x)] = joined
BY DEF phase, held, joined

\* A pod sets the finalizer.
LEMMA HoldOK ==
  ASSUME TypeOK, NEW x \in Names, objects[x] \in Object, ~objects[x].deleting,
         objects' = [objects EXCEPT ![x] = Stored(objects[x], TRUE)]
  PROVE  Protocol!ProtocolNext
<1> DEFINE o == Stored(objects[x], TRUE)
<1>1. o \in Object /\ o.finalizer /\ o.deleting = objects[x].deleting /\ o.status = objects[x].status
  BY StoredObject
<1>2. o # None /\ objects[x] # None
  BY <1>1, RecordAssumption
<1>3. objects'[x] = o
  BY Pointwise
<1> HIDE DEF o
<1>4. Phase(x) = "live" /\ Phase(x)' = "live" /\ Held(x)' = TRUE
  BY <1>1, <1>2, <1>3 DEF Phase, Held
<1>5. HealthyNodes(x)' = HealthyNodes(x)
  BY <1>1, <1>2, <1>3 DEF HealthyNodes, Healthy
<1>6. /\ phase' = [phase EXCEPT ![x] = Phase(x)']
      /\ held' = [held EXCEPT ![x] = Held(x)']
      /\ joined' = [joined EXCEPT ![x] = HealthyNodes(x)']
  BY Pointwise
<1>7. phase[x] = "live" /\ UNCHANGED <<phase, joined>> /\ held' = [held EXCEPT ![x] = TRUE]
  BY <1>4, <1>5, <1>6, Same
<1>8. Protocol!Hold(x)
  BY <1>7 DEF Protocol!Hold
<1> QED BY <1>8 DEF Protocol!ProtocolNext

\* A pod replaces or removes its entry.
LEMMA EntryOK ==
  ASSUME TypeOK, NEW x \in Names, NEW n \in Nodes, objects[x] \in Object,
         NEW o \in Object, objects' = [objects EXCEPT ![x] = o],
         NEW e \in Entry \union {None}, o = [objects[x] EXCEPT !.status[n] = e],
         Healthy(o, n) => objects[x].finalizer /\ ~objects[x].deleting
  PROVE  Protocol!ProtocolNext
<1>1. /\ o.finalizer = objects[x].finalizer /\ o.deleting = objects[x].deleting
      /\ \A m \in Nodes \ {n} : o.status[m] = objects[x].status[m]
  BY DEF Object, Status
<1>2. o # None /\ objects[x] # None
  BY RecordAssumption
<1>3. /\ objects'[x] = o
      /\ phase' = [phase EXCEPT ![x] = Phase(x)']
      /\ held' = [held EXCEPT ![x] = Held(x)']
      /\ joined' = [joined EXCEPT ![x] = HealthyNodes(x)']
  BY Pointwise
<1>4. Phase(x)' = Phase(x) /\ Held(x)' = Held(x)
  BY <1>1, <1>2, <1>3 DEF Phase, Held
<1>5. UNCHANGED <<phase, held>>
  BY <1>3, <1>4, Same
<1>6. \A m \in Nodes \ {n} : m \in HealthyNodes(x)' <=> m \in HealthyNodes(x)
  BY <1>1, <1>2, <1>3 DEF HealthyNodes, Healthy
<1>7. n \in HealthyNodes(x)' <=> Healthy(o, n)
  BY <1>2, <1>3 DEF HealthyNodes, Healthy
<1>8. HealthyNodes(x) \subseteq Nodes /\ HealthyNodes(x)' \subseteq Nodes
  BY DEF HealthyNodes
<1>9. CASE Healthy(o, n)
  <2>1. HealthyNodes(x)' = joined[x] \union {n}
    BY <1>6, <1>7, <1>8, <1>9, Same
  <2>2. Phase(x) = "live" /\ Held(x)
    BY <1>2, <1>9 DEF Phase, Held
  <2>3. phase[x] = "live" /\ held[x] /\ joined' = [joined EXCEPT ![x] = @ \union {n}]
    BY <1>3, <2>1, <2>2, Same
  <2>4. Protocol!Join(x, n)
    BY <1>5, <2>3 DEF Protocol!Join
  <2> QED BY <2>4 DEF Protocol!ProtocolNext
<1>10. CASE ~Healthy(o, n)
  <2>1. HealthyNodes(x)' = joined[x] \ {n}
    BY <1>6, <1>7, <1>8, <1>10, Same
  <2>2. joined' = [joined EXCEPT ![x] = @ \ {n}]
    BY <1>3, <2>1
  <2>3. Protocol!Leave(x, n)
    BY <1>5, <2>2 DEF Protocol!Leave
  <2> QED BY <2>3 DEF Protocol!ProtocolNext
<1> QED BY <1>9, <1>10

\* The last one out removes the finalizer, if it is still there.
LEMMA ReleaseOK ==
  ASSUME IInv, NEW x \in Names, objects[x] \in Object, NoEntries(objects[x]),
         objects' = [objects EXCEPT ![x] =
                       IF objects[x].deleting THEN None
                       ELSE Stored(objects[x], FALSE)]
  PROVE  Protocol!ProtocolNext \/ UNCHANGED <<phase, held, joined>>
<1> DEFINE o == Stored(objects[x], FALSE)
<1>1. o \in Object /\ ~o.finalizer /\ o.deleting = objects[x].deleting /\ o.status = objects[x].status
  BY StoredObject
<1>2. o # None /\ objects[x] # None
  BY <1>1, RecordAssumption
<1> HIDE DEF o
<1>3. /\ objects'[x] = IF objects[x].deleting THEN None ELSE o
      /\ phase' = [phase EXCEPT ![x] = Phase(x)']
      /\ held' = [held EXCEPT ![x] = Held(x)']
      /\ joined' = [joined EXCEPT ![x] = HealthyNodes(x)']
  BY Pointwise DEF o, IInv
<1>4. ~Held(x)'
  BY <1>1, <1>3 DEF Held
<1>5. Phase(x)' = IF Phase(x) = "deleting" THEN "absent" ELSE Phase(x)
  BY <1>1, <1>2, <1>3 DEF Phase
<1>6. HealthyNodes(x) = {} /\ HealthyNodes(x)' = {}
  BY <1>1, <1>3 DEF HealthyNodes, Healthy, NoEntries
<1>7. joined[x] = {} /\ UNCHANGED joined
  BY <1>3, <1>6, Same
<1>8. CASE Held(x)
  <2>1. Held(x)' = FALSE
    BY <1>4 DEF Held
  <2>2. held[x] /\ held' = [held EXCEPT ![x] = FALSE]
    BY <1>3, <1>8, <2>1, Same
  <2>3. phase' = [phase EXCEPT ![x] = IF @ = "deleting" THEN "absent" ELSE @]
    BY <1>3, <1>5, Same
  <2>4. Protocol!Release(x)
    BY <1>7, <2>2, <2>3 DEF Protocol!Release
  <2> QED BY <2>4 DEF Protocol!ProtocolNext
<1>9. CASE ~Held(x)
  <2>1. ~objects[x].finalizer
    BY <1>2, <1>9 DEF Held
  <2>2. ~objects[x].deleting
    BY <1>2, <2>1 DEF IInv, DoomedHeld
  <2>3. Phase(x) # "deleting"
    BY <2>2 DEF Phase
  <2>4. Phase(x)' = Phase(x)
    BY <1>5, <2>3
  <2>5. Held(x)' = Held(x)
    BY <1>4, <1>9 DEF Held
  <2> QED BY <1>3, <1>7, <2>4, <2>5, Same
<1> QED BY <1>8, <1>9

\* A step of a worker is a step of the protocol, or none.
LEMMA WorkerRefines ==
  ASSUME IInv, NEW w \in Workers, ObjectStep(w)
  PROVE  Protocol!ProtocolNext \/ UNCHANGED <<phase, held, joined>>
<1>1. PICK x \in Names, n \in Nodes : x = worker[w].name /\ n = NodeOf(w)
  BY WorkerNode DEF ObjectStep
<1>2. TypeOK /\ objects[x] \in Object
  BY <1>1 DEF ObjectStep, IInv
<1>3. \/ ~objects[x].deleting /\ objects' = [objects EXCEPT ![x] = Stored(objects[x], TRUE)]
      \/ \E o \in Object :
           /\ objects' = [objects EXCEPT ![x] = o]
           /\ \E e \in Entry \union {None} : o = [objects[x] EXCEPT !.status[n] = e]
           /\ Healthy(o, n) => objects[x].finalizer /\ ~objects[x].deleting
      \/ /\ NoEntries(objects[x])
         /\ objects' = [objects EXCEPT ![x] =
                          IF objects[x].deleting THEN None
                          ELSE Stored(objects[x], FALSE)]
  BY <1>1 DEF ObjectStep
<1>4. CASE ~objects[x].deleting /\ objects' = [objects EXCEPT ![x] = Stored(objects[x], TRUE)]
  BY <1>2, <1>4, HoldOK
<1>5. ASSUME NEW o \in Object, objects' = [objects EXCEPT ![x] = o],
             NEW e \in Entry \union {None}, o = [objects[x] EXCEPT !.status[n] = e],
             Healthy(o, n) => objects[x].finalizer /\ ~objects[x].deleting
      PROVE  Protocol!ProtocolNext
  BY <1>2, <1>5, EntryOK
<1>6. CASE /\ NoEntries(objects[x])
           /\ objects' = [objects EXCEPT ![x] =
                            IF objects[x].deleting THEN None
                            ELSE Stored(objects[x], FALSE)]
  BY <1>2, <1>6, ReleaseOK
<1> QED BY <1>3, <1>4, <1>5, <1>6

\* The administrator's steps.
LEMMA AppearOK ==
  ASSUME TypeOK, NEW x \in Names, objects[x] = None, NEW s \in Specs[x],
         objects' = [objects EXCEPT ![x] = NewObject(s)]
  PROVE  Protocol!ProtocolNext
<1> DEFINE o == NewObject(s)
<1>1. o \in Object /\ ~o.deleting /\ ~o.finalizer /\ NoEntries(o)
  BY ControllerAssumption DEF NewObject, Object, Status, NoEntries
<1> HIDE DEF o
<1>2. /\ objects'[x] = o
      /\ phase' = [phase EXCEPT ![x] = Phase(x)']
      /\ held' = [held EXCEPT ![x] = Held(x)']
      /\ joined' = [joined EXCEPT ![x] = HealthyNodes(x)']
  BY Pointwise DEF o
<1>3. o # None
  BY <1>1, RecordAssumption
<1>4. Phase(x) = "absent" /\ Phase(x)' = "live"
  BY <1>1, <1>2, <1>3 DEF Phase
<1>5. Held(x)' = Held(x)
  BY <1>1, <1>2, <1>3 DEF Held
<1>6. HealthyNodes(x)' = HealthyNodes(x)
  BY <1>1, <1>2 DEF HealthyNodes, Healthy, NoEntries
<1>7. phase[x] = "absent" /\ phase' = [phase EXCEPT ![x] = "live"] /\ UNCHANGED <<held, joined>>
  BY <1>2, <1>4, <1>5, <1>6, Same
<1>8. Protocol!Appear(x)
  BY <1>7 DEF Protocol!Appear
<1> QED BY <1>8 DEF Protocol!ProtocolNext

\* An edit changes nothing the protocol sees.
LEMMA EditOK ==
  ASSUME TypeOK, NEW x \in Names, objects[x] # None, NEW s \in Specs[x],
         objects' = [objects EXCEPT ![x].spec = s]
  PROVE  UNCHANGED <<phase, held, joined>>
<1> DEFINE o == [objects[x] EXCEPT !.spec = s]
<1>1. objects[x] \in Object
  BY DEF TypeOK, ApiTypeOK
<1>2. /\ o \in Object
      /\ o.deleting = objects[x].deleting /\ o.finalizer = objects[x].finalizer
      /\ o.status = objects[x].status
  BY <1>1, ControllerAssumption DEF Object
<1>3. objects' = [objects EXCEPT ![x] = o]
  OBVIOUS
<1> HIDE DEF o
<1>4. /\ objects'[x] = o
      /\ phase' = [phase EXCEPT ![x] = Phase(x)']
      /\ held' = [held EXCEPT ![x] = Held(x)']
      /\ joined' = [joined EXCEPT ![x] = HealthyNodes(x)']
  BY <1>3, Pointwise
<1>5. o # None
  BY <1>2, RecordAssumption
<1>6. Phase(x)' = Phase(x) /\ Held(x)' = Held(x)
  BY <1>2, <1>4, <1>5 DEF Phase, Held
<1>7. HealthyNodes(x)' = HealthyNodes(x)
  BY <1>2, <1>4, <1>5 DEF HealthyNodes, Healthy
<1> QED BY <1>4, <1>6, <1>7, Same

\* Asking for the deletion is the protocol's Doom.
LEMMA DoomOK ==
  ASSUME IInv, NEW x \in Names, objects[x] # None, ~objects[x].deleting,
         objects' = [objects EXCEPT ![x] = IF objects[x].finalizer
                                            THEN [objects[x] EXCEPT !.deleting = TRUE]
                                            ELSE None]
  PROVE  Protocol!ProtocolNext
<1> DEFINE o == [objects[x] EXCEPT !.deleting = TRUE]
<1>1. objects[x] \in Object
  BY DEF IInv, TypeOK, ApiTypeOK
<1>2. o \in Object /\ o.deleting /\ o.finalizer = objects[x].finalizer /\ o.status = objects[x].status
  BY <1>1 DEF Object
<1>3. o # None
  BY <1>2, RecordAssumption
<1> HIDE DEF o
<1>4. /\ objects'[x] = IF objects[x].finalizer THEN o ELSE None
      /\ phase' = [phase EXCEPT ![x] = Phase(x)']
      /\ held' = [held EXCEPT ![x] = Held(x)']
      /\ joined' = [joined EXCEPT ![x] = HealthyNodes(x)']
  BY Pointwise DEF o, IInv
<1>5. /\ Phase(x) = "live"
      /\ Phase(x)' = IF Held(x) THEN "deleting" ELSE "absent"
      /\ Held(x)' = Held(x)
  BY <1>2, <1>3, <1>4 DEF Phase, Held
<1>6. HealthyNodes(x)' = HealthyNodes(x)
  <2>1. CASE objects[x].finalizer
    BY <1>2, <1>3, <1>4, <2>1 DEF HealthyNodes, Healthy
  <2>2. CASE ~objects[x].finalizer
    <3>1. HealthyNodes(x) = {}
      BY <2>2 DEF IInv, HealthyHeld
    <3>2. HealthyNodes(x)' = {}
      BY <1>4, <2>2 DEF HealthyNodes
    <3> QED BY <3>1, <3>2
  <2> QED BY <2>1, <2>2
<1>7. /\ phase[x] = "live"
      /\ phase' = [phase EXCEPT ![x] = IF held[x] THEN "deleting" ELSE "absent"]
      /\ UNCHANGED <<held, joined>>
  BY <1>4, <1>5, <1>6, Same
<1>8. Protocol!Doom(x)
  BY <1>7 DEF Protocol!Doom
<1> QED BY <1>8 DEF Protocol!ProtocolNext

\* Whatever the administrator does is a step of the protocol, or none.
LEMMA UserRefines ==
  ASSUME IInv, User
  PROVE  Protocol!ProtocolNext \/ UNCHANGED <<phase, held, joined>>
<1>1. TypeOK
  BY DEF IInv
<1>2. PICK x \in Names : UserStep(x)
  BY <1>1, UserSteps
<1> QED BY <1>1, <1>2, AppearOK, EditOK, DoomOK DEF UserStep

\* Steps that leave the objects alone are stutters.
LEMMA ObjectsKept ==
  ASSUME UNCHANGED objects
  PROVE  UNCHANGED <<phase, held, joined>>
BY DEF phase, held, joined, Phase, Held, HealthyNodes, Healthy

\* Nobody has joined initially.
LEMMA ProtocolStarts == Init => Protocol!ProtocolInit
<1> SUFFICES ASSUME Init PROVE Protocol!ProtocolInit
  OBVIOUS
<1>1. \A x \in Names : objects[x] = None
  BY DEF Init, ApiInit
<1>2. \A x \in Names : Phase(x) = "absent" /\ Held(x) = FALSE /\ HealthyNodes(x) = {}
  BY <1>1 DEF Phase, Held, HealthyNodes
<1> QED BY <1>2 DEF Protocol!ProtocolInit, phase, held, joined

\* Every step is a step of the protocol, or none.
LEMMA StepRefines ==
  ASSUME IInv, [Next]_vars
  PROVE  Protocol!ProtocolNext \/ UNCHANGED <<phase, held, joined>>
<1>1. CASE \E w \in Workers : StepOK(w)
  BY <1>1, WorkerRefines, ObjectsKept DEF StepOK
<1>2. CASE User
  BY <1>2, UserRefines
<1>3. CASE (Watch \/ Disturbance) \/ UNCHANGED vars
  <2>1. UNCHANGED objects
    BY <1>3 DEF Watch, Observe, ObserveNode, Disturbance, Relabel, Restart, Die, Resync, apiVars, vars
  <2> QED BY <2>1, ObjectsKept
<1> QED BY <1>1, <1>2, <1>3, NextCases

\* The reconcilers of all nodes implement the finalizer protocol.
THEOREM Refinement == Spec => ImplementsProtocol
<1>1. IInv /\ [Next]_vars => [Protocol!ProtocolNext]_(Protocol!protocolVars)
  BY StepRefines DEF Protocol!protocolVars
<1> QED BY <1>1, ProtocolStarts, Inductive, PTL DEF Spec, ImplementsProtocol, Protocol!ProtocolSpec

=============================================================================
