------------------------- MODULE FinalizerProtocol -------------------------
(***************************************************************************)
(* What the operator pods promise together about the finalizer of a        *)
(* StaticRoute (docs/design.md, "Finalizers"), without caches, conflicts   *)
(* or retries: a node joins while the finalizer is held, and the finalizer *)
(* is released only when every node that had joined has left.              *)
(***************************************************************************)
CONSTANTS
  Resources,  \* names of StaticRoutes
  Members     \* the nodes that may provide their routes

VARIABLES
  phase,  \* phase[x]: "absent", "live" or "deleting"
  held,   \* held[x]: the finalizer is on the object
  joined  \* joined[x]: the members whose status says they provide the route

protocolVars == <<phase, held, joined>>

ProtocolInit ==
  /\ phase = [x \in Resources |-> "absent"]
  /\ held = [x \in Resources |-> FALSE]
  /\ joined = [x \in Resources |-> {}]

\* The administrator creates the object, or asks for its deletion.
Appear(x) ==
  /\ phase[x] = "absent"
  /\ phase' = [phase EXCEPT ![x] = "live"]
  /\ UNCHANGED <<held, joined>>

Doom(x) ==
  /\ phase[x] = "live"
  /\ phase' = [phase EXCEPT ![x] = IF held[x] THEN "deleting" ELSE "absent"]
  /\ UNCHANGED <<held, joined>>

\* A pod sets the finalizer, joins, leaves.
Hold(x) ==
  /\ phase[x] = "live"
  /\ held' = [held EXCEPT ![x] = TRUE]
  /\ UNCHANGED <<phase, joined>>

Join(x, n) ==
  /\ phase[x] = "live"
  /\ held[x]
  /\ joined' = [joined EXCEPT ![x] = @ \union {n}]
  /\ UNCHANGED <<phase, held>>

Leave(x, n) ==
  /\ joined' = [joined EXCEPT ![x] = @ \ {n}]
  /\ UNCHANGED <<phase, held>>

\* The last one out removes the finalizer.
Release(x) ==
  /\ held[x]
  /\ joined[x] = {}
  /\ held' = [held EXCEPT ![x] = FALSE]
  /\ phase' = [phase EXCEPT ![x] = IF @ = "deleting" THEN "absent" ELSE @]
  /\ UNCHANGED joined

ProtocolNext ==
  \E x \in Resources :
    \/ Appear(x)
    \/ Doom(x)
    \/ Hold(x)
    \/ \E n \in Members : Join(x, n) \/ Leave(x, n)
    \/ Release(x)

ProtocolSpec == ProtocolInit /\ [][ProtocolNext]_protocolVars

=============================================================================
