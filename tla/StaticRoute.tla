---------------------------- MODULE StaticRoute ----------------------------
(***************************************************************************)
(* The StaticRoute custom resource and the routeWrapper helpers, as pure   *)
(* data: api/v1/staticroute_types.go and controllers/staticroute/          *)
(* wrapper.go.                                                             *)
(*                                                                         *)
(* Strings of the resource are members of small sets, classified by what   *)
(* the code does with them: a subnet that net.ParseCIDR refuses, one that  *)
(* overlaps a protected subnet, a gateway that net.ParseIP refuses, one    *)
(* the node reaches without a next hop.  A selector list is the set of     *)
(* node labellings it accepts.  A status list is a function from node to   *)
(* its entry: addToStatus never appends a second entry for a hostname.     *)
(***************************************************************************)
CONSTANTS
  Nodes,         \* hostnames of the cluster members, one operator pod each
  Names,         \* names of StaticRoute objects
  None,          \* an absent object, entry, route, gateway, table, selector
  Subnets,       \* values of Spec.Subnet the CRD pattern lets through
  Unparsable,    \* those net.ParseCIDR refuses (999.0.0.0/8, 10.0.0.1)
  Protected,     \* those that overlap a PROTECTED_SUBNET_ of the operator
  Gateways,      \* values of Spec.Gateway the CRD pattern lets through
  Malformed,     \* those net.ParseIP refuses (999.0.0.1)
  Direct,        \* Direct[n]: those node n reaches without a next hop
  ZeroGw,        \* "0.0.0.0", the gateway of a status with no gateway yet
  NilGw,         \* "<nil>", what the nil net.IP prints as
  Tables,        \* route table numbers
  DefaultTable,  \* ManagerOptions.Table
  Labels,        \* labellings a Node object can carry, as key -> value maps
  EmptyList,     \* "selectors: []", which has no requirement to satisfy
  BadSelectors   \* a list with an operator or key the label package refuses

ASSUME SubnetAssumption ==
  /\ Unparsable \subseteq Subnets
  /\ Protected \subseteq Subnets \ Unparsable

ASSUME GatewayAssumption ==
  /\ Malformed \subseteq Gateways
  /\ Direct \in [Nodes -> SUBSET (Gateways \ Malformed)]
  /\ ZeroGw \notin Gateways
  /\ NilGw \notin Gateways \union {ZeroGw}

ASSUME NoneAssumption ==
  /\ None \notin Nodes \union Names \union Subnets \union Tables
  /\ None \notin Gateways \union {ZeroGw, NilGw}
  /\ None \notin Labels
  /\ DefaultTable \in Tables

Selectors == (SUBSET Labels) \union {None, EmptyList, BadSelectors}

\* len(selectors) = 0, of an absent and of an empty list.
Unselective == {None, EmptyList}

\* StaticRouteSpec.  The gateway, the table and the selectors are optional.
RouteSpec == [subnet    : Subnets,
              gateway   : Gateways \union {None},
              table     : Tables \union {None},
              selectors : Selectors]

\* What json.Marshal makes of a spec, or of the state in a status, whenever
\* the operator writes: omitempty leaves an empty list of selectors out.
Encoded(s) == IF s.selectors = EmptyList THEN [s EXCEPT !.selectors = None] ELSE s

\* The texts a NodeStatus.Error carries, one per error the code reports.
Errors == {"", "overlap", "nextHop", "list", "get", "update", "register"}

\* What the state of a status entry can show for its gateway.
ShownGateways == Gateways \union {ZeroGw, NilGw}

\* StaticRouteNodeStatus, keyed by hostname in the Status function below.
Entry == [state : [subnet    : Subnets,
                   gateway   : ShownGateways,
                   table     : Tables \union {None},
                   selectors : Selectors],
          error : Errors]

Status == [Nodes -> Entry \union {None}]

\* A StaticRoute: finalizer says whether the list of finalizers holds
\* finalizer.static-route.ibm.com, deleting whether DeletionTimestamp is set.
Object == [spec      : RouteSpec,
           finalizer : BOOLEAN,
           deleting  : BOOLEAN,
           status    : Status]

ASSUME RecordAssumption == None \notin Object \union Entry

\* The CRD schema refuses a status whose gateway is not dotted decimal.
Admissible(o) == \A n \in Nodes : o.status[n] # None => o.status[n].state.gateway # NilGw

-----------------------------------------------------------------------------
(***************************************************************************)
(* routeWrapper                                                            *)
(***************************************************************************)
SetFinalizer(o) == [o EXCEPT !.finalizer = TRUE]

IsProtected(o) == o.spec.subnet \in Protected

\* The state to record: the spec with the gateway in use.
ShownState(o, gw) == [o.spec EXCEPT !.gateway = gw]

AlreadyInStatus(o, n) == o.status[n] # None

\* Mutant of IsChanged: the recorded gateway is compared with the spec's own.
SpecCompared(o, n, gw) ==
  /\ AlreadyInStatus(o, n)
  /\ o.status[n].state # o.spec

\* reflect.DeepEqual tells an empty list from the absent one it is stored as.
IsChanged(o, n, gw) ==
  /\ AlreadyInStatus(o, n)
  /\ o.status[n].state # ShownState(o, gw)

StatusMatch(o, n, gw, err) ==
  /\ AlreadyInStatus(o, n)
  /\ o.status[n].state.subnet = o.spec.subnet
  /\ o.status[n].state.gateway = gw
  /\ o.status[n].error = err

\* Mutant of RemoveFromStatus: the list is cut instead of closed up.
CutStatus(o, n) == [o EXCEPT !.status = [m \in Nodes |-> None]]

RemoveFromStatus(o, n) == [o EXCEPT !.status[n] = None]

\* The entry of the copy is only ever written out, so it is encoded at once.
AddToStatus(o, n, gw, err) ==
  IF AlreadyInStatus(o, n)
  THEN o
  ELSE [o EXCEPT !.status[n] = [state |-> Encoded(ShownState(o, gw)), error |-> err]]

=============================================================================
