--------------------------- MODULE MCStaticRoute ---------------------------
(***************************************************************************)
(* Small instances of StaticRouteProperties for TLC.                       *)
(***************************************************************************)
EXTENDS StaticRouteProperties, TLC

CONSTANTS
  n1, n2,          \* nodes
  net, odd, guard, \* subnets: plain, not a CIDR, overlapping a protected one
  near, far, bad,  \* gateways: on link, behind a next hop, not an address
  main, side       \* tables

MCSubnets == {net, odd, guard}
MCGateways == {near, far, bad}

\* Both nodes reach near, or n1 alone does.
BothNear == [n \in Nodes |-> {near}]
OneNear == [n \in Nodes |-> IF n = n1 THEN {near} ELSE {}]

\* The gateway of the default route: near, or none on a point-to-point link.
NearFallback == [n \in Nodes |-> near]
NoFallback == [n \in Nodes |-> NilGw]

\* Labellings: a zone, and another one.
red == [zone |-> "a"]
blue == [zone |-> "b"]

RedOnly == {red}
RedBlue == {red, blue}

SpecOf(subnet, gw, table, selectors) ==
  [subnet |-> subnet, gateway |-> gw, table |-> table, selectors |-> selectors]

Plain == SpecOf(net, None, None, None)

\* Of every StaticRoute the same.
Each(specs) == [x \in Names |-> specs]

PlainOnly == Each({Plain})
Edits == Each({Plain, SpecOf(net, None, None, {red}), SpecOf(guard, near, None, None)})
SomeOrAll == Each({SpecOf(net, None, None, {red}), Plain})
AbsentOrEmpty == Each({Plain, SpecOf(net, None, None, EmptyList)})
Assorted == Each({Plain,
                  SpecOf(net, near, None, {red}),
                  SpecOf(net, far, None, None),
                  SpecOf(net, bad, None, None),
                  SpecOf(odd, near, side, None),
                  SpecOf(guard, near, None, {red}),
                  SpecOf(net, None, None, EmptyList),
                  SpecOf(net, None, None, BadSelectors)})

\* What may happen how often; nothing else does.
Budget(some) == [k \in Budgets |-> IF k \in DOMAIN some THEN some[k] ELSE 0]

Lifecycle == Budget([creates |-> 2, edits |-> 1, deletes |-> 1, crashes |-> 1])
TwoQueues ==
  Budget([creates |-> 2, edits |-> 1, deletes |-> 1, relabels |-> 1, faults |-> 1, crashes |-> 1])
Disturbed == Budget([creates |-> 1, relabels |-> 2, resyncs |-> 1, faults |-> 1, crashes |-> 1])
Undisturbed == Budget([creates |-> 2, deletes |-> 1])
Edited == Budget([creates |-> 1, edits |-> 1])

NodeSymmetry == Permutations(Nodes)

=============================================================================
