--------------------------- MODULE MCRouteManager ---------------------------
(***************************************************************************)
(* Small instances of RouteManagerProperties for TLC.                      *)
(***************************************************************************)
EXTENDS RouteManagerProperties

CONSTANTS
  c1, c2,  \* goroutines
  x, y,    \* names
  r,       \* a route
  u, v     \* watchers

Do(op, name, arg) == [op |-> op, name |-> name, arg |-> arg]

Add(n, route) == Do("RegisterRoute", n, route)
Del(n) == Do("DeRegisterRoute", n, None)
Has(n) == Do("IsRegistered", n, None)
On(w) == Do("RegisterWatcher", None, w)
Off(w) == Do("DeRegisterWatcher", None, w)

\* The two workers of a pod both register the route x and ask for it, while one
\* of them may take it away again.  The other registers y too, for the same
\* route, and manages two watchers.
TwoWorkers == c1 :> {Add(x, r), Del(x), Has(x)}
           @@ c2 :> {Add(x, r), Has(x), Add(y, r), On(u), On(v), Off(v)}

\* Every route has its own destination; reflect.DeepEqual takes the watchers for
\* one and the same.
Apart == [k \in Routes |-> k]
Alike == [w \in Watchers |-> "alike"]

=============================================================================
