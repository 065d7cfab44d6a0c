----------------------------- MODULE MCCluster -----------------------------
(***************************************************************************)
(* Small instances of ClusterProperties for TLC.                           *)
(***************************************************************************)
EXTENDS ClusterProperties, MCStaticRoute

Coming == Budget([creates |-> 1, leaves |-> 1, setbacks |-> 1])
Missed == Budget([creates |-> 1, leaves |-> 1, crashes |-> 1])

=============================================================================
