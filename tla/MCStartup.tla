----------------------------- MODULE MCStartup -----------------------------
(***************************************************************************)
(* A small instance of StartupProperties for TLC: all CIDR blocks of 16    *)
(* addresses.                                                              *)
(***************************************************************************)
EXTENDS StartupProperties

CONSTANTS v4, v6  \* addresses of a gateway

Blocks == {[first |-> k * size, last |-> (k + 1) * size - 1] : <<k, size>> \in
             {p \in (0 .. Top) \X {1, 2, 4, 8, 16} : (p[1] + 1) * p[2] <= Top + 1}}

Var(protects, items) == [protects |-> protects, items |-> items]

Env(hostname, table, fallback, variables) ==
  [hostname |-> hostname, table |-> table, fallback |-> fallback, variables |-> variables]

Low == [first |-> 4, last |-> 5]
High == [first |-> 12, last |-> 15]
All == [first |-> 0, last |-> 15]

\* Legal ones, and one for every mistake.
MCEnvironments ==
  {Env(TRUE, None, None, {}),
   Env(TRUE, 0, v4, {Var(TRUE, {Low, High}), Var(FALSE, {All})}),
   Env(TRUE, 254, None, {Var(TRUE, {All})}),
   Env(FALSE, None, None, {}),
   Env(TRUE, 255, None, {}),
   Env(TRUE, Garbage, None, {}),
   Env(TRUE, None, v6, {}),
   Env(TRUE, None, Garbage, {}),
   Env(TRUE, None, None, {Var(TRUE, {Low}), Var(TRUE, {Garbage})})}

=============================================================================
