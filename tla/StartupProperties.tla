------------------------- MODULE StartupProperties -------------------------
(***************************************************************************)
(* What a pod that is up has taken over from its environment.              *)
(***************************************************************************)
EXTENDS Startup

\* An environment mainImpl gets through.
Legal(e) ==
  /\ e.hostname
  /\ e.table = None \/ e.table \in 0 .. 254
  /\ e.fallback \in IPv4 \union {None}
  /\ Garbage \notin Listed(e)

\* No controller is added unless every setting of the environment was legal and
\* was taken over, whole: with half of the protected subnets, or a route manager
\* that does not run, nothing is reconciled at all.
Configured ==
  process.added # {} =>
    /\ Legal(env)
    /\ process.table = (IF env.table = None THEN 254 ELSE env.table)
    /\ process.fallback = env.fallback
    /\ process.protected = Listed(env)
    /\ process.runs

\* Two intervals of addresses have one in common.
Overlap(m, n) == m.first <= n.last /\ n.first <= m.last

\* The operator refuses the subnets that overlap one the environment protects,
\* and no others, at the ends of the address space as well.
VerdictRight ==
  check # None /\ check.verdict # None =>
    check.verdict = (check.subnet # Garbage /\ \E n \in Listed(env) : Overlap(n, check.subnet))

\* How far the check has come: nothing it has passed overlaps.
Passed ==
  check # None /\ check.verdict = None =>
    /\ check.subnet # Garbage
    /\ check.todo \subseteq process.protected
    /\ \A n \in process.protected \ (check.todo \union {check.network}) : ~Overlap(n, check.subnet)
    /\ check.network # None =>
         LET n == check.network
             before == {ip \in Addresses : Contains(n, ip) /\ (Contains(n, check.ip) => ip < check.ip)} IN
         n \in process.protected /\ \A ip \in before : ~Contains(check.subnet, ip)

\* What mainImpl has behind it once it has found the CRD, the last of its
\* settings, and so on back to the first.
Equipped == {"addStaticRouteController", "addNodeController", "start", "running"}

Settled ==
  LET is(later) == process.stage \in Equipped \union later IN
  /\ is({}) => process.runs
  /\ is({"resources"}) => Garbage \notin Listed(env) /\ process.protected = Listed(env)
  /\ is({"resources", "protected"}) => process.fallback = env.fallback
  /\ is({"resources", "protected", "fallback"})
       => env.table # Garbage /\ process.table = (IF env.table = None THEN 254 ELSE env.table)
  /\ is(Stages \ {"dead", "getConfig", "newManager", "addToScheme", "hostname"}) => env.hostname
  /\ process.stage \in {"dead", "getConfig", "newManager", "addToScheme", "hostname",
                        "newKubernetesConfig", "discovery", "table"} => process.table = 254
  /\ process.added # {} <=> process.stage \in Equipped \ {"addStaticRouteController"}
  /\ check # None => process.stage = "running"

StartupIInv ==
  /\ TypeOK
  /\ Settled
  /\ Passed
  /\ VerdictRight

\* isProtected walks on only: to a network it has not walked, to a later address,
\* or off the network.  After the last address of all, inc is back at the first,
\* which may be in the network again; by then there is a verdict.
WalksOn ==
  [][check # None /\ check' # None /\ check' # check /\ check.verdict = None /\ check'.verdict = None
       => \/ \E n \in check.todo : check'.todo = check.todo \ {n}
          \/ /\ check'.todo = check.todo
             /\ check'.network = check.network
             /\ Contains(check.network, check'.ip) => check'.ip > check.ip]_vars

\* Every check ends, whatever subnets it is about.
Decides == check # None ~> (check = None \/ check.verdict # None)

\* Given a legal environment and the CRD, the operator comes up in the end with
\* both controllers, whatever calls failed and however often it was started
\* before the CRD was there.
ComesUp ==
  <>[](Legal(env) /\ api = "served")
    => <>[](process.stage = "running" /\ process.added = {"route", "node"})

=============================================================================
