------------------------------ MODULE Startup ------------------------------
(***************************************************************************)
(* main.go: how the process of a pod comes up, from its environment and    *)
(* the API server, and isProtected of wrapper.go, the check that the       *)
(* protected subnets it collects are for.                                  *)
(*                                                                         *)
(* Any error panics: the process ends and the kubelet starts it anew.  An  *)
(* IPv4 address is a number, a network the addresses from first to last,   *)
(* and a list of subnets is a set, whose order no result depends on.       *)
(***************************************************************************)
EXTENDS Naturals

CONSTANTS
  Top,           \* the last address, 255.255.255.255
  Networks,      \* the networks that subnets of the environment and of specs name
  None,          \* an unset variable, no process, no check, no verdict
  Garbage,       \* text that Atoi, ParseIP or ParseCIDR refuses, a negative table
  IPv4, IPv6,    \* addresses net.ParseIP accepts
  Environments,  \* the environments the DaemonSet may give its pods
  Mishaps        \* how often calls fail, Run ends, CRDs and environments change

Addresses == 0 .. Top

ASSUME NetworkAssumption ==
  /\ Top \in Nat
  /\ Networks \subseteq {n \in [first : Addresses, last : Addresses] : n.first <= n.last}
  /\ None \notin BOOLEAN /\ None \notin Networks /\ Garbage \notin Networks /\ None # Garbage

\* TARGET_TABLE, FALLBACK_IP_FOR_GW_SELECTION, whether NODE_HOSTNAME is set, and
\* every variable, whose name contains PROTECTED_SUBNET_ or does not, with the
\* items of its value.
Environment == [hostname  : BOOLEAN,
                table     : Nat \union {None, Garbage},
                fallback  : IPv4 \union IPv6 \union {None, Garbage},
                variables : SUBSET [protects : BOOLEAN, items : SUBSET (Networks \union {Garbage})]]

ASSUME EnvironmentAssumption == Environments \subseteq Environment /\ Mishaps \in Nat

VARIABLES
  env,      \* the environment of the process
  api,      \* what the API server has of static-route.ibm.com/v1
  process,  \* how far mainImpl is, and what it has set up
  check,    \* the call of isProtected in progress
  mishaps   \* how many there were

vars == <<env, api, process, check, mishaps>>

\* found: the discovered resources had the CRD.  fallback: None is 10.0.0.1.
\* runs: the goroutine of routeManager.Run.  added: the controllers added.
Dead == [stage |-> "dead", found |-> FALSE, table |-> 254, fallback |-> None,
         protected |-> {}, runs |-> FALSE, added |-> {}]

\* The calls of mainImpl that return an error, with what comes next.
Calls == {"getConfig", "newManager", "addToScheme", "newKubernetesConfig", "discovery",
          "addStaticRouteController", "addNodeController", "start"}

After(s) == CASE s = "getConfig"                -> "newManager"
              [] s = "newManager"               -> "addToScheme"
              [] s = "addToScheme"              -> "hostname"
              [] s = "newKubernetesConfig"      -> "discovery"
              [] s = "discovery"                -> "table"
              [] s = "addStaticRouteController" -> "addNodeController"
              [] s = "addNodeController"        -> "start"
              [] s = "start"                    -> "running"

Stages == Calls \union {"dead", "hostname", "table", "fallback", "protected", "resources", "running"}

Process == [stage : Stages, found : BOOLEAN, table : 0 .. 254, fallback : IPv4 \union {None},
            protected : SUBSET Networks, runs : BOOLEAN, added : SUBSET {"route", "node"}]

TypeOK ==
  /\ env \in Environments
  /\ api \in {"absent", "other", "served"}
  /\ process \in Process
  /\ check \in {None} \union
       [subnet : Networks \union {Garbage}, todo : SUBSET Networks, network : Networks \union {None},
        ip : Addresses, verdict : BOOLEAN \union {None}]
  /\ mishaps \in Nat

Init ==
  /\ env \in Environments
  /\ api \in {"absent", "other", "served"}
  /\ process = Dead
  /\ check = None
  /\ mishaps = 0

-----------------------------------------------------------------------------
(***************************************************************************)
(* mainImpl                                                                *)
(***************************************************************************)
Mishap == mishaps < Mishaps /\ mishaps' = mishaps + 1

Become(p) == process' = p /\ check' = None /\ UNCHANGED <<env, api, mishaps>>

Panic == Become(Dead)

\* The kubelet starts the process.
Spawn == process.stage = "dead" /\ Become([Dead EXCEPT !.stage = "getConfig"])

\* A call returns without an error.  Discovery fails for a group it has not got.
Call(s) ==
  /\ process.stage = s
  /\ s = "discovery" => api # "absent"
  /\ Become([process EXCEPT !.stage = After(s),
                            !.found = IF s = "discovery" THEN api = "served" ELSE @,
                            !.added = IF s = "addStaticRouteController" THEN @ \union {"route"}
                                      ELSE IF s = "addNodeController" THEN @ \union {"node"} ELSE @])

DiscoveryFails == process.stage = "discovery" /\ api = "absent" /\ Panic

\* A call returns an error, or Run does.
Fails ==
  /\ process.stage \in Calls \/ process.runs
  /\ Mishap
  /\ process' = Dead
  /\ check' = None
  /\ UNCHANGED <<env, api>>

ReadHostname ==
  /\ process.stage = "hostname"
  /\ IF env.hostname THEN Become([process EXCEPT !.stage = "newKubernetesConfig"]) ELSE Panic

\* Mutant of TableOK: the upper bound is a byte's.
AnyByte(t) == t \notin {None, Garbage} /\ t <= 255

TableOK(t) == t \notin {None, Garbage} /\ t <= 254

\* parseTargetTable
SelectTable ==
  /\ process.stage = "table"
  /\ \/ env.table = None /\ Become([process EXCEPT !.stage = "fallback"])
     \/ TableOK(env.table) /\ Become([process EXCEPT !.stage = "fallback", !.table = env.table])
     \/ env.table # None /\ ~TableOK(env.table) /\ Panic

SelectFallback ==
  /\ process.stage = "fallback"
  /\ IF env.fallback \in IPv4 \union {None}
     THEN Become([process EXCEPT !.stage = "protected", !.fallback = env.fallback])
     ELSE Panic

\* The items of the variables whose name contains PROTECTED_SUBNET_; an empty
\* value has one, the empty text.
Listed(e) == UNION {v.items : v \in {u \in e.variables : u.protects}}

\* Mutant of CollectProtectedSubnets: what does not parse is left out.
CollectParsable ==
  /\ process.stage = "protected"
  /\ Become([process EXCEPT !.stage = "resources", !.protected = Listed(env) \ {Garbage}])

\* collectProtectedSubnets
CollectProtectedSubnets ==
  /\ process.stage = "protected"
  /\ IF Garbage \in Listed(env) THEN Panic
     ELSE Become([process EXCEPT !.stage = "resources", !.protected = Listed(env)])

\* Mutant of FindResource: without the CRD the process goes on with nothing to do.
IdleWithoutCRD ==
  /\ process.stage = "resources"
  /\ Become(IF process.found THEN [process EXCEPT !.stage = "addStaticRouteController", !.runs = TRUE]
            ELSE [process EXCEPT !.stage = "running"])

\* crdFound: the route manager runs before the controller that calls it is
\* added.  Without the CRD, mainImpl panics.
FindResource ==
  /\ process.stage = "resources"
  /\ IF process.found
     THEN Become([process EXCEPT !.stage = "addStaticRouteController", !.runs = TRUE])
     ELSE Panic

MainImpl ==
  \/ \E s \in Calls : Call(s)
  \/ DiscoveryFails
  \/ ReadHostname \/ SelectTable \/ SelectFallback \/ CollectProtectedSubnets \/ FindResource

-----------------------------------------------------------------------------
(***************************************************************************)
(* isProtected                                                             *)
(***************************************************************************)
\* Mutant of Contains: the last address is left out.
ContainsExclusive(network, ip) == network.first <= ip /\ ip < network.last

Contains(network, ip) == network.first <= ip /\ ip <= network.last

\* Mutant of Inc: it stops at the last address.
IncToTop(ip) == IF ip = Top THEN Top ELSE ip + 1

\* Mutant of Inc: the last byte, of two bits, has no carry.
IncLastByte(ip) == IF ip % 4 = 3 THEN ip - 3 ELSE ip + 1

\* inc: the bytes count up with carry, and around after the last address.
Inc(ip) == IF ip = Top THEN 0 ELSE ip + 1

Checking(s, todo, network, ip, verdict) ==
  /\ check' = [subnet |-> s, todo |-> todo, network |-> network, ip |-> ip, verdict |-> verdict]
  /\ UNCHANGED <<env, api, process, mishaps>>

\* A reconciliation of a StaticRoute with subnet s asks.  What ParseCIDR refuses
\* is not protected.
Ask(s) ==
  /\ process.stage = "running"
  /\ check = None
  /\ Checking(s, IF s = Garbage THEN {} ELSE process.protected, None, 0, IF s = Garbage THEN FALSE ELSE None)

\* The loop over the protected subnets; at its end there is no overlap.
NextNetwork ==
  /\ check # None
  /\ check.verdict = None
  /\ check.network # None => ~Contains(check.network, check.ip)
  /\ \/ \E n \in check.todo : Checking(check.subnet, check.todo \ {n}, n, n.first, None)
     \/ check.todo = {} /\ Checking(check.subnet, {}, None, 0, FALSE)

\* The loop over the addresses of one.
NextAddress ==
  /\ check # None
  /\ check.verdict = None
  /\ check.network # None /\ Contains(check.network, check.ip)
  /\ IF Contains(check.subnet, check.ip)
     THEN Checking(check.subnet, check.todo, check.network, check.ip, TRUE)
     ELSE Checking(check.subnet, check.todo, check.network, Inc(check.ip), None)

\* The answer is used.
Answered ==
  /\ check # None
  /\ check.verdict # None
  /\ check' = None
  /\ UNCHANGED <<env, api, process, mishaps>>

IsProtected == NextNetwork \/ NextAddress

-----------------------------------------------------------------------------
(***************************************************************************)
(* The cluster administrator                                               *)
(***************************************************************************)
\* The CRD is installed or removed; mainImpl looks for it once.
CrdChanges ==
  /\ Mishap
  /\ \E a \in {"absent", "other", "served"} \ {api} : api' = a
  /\ UNCHANGED <<env, process, check>>

\* The DaemonSet gets another environment: its pods are replaced.
Redeploy ==
  /\ Mishap
  /\ \E e \in Environments \ {env} : env' = e
  /\ process' = Dead
  /\ check' = None
  /\ UNCHANGED api

Next ==
  \/ Spawn \/ MainImpl \/ Fails
  \/ \E s \in Networks \union {Garbage} : Ask(s)
  \/ IsProtected \/ Answered
  \/ CrdChanges \/ Redeploy

Spec == Init /\ [][Next]_vars

\* The kubelet restarts the process, and the process keeps running.
FairSpec == Spec /\ WF_vars(Spawn) /\ WF_vars(MainImpl) /\ WF_vars(IsProtected)

=============================================================================
