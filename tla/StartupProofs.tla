--------------------------- MODULE StartupProofs ---------------------------
(***************************************************************************)
(* Proofs about Startup, for an address space of any size and any          *)
(* networks, environments and mishaps.                                     *)
(***************************************************************************)
EXTENDS StartupProperties, TLAPS

\* What a mishap or a panic leaves is an invariant state of a dead process.
LEMMA DeadOK ==
  ASSUME StartupIInv, process' = Dead, check' = None, env' \in Environments,
         api' \in {"absent", "other", "served"}, mishaps' \in Nat
  PROVE  StartupIInv'
BY DEF StartupIInv, TypeOK, Process, Settled, Equipped, Stages, Calls, Dead, Passed, VerdictRight

\* The process goes on to p, which is as Settled has it.
LEMMA BecomeOK ==
  ASSUME StartupIInv, NEW p \in Process, Become(p), Settled'
  PROVE  StartupIInv'
BY DEF StartupIInv, TypeOK, Become, Passed, VerdictRight

\* Every step of mainImpl settles what its stage says, or panics.
LEMMA MainImplOK ==
  ASSUME StartupIInv, MainImpl
  PROVE  StartupIInv'
<1> USE DEF Equipped, Stages, Calls
<1>1. /\ TypeOK /\ Settled
      /\ process \in Process /\ env \in Environments /\ env \in Environment
  BY EnvironmentAssumption DEF StartupIInv, TypeOK
<1>2. ASSUME Panic PROVE StartupIInv'
  BY <1>1, <1>2, DeadOK DEF Panic, Become, TypeOK
<1>3. ASSUME NEW s \in Calls, Call(s) PROVE StartupIInv'
  <2> DEFINE found == IF s = "discovery" THEN api = "served" ELSE process.found
             added == IF s = "addStaticRouteController" THEN process.added \union {"route"}
                      ELSE IF s = "addNodeController" THEN process.added \union {"node"}
                      ELSE process.added
             p == [process EXCEPT !.stage = After(s), !.found = found, !.added = added]
  <2>1. After(s) \in Stages
    BY DEF After
  <2>2. found \in BOOLEAN
    BY <1>1 DEF Process
  <2>3. added \in SUBSET {"route", "node"}
    BY <1>1 DEF Process
  <2>4. added # {} <=> process.added # {} \/ s \in {"addStaticRouteController", "addNodeController"}
    OBVIOUS
  <2>5. Become(p) /\ process.stage = s
    BY <1>3 DEF Call
  <2> HIDE DEF found, added
  <2>6. p \in Process
    BY <1>1, <2>1, <2>2, <2>3 DEF Process
  <2>7. /\ p.stage = After(s) /\ p.table = process.table /\ p.fallback = process.fallback
        /\ p.protected = process.protected /\ p.runs = process.runs /\ p.added = added
    BY <1>1 DEF Process
  <2> HIDE DEF p
  <2>8. Settled'
    BY <1>1, <2>4, <2>5, <2>7 DEF Settled, Become, After, Listed
  <2> QED BY <2>5, <2>6, <2>8, BecomeOK
<1>4. CASE ReadHostname
  <2> DEFINE p == [process EXCEPT !.stage = "newKubernetesConfig"]
  <2>1. CASE Become(p) /\ env.hostname
    <3>1. p \in Process
      BY <1>1 DEF Process
    <3>2. Settled'
      BY <1>1, <1>4, <2>1 DEF ReadHostname, Become, Settled, Process
    <3> QED BY <2>1, <3>1, <3>2, BecomeOK
  <2> QED BY <1>2, <1>4, <2>1 DEF ReadHostname
<1>5. CASE SelectTable
  <2>1. env.table \in Nat \union {None, Garbage}
    BY <1>1 DEF Environment
  <2>2. CASE env.table = None /\ Become([process EXCEPT !.stage = "fallback"])
    <3> DEFINE p == [process EXCEPT !.stage = "fallback"]
    <3>1. p \in Process
      BY <1>1 DEF Process
    <3>2. Settled'
      BY <1>1, <1>5, <2>2, NetworkAssumption DEF SelectTable, Become, Settled, Process
    <3> HIDE DEF p
    <3> QED BY <2>2, <3>1, <3>2, BecomeOK DEF p
  <2>3. CASE TableOK(env.table) /\ Become([process EXCEPT !.stage = "fallback", !.table = env.table])
    <3> DEFINE p == [process EXCEPT !.stage = "fallback", !.table = env.table]
    <3>1. env.table \in 0 .. 254 /\ env.table # Garbage /\ env.table # None
      BY <2>1, <2>3 DEF TableOK
    <3>2. p \in Process
      BY <1>1, <3>1 DEF Process
    <3>3. Settled'
      BY <1>1, <1>5, <2>3, <3>1 DEF SelectTable, Become, Settled, Process
    <3> HIDE DEF p
    <3> QED BY <2>3, <3>2, <3>3, BecomeOK DEF p
  <2> QED BY <1>2, <1>5, <2>2, <2>3 DEF SelectTable
<1>6. CASE SelectFallback
  <2> DEFINE p == [process EXCEPT !.stage = "protected", !.fallback = env.fallback]
  <2>1. CASE env.fallback \in IPv4 \union {None} /\ Become(p)
    <3>1. p \in Process
      BY <1>1, <2>1 DEF Process
    <3>2. Settled'
      BY <1>1, <1>6, <2>1 DEF SelectFallback, Become, Settled, Process
    <3> HIDE DEF p
    <3> QED BY <2>1, <3>1, <3>2, BecomeOK
  <2> QED BY <1>2, <1>6, <2>1 DEF SelectFallback
<1>7. CASE CollectProtectedSubnets
  <2> DEFINE p == [process EXCEPT !.stage = "resources", !.protected = Listed(env)]
  <2>1. Listed(env) \subseteq Networks \union {Garbage}
    BY <1>1 DEF Listed, Environment
  <2>2. CASE Garbage \notin Listed(env) /\ Become(p)
    <3>1. Listed(env)' = Listed(env)
      BY <2>2 DEF Become, Listed
    <3>2. p \in Process
      BY <1>1, <2>1, <2>2 DEF Process
    <3>3. Settled'
      BY <1>1, <1>7, <2>2, <3>1 DEF CollectProtectedSubnets, Become, Settled, Process
    <3> HIDE DEF p
    <3> QED BY <2>2, <3>2, <3>3, BecomeOK
  <2> QED BY <1>2, <1>7, <2>2 DEF CollectProtectedSubnets
<1>8. CASE FindResource
  <2> DEFINE p == [process EXCEPT !.stage = "addStaticRouteController", !.runs = TRUE]
  <2>1. CASE Become(p)
    <3>1. p \in Process
      BY <1>1 DEF Process
    <3>2. Settled'
      BY <1>1, <1>8, <2>1 DEF FindResource, Become, Settled, Process, Listed
    <3> HIDE DEF p
    <3> QED BY <2>1, <3>1, <3>2, BecomeOK
  <2> QED BY <1>2, <1>8, <2>1 DEF FindResource
<1> QED BY <1>2, <1>3, <1>4, <1>5, <1>6, <1>7, <1>8 DEF MainImpl, DiscoveryFails

\* What the walk over a network leaves behind it has no address of the subnet.
LEMMA NoneInCommon ==
  ASSUME NEW m \in Networks, NEW n \in Networks,
         \A ip \in Addresses : Contains(m, ip) => ~Contains(n, ip)
  PROVE  ~Overlap(m, n)
<1>1. m.first \in Addresses /\ n.first \in Addresses /\ m.last \in Addresses /\ n.last \in Addresses
      /\ m.first <= m.last /\ n.first <= n.last
  BY NetworkAssumption
<1>2. m.first <= n.first \/ n.first <= m.first
  BY <1>1, NetworkAssumption DEF Addresses
<1> QED BY <1>1, <1>2, NetworkAssumption DEF Overlap, Contains, Addresses

\* A new state of the check is an invariant state when it is typed, has passed
\* what Passed says and its verdict is right.
LEMMA CheckingOK ==
  ASSUME StartupIInv, process.stage = "running",
         NEW s \in Networks \union {Garbage}, NEW todo \in SUBSET Networks,
         NEW network \in Networks \union {None}, NEW ip \in Addresses, NEW verdict \in BOOLEAN \union {None},
         Checking(s, todo, network, ip, verdict), Passed', VerdictRight'
  PROVE  StartupIInv'
<1>1. TypeOK'
  BY DEF StartupIInv, TypeOK, Checking
<1>2. Settled'
  BY DEF StartupIInv, Settled, Checking, Listed
<1> QED BY <1>1, <1>2 DEF StartupIInv

\* A verdict is never None.
LEMMA Verdicts == FALSE # None /\ TRUE # None
<1>1. \A b \in BOOLEAN : b # None
  BY NetworkAssumption, Zenon
<1> QED BY <1>1, Zenon

\* The steps of isProtected, and the question and the use of its answer.
LEMMA CheckOK ==
  ASSUME StartupIInv,
         (\E s \in Networks \union {Garbage} : Ask(s)) \/ IsProtected \/ Answered
  PROVE  StartupIInv'
<1> DEFINE c == check
<1>1. TypeOK /\ Settled /\ Passed /\ VerdictRight
  BY DEF StartupIInv
<1>2. ASSUME NEW s \in Networks \union {Garbage}, Ask(s) PROVE StartupIInv'
  <2> DEFINE todo == IF s = Garbage THEN {} ELSE process.protected
             verdict == IF s = Garbage THEN FALSE ELSE None
  <2>1. /\ process.stage = "running" /\ UNCHANGED <<env, process>>
        /\ check' = [subnet |-> s, todo |-> todo, network |-> None, ip |-> 0, verdict |-> verdict]
        /\ Checking(s, todo, None, 0, verdict)
    BY <1>2 DEF Ask, Checking
  <2>2. todo \in SUBSET Networks /\ 0 \in Addresses
    BY <1>1, NetworkAssumption DEF TypeOK, Process, Addresses
  <2>3. Passed'
    BY <2>1, Verdicts DEF Passed
  <2>4. VerdictRight'
    BY <2>1 DEF VerdictRight
  <2> HIDE DEF todo, verdict
  <2>5. verdict \in BOOLEAN \union {None}
    BY DEF verdict
  <2> QED BY <2>1, <2>2, <2>3, <2>4, <2>5, CheckingOK
<1>3. ASSUME check # None, check.verdict = None
      PROVE  /\ check \in [subnet : Networks \union {Garbage}, todo : SUBSET Networks,
                           network : Networks \union {None}, ip : Addresses,
                           verdict : BOOLEAN \union {None}]
             /\ check.subnet \in Networks
             /\ process.stage = "running" /\ process.protected = Listed(env)
             /\ process.protected \subseteq Networks
  BY <1>1, <1>3 DEF TypeOK, Process, Settled, Equipped, Passed
<1>4. CASE NextNetwork
  <2>1. check # None /\ check.verdict = None
    BY <1>4 DEF NextNetwork
  <2>2. \A n \in process.protected \ check.todo : ~Overlap(n, check.subnet)
    <3> SUFFICES ASSUME NEW n \in process.protected, n \notin check.todo
                 PROVE  ~Overlap(n, check.subnet)
      OBVIOUS
    <3>1. CASE n = check.network
      <4>1. ~Contains(check.network, check.ip) /\ check.network # None
        BY <1>3, <1>4, <2>1, <3>1, NetworkAssumption DEF NextNetwork
      <4>2. \A ip \in Addresses : Contains(n, ip) => ~Contains(check.subnet, ip)
        BY <1>1, <2>1, <3>1, <4>1 DEF Passed
      <4> QED BY <1>3, <2>1, <4>2, NoneInCommon
    <3>2. CASE n # check.network
      BY <1>1, <2>1, <3>2 DEF Passed
    <3> QED BY <3>1, <3>2
  <2>3. ASSUME NEW n \in check.todo, Checking(check.subnet, check.todo \ {n}, n, n.first, None)
        PROVE  StartupIInv'
    <3>1. n \in process.protected /\ n \in Networks /\ n.first \in Addresses /\ n.first <= n.last /\ n.last \in Addresses
      BY <1>1, <1>3, <2>1, NetworkAssumption DEF Passed
    <3>2. Contains(n, n.first)
      BY <3>1, NetworkAssumption DEF Contains, Addresses
    <3>3. /\ UNCHANGED process
          /\ check'.subnet = check.subnet /\ check'.todo = check.todo \ {n}
          /\ check'.network = n /\ check'.ip = n.first /\ check'.verdict = None
      BY <2>3 DEF Checking
    <3>4. \A ip \in Addresses : Contains(n, ip) => ~(ip < n.first)
      BY <3>1, NetworkAssumption DEF Contains, Addresses
    <3>5. \A m \in process.protected \ (check'.todo \union {check'.network}) : ~Overlap(m, check.subnet)
      BY <2>2, <3>3
    <3>6. check.subnet # Garbage /\ check.todo \subseteq process.protected
      BY <1>1, <2>1 DEF Passed
    <3>7. Passed'
      BY <3>1, <3>2, <3>3, <3>4, <3>5, <3>6 DEF Passed
    <3>8. VerdictRight'
      BY <3>3 DEF VerdictRight
    <3>9. check.todo \ {n} \in SUBSET Networks
      BY <1>3, <2>1
    <3> QED BY <1>3, <2>1, <2>3, <3>1, <3>7, <3>8, <3>9, CheckingOK
  <2>4. ASSUME check.todo = {}, Checking(check.subnet, {}, None, 0, FALSE)
        PROVE  StartupIInv'
    <3>1. /\ UNCHANGED <<env, process>>
          /\ check'.subnet = check.subnet /\ check'.verdict = FALSE
      BY <2>4 DEF Checking
    <3>2. 0 \in Addresses
      BY NetworkAssumption DEF Addresses
    <3>3. Passed'
      BY <3>1, Verdicts DEF Passed
    <3>4. \A n \in Listed(env) : ~Overlap(n, check.subnet)
      BY <1>3, <2>1, <2>2, <2>4
    <3>5. Listed(env)' = Listed(env)
      BY <3>1 DEF Listed
    <3>6. VerdictRight'
      BY <3>1, <3>4, <3>5 DEF VerdictRight
    <3> QED BY <1>3, <2>1, <2>4, <3>2, <3>3, <3>6, CheckingOK
  <2> QED BY <1>4, <2>3, <2>4 DEF NextNetwork
<1>5. CASE NextAddress
  <2>1. check # None /\ check.verdict = None /\ check.network # None /\ Contains(check.network, check.ip)
    BY <1>5 DEF NextAddress
  <2> DEFINE n == check.network
             s == check.subnet
             ip == check.ip
  <2>2. /\ n \in process.protected /\ n \in Networks /\ s \in Networks /\ ip \in Addresses
        /\ check.todo \subseteq process.protected /\ check.todo \in SUBSET Networks
        /\ process.stage = "running" /\ process.protected = Listed(env)
        /\ \A m \in process.protected \ (check.todo \union {n}) : ~Overlap(m, s)
        /\ \A x \in Addresses : Contains(n, x) /\ x < ip => ~Contains(s, x)
    BY <1>1, <1>3, <2>1 DEF Passed
  <2>3. /\ n.first \in Addresses /\ n.last \in Addresses /\ s.first \in Addresses /\ s.last \in Addresses
    BY <2>2, NetworkAssumption
  <2>4. ASSUME Contains(s, ip), Checking(s, check.todo, n, ip, TRUE) PROVE StartupIInv'
    <3>1. /\ UNCHANGED <<env, process>>
          /\ check'.subnet = s /\ check'.verdict = TRUE
      BY <2>4 DEF Checking
    <3>2. s # Garbage
      BY <2>2, NetworkAssumption
    <3>3. Overlap(n, s)
      BY <2>1, <2>2, <2>3, <2>4, NetworkAssumption DEF Overlap, Contains, Addresses
    <3>4. Listed(env)' = Listed(env)
      BY <3>1 DEF Listed
    <3>5. Passed'
      BY <3>1, Verdicts DEF Passed
    <3>6. VerdictRight'
      BY <2>2, <3>1, <3>2, <3>3, <3>4 DEF VerdictRight
    <3> HIDE DEF n, s, ip
    <3> QED BY <2>2, <2>4, <3>5, <3>6, CheckingOK
  <2>5. ASSUME ~Contains(s, ip), Checking(s, check.todo, n, Inc(ip), None) PROVE StartupIInv'
    <3>1. /\ UNCHANGED process
          /\ check'.subnet = s /\ check'.todo = check.todo
          /\ check'.network = n /\ check'.ip = Inc(ip) /\ check'.verdict = None
      BY <2>5 DEF Checking
    <3>2. Inc(ip) \in Addresses
      BY <2>2, NetworkAssumption DEF Inc, Addresses
    <3>3. ASSUME NEW x \in Addresses, Contains(n, x), Contains(n, Inc(ip)) => x < Inc(ip)
          PROVE  ~Contains(s, x)
      <4>1. x < ip \/ x = ip
        BY <2>1, <2>2, <2>3, <3>3, NetworkAssumption DEF Inc, Contains, Addresses
      <4> QED BY <2>2, <2>5, <3>3, <4>1
    <3>4. s # Garbage
      BY <2>2, NetworkAssumption
    <3> HIDE DEF n, s, ip
    <3>5. Passed'
      BY <2>2, <3>1, <3>3, <3>4 DEF Passed
    <3>6. VerdictRight'
      BY <3>1 DEF VerdictRight
    <3> QED BY <2>2, <2>5, <3>2, <3>5, <3>6, CheckingOK
  <2> QED BY <1>5, <2>4, <2>5 DEF NextAddress
<1>6. CASE Answered
  BY <1>1, <1>6 DEF Answered, StartupIInv, TypeOK, Settled, Passed, VerdictRight, Listed
<1> QED BY <1>2, <1>4, <1>5, <1>6 DEF IsProtected

\* Init establishes StartupIInv.
LEMMA InitOK == Init => StartupIInv
BY DEF Init, StartupIInv, TypeOK, Process, Settled, Equipped, Stages, Calls, Dead, Passed, VerdictRight

\* Every step preserves StartupIInv.
LEMMA NextOK == StartupIInv /\ [Next]_vars => StartupIInv'
<1> SUFFICES ASSUME StartupIInv, [Next]_vars PROVE StartupIInv'
  OBVIOUS
<1>1. TypeOK
  BY DEF StartupIInv
<1>2. CASE Spawn
  <2> DEFINE p == [Dead EXCEPT !.stage = "getConfig"]
  <2>1. Dead \in Process
    BY DEF Dead, Process, Stages
  <2>2. p \in Process
    BY <2>1 DEF Process, Stages, Calls
  <2>3. Become(p)
    BY <1>2 DEF Spawn
  <2>4. Settled'
    BY <2>3 DEF Become, Settled, Dead, Equipped, Stages, Calls
  <2> HIDE DEF p
  <2> QED BY <2>2, <2>3, <2>4, BecomeOK
<1>3. CASE Fails
  BY <1>1, <1>3, DeadOK DEF Fails, Mishap, TypeOK
<1>4. CASE Redeploy
  BY <1>1, <1>4, DeadOK DEF Redeploy, Mishap, TypeOK
<1>5. CASE CrdChanges
  <2>1. UNCHANGED <<env, process, check>> /\ TypeOK'
    BY <1>1, <1>5 DEF CrdChanges, Mishap, TypeOK
  <2> QED BY <2>1 DEF StartupIInv, Settled, Passed, VerdictRight, Listed
<1>6. CASE UNCHANGED vars
  BY <1>6 DEF vars, StartupIInv, TypeOK, Settled, Passed, VerdictRight, Listed
<1> QED BY <1>2, <1>3, <1>4, <1>5, <1>6, MainImplOK, CheckOK DEF Next

\* For an address space of any size, and any networks and environments: a state
\* of the operator's start is typed, each stage of mainImpl has behind it what
\* the earlier ones settled, and the walk of isProtected has passed no address
\* of the subnet it is about.
THEOREM StartupInductive == Spec => []StartupIInv
<1>1. QED BY InitOK, NextOK, PTL DEF Spec

\* No controller is added before every setting was legal and was taken over,
\* main.go's environment variables among them.
THEOREM FullyConfigured == Spec => []Configured
<1>1. StartupIInv => Configured
  <2> SUFFICES ASSUME StartupIInv, process.added # {} PROVE Configured
    BY DEF Configured
  <2>1. process.stage \in Equipped /\ TypeOK /\ Settled
    BY DEF StartupIInv, Settled
  <2>2. env \in Environment /\ process \in Process
    BY <2>1, EnvironmentAssumption DEF TypeOK
  <2>3. env.hostname /\ process.runs /\ Garbage \notin Listed(env) /\ process.protected = Listed(env)
        /\ process.fallback = env.fallback
        /\ env.table # Garbage /\ process.table = (IF env.table = None THEN 254 ELSE env.table)
    BY <2>1 DEF Settled, Equipped, Stages, Calls
  <2>4. env.table = None \/ env.table \in 0 .. 254
    BY <2>2, <2>3 DEF Process, Environment
  <2>5. env.fallback \in IPv4 \union {None}
    BY <2>2, <2>3 DEF Process
  <2> QED BY <2>3, <2>4, <2>5 DEF Configured, Legal
<1> QED BY <1>1, StartupInductive, PTL

\* isProtected answers that a subnet is protected exactly when it overlaps one of
\* the protected subnets of the environment, for networks that reach either end
\* of the address space too.
THEOREM OverlapsRefused == Spec => []VerdictRight
<1>1. StartupIInv => VerdictRight
  BY DEF StartupIInv
<1> QED BY <1>1, StartupInductive, PTL

\* From the last address the walk leaves the network, unless it is the network of
\* all addresses, which has the first address of the subnet behind it.
LEMMA AddressOn ==
  ASSUME StartupIInv, NextAddress, check'.verdict = None
  PROVE  /\ check'.todo = check.todo /\ check'.network = check.network
         /\ Contains(check.network, check'.ip) => check'.ip > check.ip
<1> DEFINE n == check.network
           s == check.subnet
           ip == check.ip
<1>1. /\ n \in Networks /\ s \in Networks /\ ip \in Addresses /\ Contains(n, ip)
      /\ \A x \in Addresses : Contains(n, x) /\ x < ip => ~Contains(s, x)
  BY DEF StartupIInv, TypeOK, Process, Passed, NextAddress
<1>2. /\ n.first \in Addresses /\ n.last \in Addresses
      /\ s.first \in Addresses /\ s.last \in Addresses /\ s.first <= s.last
  BY <1>1, NetworkAssumption
<1>3. CASE Contains(s, ip)
  <2>1. check'.verdict = TRUE
    BY <1>3 DEF NextAddress, Checking
  <2> QED BY <2>1, Verdicts
<1>4. CASE ~Contains(s, ip)
  <2>1. check'.todo = check.todo /\ check'.network = n /\ check'.ip = Inc(ip)
    BY <1>4 DEF NextAddress, Checking
  <2>2. CASE ip # Top
    BY <1>1, <2>1, <2>2, NetworkAssumption DEF Inc, Addresses
  <2>3. CASE ip = Top
    <3>1. check'.ip = 0 /\ n.last = Top
      BY <1>1, <1>2, <2>1, <2>3, NetworkAssumption DEF Inc, Contains, Addresses
    <3>2. n.first # 0
      <4> SUFFICES ASSUME n.first = 0 PROVE FALSE
        OBVIOUS
      <4>1. Contains(n, s.first) /\ Contains(s, s.first)
        BY <1>2, <3>1, NetworkAssumption DEF Contains, Addresses
      <4>2. s.first < ip
        <5>1. s.first # ip
          BY <1>4, <4>1
        <5> QED BY <1>2, <2>3, <5>1, NetworkAssumption DEF Addresses
      <4> QED BY <1>1, <1>2, <4>1, <4>2
    <3>3. ~Contains(n, 0)
      BY <1>2, <3>2, NetworkAssumption DEF Contains, Addresses
    <3> QED BY <2>1, <3>1, <3>3
  <2> QED BY <2>2, <2>3
<1> QED BY <1>3, <1>4

\* The check of a subnet never walks an address twice, for an address space of
\* any size and networks at either end of it: with finitely many protected
\* subnets it comes to its verdict.
THEOREM NeverTwice == Spec => WalksOn
<1>1. ASSUME StartupIInv, [Next]_vars, check # None, check' # None, check' # check,
             check.verdict = None, check'.verdict = None
      PROVE  \/ \E n \in check.todo : check'.todo = check.todo \ {n}
             \/ /\ check'.todo = check.todo
                /\ check'.network = check.network
                /\ Contains(check.network, check'.ip) => check'.ip > check.ip
  <2>1. CASE NextAddress
    BY <1>1, <2>1, AddressOn
  <2>2. CASE NextNetwork
    <3>1. ASSUME Checking(check.subnet, {}, None, 0, FALSE) PROVE FALSE
      BY <1>1, <3>1, Verdicts DEF Checking
    <3>2. PICK n \in check.todo : Checking(check.subnet, check.todo \ {n}, n, n.first, None)
      BY <2>2, <3>1 DEF NextNetwork
    <3>3. check'.todo = check.todo \ {n}
      BY <3>2 DEF Checking
    <3> QED BY <3>2, <3>3
  <2>3. ~MainImpl
    BY <1>1 DEF MainImpl, Call, DiscoveryFails, ReadHostname, SelectTable, SelectFallback,
                CollectProtectedSubnets, FindResource, Panic, Become
  <2> QED BY <1>1, <2>1, <2>2, <2>3
          DEF Next, vars, Spawn, Become, Fails, Ask, IsProtected, Answered, CrdChanges, Redeploy
<1>2. StartupIInv /\ [Next]_vars
        => [check # None /\ check' # None /\ check' # check /\ check.verdict = None /\ check'.verdict = None
              => \/ \E n \in check.todo : check'.todo = check.todo \ {n}
                 \/ /\ check'.todo = check.todo
                    /\ check'.network = check.network
                    /\ Contains(check.network, check'.ip) => check'.ip > check.ip]_vars
  BY <1>1
<1> QED BY <1>2, StartupInductive, PTL DEF Spec, WalksOn

=============================================================================
