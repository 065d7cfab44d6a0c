------------------------- MODULE RouteManagerProofs -------------------------
(***************************************************************************)
(* Proofs about RouteManager, for any callers, requests, routes, watchers  *)
(* and bounds: it implements the atomic route table with its bag of        *)
(* watchers, and the deletion of a managed route does not go unnoticed.    *)
(***************************************************************************)
EXTENDS RouteManagerProperties, SequenceTheorems, FunctionTheorems, FiniteSetTheorems, TLAPS

USE DEF Table!Waits, Table!Answer, Table!Ops, Table!Answers

-----------------------------------------------------------------------------
(***************************************************************************)
(* Types                                                                   *)
(***************************************************************************)
\* A list of watchers without one is a list of watchers.
LEMMA RemoveAtType ==
  ASSUME NEW S, NEW s \in Seq(S), NEW i \in DOMAIN s
  PROVE  RemoveAt(s, i) \in Seq(S)
<1>1. i \in 1 .. Len(s) /\ Len(s) \in Nat
  OBVIOUS
<1>2. \A k \in 1 .. Len(s) : s[k] \in S
  BY ElementOfSeq
<1>3. SubSeq(s, 1, i - 1) \in Seq(S)
  BY <1>1, <1>2, SubSeqProperties
<1>4. SubSeq(s, i + 1, Len(s)) \in Seq(S)
  BY <1>1, <1>2, SubSeqProperties
<1> QED BY <1>3, <1>4, ConcatProperties DEF RemoveAt

\* A call in progress is one of the requests.
LEMMA CallType ==
  ASSUME TypeOK, NEW c \in Callers, NEW op, Table!Waits(c, op)
  PROVE  /\ calls[c] \in InCall
         /\ calls[c].request \in Requested
         /\ op \in {"RegisterRoute", "DeRegisterRoute", "IsRegistered"} => Name(c) \in Names
         /\ op = "RegisterRoute" => Arg(c) \in Routes
         /\ op \in {"RegisterWatcher", "DeRegisterWatcher"} => Arg(c) \in Watchers
<1>1. calls[c] \in InCall
  BY DEF TypeOK
<1>2. calls[c].request \in Requested
  BY <1>1 DEF InCall
<1> QED BY <1>1, <1>2, RequestAssumption DEF Name, Arg

\* An answered caller is still in its call.
LEMMA AnswerType ==
  ASSUME TypeOK, NEW c \in Callers, NEW op, Table!Waits(c, op),
         NEW a \in Table!Answers, Table!Answer(c, a)
  PROVE  calls' \in [Callers -> InCall \union {None}]
<1>1. calls[c] \in InCall
  BY CallType
<1>2. [calls[c] EXCEPT !.answer = a] \in InCall
  BY <1>1 DEF InCall
<1> QED BY <1>2 DEF TypeOK

\* The kernel and its stream hold routes.
LEMMA NetType ==
  ASSUME TypeOK, NEW r \in Routes, Disappear(r)
  PROVE  kernel' \subseteq Routes /\ updates' \in Seq(Routes) /\ subscribed' \in BOOLEAN
<1>1. Append(updates, r) \in Seq(Routes)
  BY AppendProperties DEF TypeOK
<1> QED BY <1>1 DEF Disappear, TypeOK

\* The states of Run.
LEMMA LoopType ==
  ASSUME TypeOK
  PROVE  /\ Selecting \in Loops
         /\ \A c \in Callers : At("record", c, None, <<>>) \in Loops
         /\ \A r \in Routes : At("notify", None, r, watchers) \in Loops
BY DEF Selecting, At, Loops, TypeOK

\* The initial state is well typed.
LEMMA InitType == Init => TypeOK
<1> SUFFICES ASSUME Init PROVE TypeOK
  OBVIOUS
<1>1. Selecting \in Loops
  BY DEF Selecting, At, Loops
<1> QED BY <1>1 DEF Init, TypeOK

\* Run serves a caller.
LEMMA ServeType ==
  ASSUME TypeOK, NEW c \in Callers, Serve(c)
  PROVE  TypeOK'
<1>1. CASE AddRoute(c)
  <2>1. Arg(c) \in Routes
    BY <1>1, CallType DEF AddRoute, Serves
  <2>2. kernel' \subseteq Routes /\ told' \subseteq Names
    BY <1>1, <2>1 DEF AddRoute, Appear, TypeOK
  <2>3. loop' \in Loops
    BY <1>1, LoopType DEF AddRoute
  <2> QED BY <1>1, <2>2, <2>3 DEF AddRoute, TypeOK
<1>2. CASE AddFails(c)
  <2>1. calls' \in [Callers -> InCall \union {None}]
    BY <1>2, AnswerType DEF AddFails, Serves
  <2> QED BY <1>2, <2>1 DEF AddFails, netVars, runVars, TypeOK
<1>3. CASE DelNotFound(c)
  <2>1. calls' \in [Callers -> InCall \union {None}]
    BY <1>3, AnswerType DEF DelNotFound, Serves
  <2> QED BY <1>3, <2>1 DEF DelNotFound, netVars, runVars, TypeOK
<1>4. CASE DelRoute(c)
  <2>1. managed[Name(c)] \in Routes
    BY <1>4, CallType DEF DelRoute, Serves, TypeOK
  <2>2. kernel' \subseteq Routes /\ updates' \in Seq(Routes) /\ subscribed' \in BOOLEAN
    BY <1>4, <2>1, NetType DEF DelRoute
  <2>3. loop' \in Loops
    BY <1>4, LoopType DEF DelRoute
  <2> QED BY <1>4, <2>2, <2>3 DEF DelRoute, TypeOK
<1>5. CASE DelFails(c)
  <2>1. calls' \in [Callers -> InCall \union {None}]
    BY <1>5, AnswerType DEF DelFails, Serves
  <2> QED BY <1>5, <2>1 DEF DelFails, netVars, runVars, TypeOK
<1>6. CASE AddWatcher(c)
  <2>1. calls' \in [Callers -> InCall \union {None}]
    BY <1>6, AnswerType DEF AddWatcher, Serves
  <2>2. watchers' \in Seq(Watchers)
    BY <1>6, CallType, AppendProperties DEF AddWatcher, Serves, TypeOK
  <2> QED BY <1>6, <2>1, <2>2 DEF AddWatcher, netVars, TypeOK
<1>7. CASE DropWatcher(c)
  <2>1. calls' \in [Callers -> InCall \union {None}]
    BY <1>7, AnswerType DEF DropWatcher, Serves
  <2>2. watchers' \in Seq(Watchers)
    BY <1>7, RemoveAtType DEF DropWatcher, TypeOK
  <2> QED BY <1>7, <2>1, <2>2 DEF DropWatcher, netVars, TypeOK
<1> QED BY <1>1, <1>2, <1>3, <1>4, <1>5, <1>6, <1>7 DEF Serve

\* Run goes on on its own.
LEMMA RunType ==
  ASSUME TypeOK, Record \/ TakeUpdate \/ Notify
  PROVE  TypeOK'
<1>1. ASSUME NEW c \in Callers, RecordAdded(c) PROVE TypeOK'
  <2>1. calls' \in [Callers -> InCall \union {None}]
    BY <1>1, AnswerType DEF RecordAdded
  <2>2. Name(c) \in Names /\ Arg(c) \in Routes
    BY <1>1, CallType DEF RecordAdded
  <2>3. loop' \in Loops
    BY <1>1, LoopType DEF RecordAdded
  <2> QED BY <1>1, <2>1, <2>2, <2>3 DEF RecordAdded, netVars, TypeOK
<1>2. ASSUME NEW c \in Callers, RecordDeleted(c) PROVE TypeOK'
  <2>1. calls' \in [Callers -> InCall \union {None}]
    BY <1>2, AnswerType DEF RecordDeleted
  <2>2. Name(c) \in Names
    BY <1>2, CallType DEF RecordDeleted
  <2>3. loop' \in Loops
    BY <1>2, LoopType DEF RecordDeleted
  <2> QED BY <1>2, <2>1, <2>2, <2>3 DEF RecordDeleted, netVars, TypeOK
<1>3. CASE TakeUpdate
  <2>1. Head(updates) \in Routes /\ updates' \in Seq(Routes)
    BY <1>3, HeadTailProperties DEF TakeUpdate, TypeOK
  <2>2. loop' \in Loops
    BY <1>3, <2>1, LoopType DEF TakeUpdate
  <2>3. told' \subseteq Names
    BY <1>3 DEF TakeUpdate, Damaged, TypeOK
  <2> QED BY <1>3, <2>1, <2>2, <2>3 DEF TakeUpdate, TypeOK
<1>4. CASE Notify
  <2>1. loop \in [pc : {"notify", "calling"}, caller : {None}, route : Routes, rest : Seq(Watchers)]
    BY <1>4 DEF Notify, TypeOK, Loops
  <2>2. loop.rest # <<>> => Tail(loop.rest) \in Seq(Watchers)
    BY <2>1, HeadTailProperties
  <2>3. loop' \in Loops
    BY <1>4, <2>1, <2>2, LoopType DEF Notify, Loops
  <2> QED BY <1>4, <2>3 DEF Notify, netVars, TypeOK
<1> QED BY <1>1, <1>2, <1>3, <1>4 DEF Record

\* The callers, the other users of the kernel, and the end of the process.
LEMMA OthersType ==
  ASSUME TypeOK,
         \/ \E c \in Callers :
              \/ \E q \in Requests[c] : Invoke(c, q)
              \/ IsRegistered(c) \/ ReadDuringWrite(c) \/ Return(c)
         \/ StreamEnds
         \/ \E r \in Routes : Tamper(r) \/ Intrude(r)
  PROVE  TypeOK'
<1>1. ASSUME NEW c \in Callers, NEW q \in Requests[c], Invoke(c, q) PROVE TypeOK'
  <2>1. [request |-> q, answer |-> None] \in InCall
    BY DEF InCall, Requested
  <2> QED BY <1>1, <2>1 DEF Invoke, Table!Call, netVars, runVars, TypeOK
<1>2. ASSUME NEW c \in Callers, IsRegistered(c) PROVE TypeOK'
  <2>1. calls' \in [Callers -> InCall \union {None}]
    BY <1>2, AnswerType DEF IsRegistered
  <2> QED BY <1>2, <2>1 DEF IsRegistered, netVars, runVars, TypeOK
<1>3. ASSUME NEW c \in Callers, Return(c) PROVE TypeOK'
  BY <1>3 DEF Return, Table!Return, netVars, runVars, TypeOK
<1>4. ASSUME Anew PROVE TypeOK'
  BY <1>4, LoopType DEF Anew, TypeOK
<1>5. ASSUME NEW r \in Routes, Tamper(r) PROVE TypeOK'
  BY <1>5, NetType DEF Tamper, runVars, TypeOK
<1>6. ASSUME NEW r \in Routes, Intrude(r) PROVE TypeOK'
  BY <1>6 DEF Intrude, Appear, TypeOK
<1> QED BY <1>1, <1>2, <1>3, <1>4, <1>5, <1>6 DEF ReadDuringWrite, StreamEnds

\* Every step keeps all types.
LEMMA NextType ==
  ASSUME TypeOK, [Next]_vars
  PROVE  TypeOK'
<1>1. CASE UNCHANGED vars
  BY <1>1 DEF vars, netVars, runVars, TypeOK
<1>2. CASE Next
  BY <1>2, ServeType, RunType, OthersType DEF Next
<1> QED BY <1>1, <1>2

-----------------------------------------------------------------------------
(***************************************************************************)
(* What the check found is still true when the map is written              *)
(***************************************************************************)
\* Whatever leaves Run selecting, or as it is with the callers it may serve.
LEMMA PendingKept ==
  ASSUME RecordPending,
         \/ loop' = Selecting
         \/ loop' = loop /\ UNCHANGED managed
              /\ \A c \in Callers : calls[c] # None /\ calls[c].answer = None => calls'[c] = calls[c]
         \/ loop'.pc # "record"
  PROVE  RecordPending'
<1>1. CASE loop' = Selecting \/ loop'.pc # "record"
  BY <1>1 DEF RecordPending, Selecting, At
<1>2. CASE /\ loop' = loop /\ UNCHANGED managed
           /\ \A c \in Callers : calls[c] # None /\ calls[c].answer = None => calls'[c] = calls[c]
  BY <1>2 DEF RecordPending, Name
<1> QED BY <1>1, <1>2

\* The check of registerRoute or deRegisterRoute establishes it.
LEMMA PendingServe ==
  ASSUME IInv, NEW c \in Callers, Serve(c)
  PROVE  RecordPending'
<1>1. CASE AddRoute(c)
  BY <1>1 DEF AddRoute, Serves, NameTaken, At, RecordPending, Name
<1>2. CASE DelRoute(c)
  BY <1>2 DEF DelRoute, Serves, At, RecordPending, Name
<1>3. CASE AddFails(c) \/ DelNotFound(c) \/ DelFails(c) \/ AddWatcher(c) \/ DropWatcher(c)
  <2>1. loop' = Selecting
    BY <1>3 DEF AddFails, DelNotFound, DelFails, AddWatcher, DropWatcher, Serves, runVars
  <2> QED BY <2>1, PendingKept DEF IInv
<1> QED BY <1>1, <1>2, <1>3 DEF Serve

\* Meanwhile nobody else answers the caller or writes the map.
LEMMA PendingNext ==
  ASSUME IInv, [Next]_vars
  PROVE  RecordPending'
<1>1. ASSUME NEW c \in Callers, NEW q \in Requests[c], Invoke(c, q) PROVE RecordPending'
  BY <1>1, PendingKept DEF Invoke, Table!Call, netVars, runVars, IInv, TypeOK
<1>2. ASSUME NEW c \in Callers, Return(c) PROVE RecordPending'
  BY <1>2, PendingKept DEF Return, Table!Return, netVars, runVars, IInv, TypeOK
<1>3. ASSUME NEW c \in Callers, IsRegistered(c) PROVE RecordPending'
  <2>1. UNCHANGED <<managed, loop>> /\ \A d \in Callers \ {c} : calls'[d] = calls[d]
    BY <1>3 DEF IsRegistered, netVars, runVars, IInv, TypeOK
  <2>2. ~ (loop.pc = "record" /\ loop.caller = c)
    BY <1>3 DEF IsRegistered, IInv, RecordPending
  <2> QED BY <2>1, <2>2 DEF IInv, RecordPending, Name
<1>4. ASSUME Anew PROVE RecordPending'
  BY <1>4, PendingKept DEF Anew, IInv
<1>5. ASSUME Record \/ TakeUpdate \/ Notify PROVE RecordPending'
  <2>1. loop' = Selecting \/ loop'.pc # "record"
    BY <1>5 DEF Record, RecordAdded, RecordDeleted, TakeUpdate, Notify, At, Selecting, IInv, TypeOK, Loops
  <2> QED BY <2>1, PendingKept DEF IInv
<1>6. ASSUME NEW r \in Routes, Tamper(r) \/ Intrude(r) PROVE RecordPending'
  <2>1. UNCHANGED <<managed, calls, loop>>
    BY <1>6 DEF Tamper, Intrude, runVars
  <2> QED BY <2>1, PendingKept DEF IInv
<1>7. CASE UNCHANGED vars
  BY <1>7, PendingKept DEF vars, runVars, IInv
<1> QED BY <1>1, <1>2, <1>3, <1>4, <1>5, <1>6, <1>7, PendingServe DEF Next, ReadDuringWrite, StreamEnds

\* The name a caller's request is about is as the check found it until Run
\* writes the map.
THEOREM ManagerInductive == Spec => []IInv
<1>1. Init => IInv
  BY InitType DEF Init, Selecting, At, IInv, RecordPending
<1>2. IInv /\ [Next]_vars => IInv'
  BY NextType, PendingNext DEF IInv
<1> QED BY <1>1, <1>2, PTL DEF Spec

-----------------------------------------------------------------------------
(***************************************************************************)
(* The atomic route table                                                  *)
(***************************************************************************)
\* How many watchers of each content are in the list.
Bag(s) == [k \in {Content[v] : v \in Watchers} |-> Cardinality(Positions(s, k))]

\* The places of one content are finitely many.
LEMMA CountType ==
  ASSUME NEW S, NEW s \in Seq(S), NEW k
  PROVE  IsFiniteSet(Positions(s, k)) /\ Cardinality(Positions(s, k)) \in Nat
<1>1. Len(s) \in Nat /\ DOMAIN s = 1 .. Len(s)
  OBVIOUS
<1>2. IsFiniteSet(1 .. Len(s))
  BY <1>1, FS_Interval
<1>3. Positions(s, k) \in SUBSET (1 .. Len(s))
  BY <1>1 DEF Positions
<1>4. IsFiniteSet(Positions(s, k))
  BY <1>2, <1>3, FS_Subset
<1> QED BY <1>4, FS_CardinalityType

\* One more with that content, where one is appended.
LEMMA AppendCount ==
  ASSUME NEW S, NEW s \in Seq(S), NEW e \in S, NEW k
  PROVE  Cardinality(Positions(Append(s, e), k))
           = IF Content[e] = k THEN Cardinality(Positions(s, k)) + 1 ELSE Cardinality(Positions(s, k))
<1>1. /\ Len(s) \in Nat /\ DOMAIN s = 1 .. Len(s)
      /\ DOMAIN Append(s, e) = 1 .. Len(s) + 1
      /\ \A j \in 1 .. Len(s) : Append(s, e)[j] = s[j]
      /\ Append(s, e)[Len(s) + 1] = e
  OBVIOUS
<1>2. 1 .. Len(s) + 1 = (1 .. Len(s)) \union {Len(s) + 1}
  BY <1>1
<1>3. Positions(Append(s, e), k)
        = IF Content[e] = k THEN Positions(s, k) \union {Len(s) + 1} ELSE Positions(s, k)
  BY <1>1, <1>2 DEF Positions
<1>4. Len(s) + 1 \notin Positions(s, k)
  BY <1>1 DEF Positions
<1> QED BY <1>3, <1>4, CountType, FS_AddElement

\* What is at which place when the i-th element is gone.
LEMMA RemoveAtPlaces ==
  ASSUME NEW S, NEW s \in Seq(S), NEW i \in DOMAIN s
  PROVE  /\ DOMAIN RemoveAt(s, i) = 1 .. Len(s) - 1
         /\ \A j \in 1 .. Len(s) - 1 : RemoveAt(s, i)[j] = s[IF j < i THEN j ELSE j + 1]
<1> DEFINE f == SubSeq(s, 1, i - 1)
           g == SubSeq(s, i + 1, Len(s))
           t == RemoveAt(s, i)
<1>1. i \in 1 .. Len(s) /\ Len(s) \in Nat /\ DOMAIN s = 1 .. Len(s)
  OBVIOUS
<1>2. \A k \in 1 .. Len(s) : s[k] \in S
  BY ElementOfSeq
<1>3. /\ f \in Seq(S) /\ Len(f) = i - 1
      /\ \A k \in 1 .. i - 1 : f[k] = s[k]
  BY <1>1, <1>2, SubSeqProperties
<1>4. /\ g \in Seq(S) /\ Len(g) = Len(s) - i
      /\ \A k \in 1 .. Len(s) - i : g[k] = s[i + k]
  BY <1>1, <1>2, SubSeqProperties
<1> HIDE DEF f, g
<1>5. t = f \o g
  BY DEF f, g, RemoveAt
<1> HIDE DEF t
<1>6. /\ t \in Seq(S) /\ Len(t) = Len(s) - 1
      /\ \A k \in 1 .. Len(s) - 1 : t[k] = IF k <= i - 1 THEN f[k] ELSE g[k - (i - 1)]
  <2>1. /\ t \in Seq(S)
        /\ Len(t) = Len(f) + Len(g)
        /\ \A k \in 1 .. Len(f) + Len(g) : t[k] = IF k <= Len(f) THEN f[k] ELSE g[k - Len(f)]
    BY <1>3, <1>4, <1>5, ConcatProperties
  <2>2. Len(f) + Len(g) = Len(s) - 1
    BY <1>1, <1>3, <1>4
  <2> QED BY <1>3, <2>1, <2>2
<1>7. DOMAIN t = 1 .. Len(s) - 1
  BY <1>6
<1>8. ASSUME NEW j \in 1 .. Len(s) - 1
      PROVE  t[j] = s[IF j < i THEN j ELSE j + 1]
  <2>1. CASE j < i
    <3>1. j <= i - 1 /\ j \in 1 .. i - 1
      BY <1>1, <2>1
    <3> QED BY <1>3, <1>6, <2>1, <3>1
  <2>2. CASE ~(j < i)
    <3>1. j - (i - 1) \in 1 .. Len(s) - i /\ i + (j - (i - 1)) = j + 1 /\ ~(j <= i - 1)
      BY <1>1, <2>2
    <3> QED BY <1>4, <1>6, <2>2, <3>1
  <2> QED BY <2>1, <2>2
<1> QED BY <1>7, <1>8 DEF t

\* One less with the content of the element that is taken out: the places of the
\* others move up, no two to the same one.
LEMMA RemoveCount ==
  ASSUME NEW S, NEW s \in Seq(S), NEW i \in DOMAIN s, NEW k
  PROVE  Cardinality(Positions(RemoveAt(s, i), k))
           = IF Content[s[i]] = k THEN Cardinality(Positions(s, k)) - 1 ELSE Cardinality(Positions(s, k))
<1> DEFINE A == Positions(RemoveAt(s, i), k)
           B == Positions(s, k) \ {i}
           move == [j \in A |-> IF j < i THEN j ELSE j + 1]
<1>1. i \in 1 .. Len(s) /\ Len(s) \in Nat /\ DOMAIN s = 1 .. Len(s)
  OBVIOUS
<1>2. A = {j \in 1 .. Len(s) - 1 : Content[s[IF j < i THEN j ELSE j + 1]] = k}
  BY RemoveAtPlaces DEF Positions
<1>3. B = {j \in 1 .. Len(s) : Content[s[j]] = k /\ j # i}
  BY <1>1 DEF Positions
<1> HIDE DEF A, B
<1>4. \A j \in A : move[j] \in B
  BY <1>1, <1>2, <1>3
<1>5. ASSUME NEW a \in A, NEW b \in A, move[a] = move[b] PROVE a = b
  BY <1>1, <1>2, <1>5
<1>6. ASSUME NEW b \in B PROVE \E a \in A : move[a] = b
  <2> DEFINE a == IF b < i THEN b ELSE b - 1
  <2>1. a \in 1 .. Len(s) - 1 /\ (IF a < i THEN a ELSE a + 1) = b
    BY <1>1, <1>3
  <2>2. a \in A
    BY <1>2, <1>3, <2>1
  <2> QED BY <2>1, <2>2
<1>7. move \in Bijection(A, B)
  <2>1. move \in [A -> B]
    BY <1>4
  <2> QED BY <1>5, <1>6, <2>1, Fun_IsBij
<1>8. IsFiniteSet(B) /\ Cardinality(B)
        = IF Content[s[i]] = k THEN Cardinality(Positions(s, k)) - 1 ELSE Cardinality(Positions(s, k))
  <2>1. i \in Positions(s, k) <=> Content[s[i]] = k
    BY DEF Positions
  <2> QED BY <2>1, CountType, FS_RemoveElement DEF B
<1>9. ExistsBijection(B, A)
  BY <1>7, Fun_ExistsBijSymmetric DEF ExistsBijection
<1> QED BY <1>8, <1>9, FS_Bijection DEF A

\* The bag gains the watcher that is registered.
LEMMA WatcherAdded ==
  ASSUME TypeOK, NEW c \in Callers, AddWatcher(c)
  PROVE  Bag(watchers') = [Bag(watchers) EXCEPT ![Content[Arg(c)]] = @ + 1]
<1>1. Arg(c) \in Watchers /\ watchers \in Seq(Watchers) /\ watchers' = Append(watchers, Arg(c))
  BY CallType DEF AddWatcher, Serves, TypeOK
<1>2. \A k : Cardinality(Positions(watchers', k))
               = IF Content[Arg(c)] = k THEN Cardinality(Positions(watchers, k)) + 1
                 ELSE Cardinality(Positions(watchers, k))
  BY <1>1, AppendCount
<1> QED BY <1>1, <1>2 DEF Bag

\* It loses one of the content that is deregistered, if there is one.
LEMMA WatcherDropped ==
  ASSUME TypeOK, NEW c \in Callers, DropWatcher(c)
  PROVE  Bag(watchers') = [Bag(watchers) EXCEPT ![Content[Arg(c)]] = IF @ = 0 THEN 0 ELSE @ - 1]
<1>1. Arg(c) \in Watchers /\ watchers \in Seq(Watchers)
  BY CallType DEF DropWatcher, Serves, TypeOK
<1> DEFINE n == Cardinality(Positions(watchers, Content[Arg(c)]))
<1>2. ASSUME NEW i \in DOMAIN watchers, First(Arg(c), i), watchers' = RemoveAt(watchers, i)
      PROVE  Bag(watchers') = [Bag(watchers) EXCEPT ![Content[Arg(c)]] = IF @ = 0 THEN 0 ELSE @ - 1]
  <2>1. Content[watchers[i]] = Content[Arg(c)]
    BY <1>2 DEF First
  <2>2. \A k : Cardinality(Positions(watchers', k))
                 = IF Content[Arg(c)] = k THEN Cardinality(Positions(watchers, k)) - 1
                   ELSE Cardinality(Positions(watchers, k))
    BY <1>1, <1>2, <2>1, RemoveCount
  <2>3. i \in Positions(watchers, Content[Arg(c)])
    BY <2>1 DEF Positions
  <2>4. n # 0
    BY <1>1, <2>3, CountType, FS_EmptySet
  <2> QED BY <2>2, <2>4 DEF Bag
<1>3. CASE (\A i \in DOMAIN watchers : Content[watchers[i]] # Content[Arg(c)]) /\ UNCHANGED watchers
  <2>1. Positions(watchers, Content[Arg(c)]) = {}
    BY <1>3 DEF Positions
  <2>2. n = 0
    BY <2>1, FS_EmptySet
  <2> QED BY <1>3, <2>2 DEF Bag
<1> QED BY <1>2, <1>3 DEF DropWatcher

\* An empty list has none of any content.
LEMMA EmptyCount ==
  ASSUME NEW k
  PROVE  Cardinality(Positions(<<>>, k)) = 0
<1>1. Positions(<<>>, k) = {}
  BY DEF Positions
<1> QED BY <1>1, FS_EmptySet

\* What Run does for a caller takes effect with the answer.
LEMMA RunRefines ==
  ASSUME IInv, NEW c \in Callers, Serve(c) \/ RecordAdded(c) \/ RecordDeleted(c)
  PROVE  [Table!TableNext]_(Table!tableVars)
<1>1. CASE AddRoute(c) \/ DelRoute(c)
  BY <1>1 DEF AddRoute, DelRoute, Table!tableVars
<1>2. CASE AddFails(c) \/ DelNotFound(c) \/ DelFails(c)
  <2>1. Table!Refuse(c)
    BY <1>2 DEF AddFails, DelNotFound, DelFails, Serves, runVars, Table!Refuse, Table!Request, Name
  <2> QED BY <2>1 DEF Table!TableNext
<1>3. CASE AddWatcher(c)
  <2>1. Table!Watch(c)
    BY <1>3, WatcherAdded DEF IInv, AddWatcher, Serves, Table!Watch, Table!Request, Arg, Bag
  <2> QED BY <2>1 DEF Table!TableNext
<1>4. CASE DropWatcher(c)
  <2>1. Table!Unwatch(c)
    BY <1>4, WatcherDropped DEF IInv, DropWatcher, Serves, Table!Unwatch, Table!Request, Arg, Bag
  <2> QED BY <2>1 DEF Table!TableNext
<1>5. CASE RecordAdded(c)
  <2>1. managed[Name(c)] = None
    BY <1>5 DEF RecordAdded, IInv, RecordPending
  <2>2. Table!Register(c)
    BY <1>5, <2>1 DEF RecordAdded, Table!Register, Table!Request, Name, Arg
  <2> QED BY <2>2 DEF Table!TableNext
<1>6. CASE RecordDeleted(c)
  <2>1. managed[Name(c)] # None
    BY <1>6 DEF RecordDeleted, IInv, RecordPending
  <2>2. Table!Deregister(c)
    BY <1>6, <2>1 DEF RecordDeleted, Table!Deregister, Table!Request, Name
  <2> QED BY <2>2 DEF Table!TableNext
<1> QED BY <1>1, <1>2, <1>3, <1>4, <1>5, <1>6 DEF Serve

\* The other steps are steps of the table, or none.
LEMMA StepRefines ==
  ASSUME IInv, [Next]_vars
  PROVE  [Table!TableNext]_(Table!tableVars)
<1>1. ASSUME NEW c \in Callers, NEW q \in Requests[c], Invoke(c, q) PROVE Table!TableNext
  BY <1>1 DEF Invoke, runVars, Table!TableNext
<1>2. ASSUME NEW c \in Callers, IsRegistered(c) PROVE Table!TableNext
  <2>1. Table!Look(c)
    BY <1>2 DEF IsRegistered, runVars, Table!Look, Table!Request, Name
  <2> QED BY <2>1 DEF Table!TableNext
<1>3. ASSUME NEW c \in Callers, Return(c) PROVE Table!TableNext
  BY <1>3 DEF Return, runVars, Table!TableNext
<1>4. ASSUME Anew PROVE Table!TableNext
  <2>1. Table!Forget
    BY <1>4, EmptyCount DEF Anew, Table!Forget, Table!Contents
  <2> QED BY <2>1 DEF Table!TableNext
<1>5. ASSUME \/ TakeUpdate \/ Notify
             \/ \E r \in Routes : Tamper(r) \/ Intrude(r)
             \/ UNCHANGED vars
      PROVE  UNCHANGED Table!tableVars
  BY <1>5 DEF TakeUpdate, Notify, Tamper, Intrude, vars, runVars, Table!tableVars
<1> QED BY <1>1, <1>2, <1>3, <1>4, <1>5, RunRefines DEF Next, Record, ReadDuringWrite, StreamEnds

\* The route manager, with its channels, its loop and the map read outside it,
\* implements a table of routes and a bag of watchers, on which every call is atomic.
THEOREM ManagerRefinement == Spec => ImplementsTable
<1>1. Init => Table!TableInit
  BY EmptyCount DEF Init, Table!TableInit, Table!Contents
<1>2. IInv /\ [Next]_vars => [Table!TableNext]_(Table!tableVars)
  BY StepRefines
<1> QED BY <1>1, <1>2, ManagerInductive, PTL DEF Spec, ImplementsTable, Table!TableSpec

-----------------------------------------------------------------------------
(***************************************************************************)
(* No damage goes unnoticed, where no two routes want the same slot        *)
(***************************************************************************)
\* r is where it should be, or Run will hear of its deletion, or end.
Noticed(r) == r \in kernel \/ r \in ToSet(updates) \/ ~subscribed

\* This holds of every managed route whose deletion was not announced, and of
\* the one about to be recorded.
RecordNoticed ==
  \A c \in Callers :
    loop.pc = "record" /\ loop.caller = c /\ Table!Waits(c, "RegisterRoute") => Noticed(Arg(c))

ManagedNoticed == \A x \in Names : managed[x] # None => Noticed(managed[x]) \/ x \in told

\* The elements of a stream that grows at its end and shrinks at its head.
LEMMA StreamSets ==
  ASSUME NEW q \in Seq(Routes)
  PROVE  /\ \A r \in Routes : ToSet(Append(q, r)) = ToSet(q) \union {r}
         /\ q # <<>> => ToSet(q) = ToSet(Tail(q)) \union {Head(q)}
<1>1. ASSUME NEW r \in Routes PROVE ToSet(Append(q, r)) = ToSet(q) \union {r}
  <2>1. /\ Len(q) \in Nat
        /\ DOMAIN q = 1 .. Len(q)
        /\ DOMAIN Append(q, r) = 1 .. Len(q) + 1
        /\ \A i \in 1 .. Len(q) : Append(q, r)[i] = q[i]
        /\ Append(q, r)[Len(q) + 1] = r
    BY <1>1
  <2>2. 1 .. Len(q) + 1 = (1 .. Len(q)) \union {Len(q) + 1}
    BY <2>1
  <2> QED BY <2>1, <2>2 DEF ToSet
<1>2. ASSUME q # <<>> PROVE ToSet(q) = ToSet(Tail(q)) \union {Head(q)}
  <2>1. /\ Len(q) \in Nat \ {0}
        /\ DOMAIN q = 1 .. Len(q)
        /\ DOMAIN Tail(q) = 1 .. Len(q) - 1
        /\ \A i \in 1 .. Len(q) - 1 : Tail(q)[i] = q[i + 1]
        /\ Head(q) = q[1]
    BY <1>2
  <2>2. ASSUME NEW i \in 1 .. Len(q) PROVE q[i] = Head(q) \/ q[i] \in ToSet(Tail(q))
    <3>1. CASE i = 1
      BY <3>1, <2>1
    <3>2. CASE i # 1
      <4>1. i - 1 \in 1 .. Len(q) - 1 /\ (i - 1) + 1 = i
        BY <3>2, <2>1
      <4> QED BY <4>1, <2>1 DEF ToSet
    <3> QED BY <3>1, <3>2
  <2>3. ASSUME NEW i \in 1 .. Len(q) - 1 PROVE Tail(q)[i] \in ToSet(q)
    <3>1. i + 1 \in 1 .. Len(q)
      BY <2>1
    <3> QED BY <3>1, <2>1 DEF ToSet
  <2>4. Head(q) \in ToSet(q)
    BY <2>1 DEF ToSet
  <2>5. ToSet(q) \subseteq ToSet(Tail(q)) \union {Head(q)}
    BY <2>1, <2>2 DEF ToSet
  <2>6. ToSet(Tail(q)) \subseteq ToSet(q)
    BY <2>1, <2>3 DEF ToSet
  <2> QED BY <2>4, <2>5, <2>6
<1> QED BY <1>1, <1>2

\* A deletion is noticed, and so is what was noticed before.
LEMMA DisappearNoticed ==
  ASSUME TypeOK, NEW r \in Routes, Disappear(r), NEW q, Noticed(q)
  PROVE  Noticed(q)'
<1>1. updates' = Append(updates, r) => ToSet(updates') = ToSet(updates) \union {r}
  BY StreamSets DEF TypeOK
<1> QED BY <1>1 DEF Disappear, Noticed, TypeOK

\* What a step keeps when it leaves the table and Run alone, or starts to.
LEMMA NoticedKept ==
  ASSUME ManagedNoticed, RecordNoticed, UNCHANGED managed,
         \A r \in Routes : Noticed(r) => Noticed(r)',
         \A x \in told : x \in told' \/ Noticed(managed[x])',
         managed \in [Names -> Routes \union {None}]
  PROVE  ManagedNoticed'
BY DEF ManagedNoticed

\* Run's own steps.
LEMMA TakeNoticed ==
  ASSUME TypeOK, ManagedNoticed, TakeUpdate
  PROVE  ManagedNoticed'
<1> SUFFICES ASSUME NEW x \in Names, managed[x] # None, ~Noticed(managed[x])'
             PROVE  x \in told'
  BY DEF TakeUpdate, ManagedNoticed
<1>1. ToSet(updates) = ToSet(updates') \union {Head(updates)}
  BY StreamSets DEF TakeUpdate, TypeOK
<1>2. CASE managed[x] = Head(updates)
  BY <1>2 DEF TakeUpdate, Damaged
<1>3. CASE managed[x] # Head(updates)
  <2>1. ~Noticed(managed[x])
    BY <1>1, <1>3 DEF Noticed, TakeUpdate
  <2>2. x \in told
    BY <2>1 DEF ManagedNoticed
  <2> QED BY <2>2 DEF TakeUpdate
<1> QED BY <1>2, <1>3

\* Nothing is unnoticed after a step if nothing was before.
LEMMA NoticedNext ==
  ASSUME \A p, q \in Routes : Slot[p] = Slot[q] => p = q,
         IInv, ManagedNoticed, RecordNoticed, [Next]_vars
  PROVE  ManagedNoticed' /\ RecordNoticed'
<1> USE DEF IInv
<1>1. ASSUME NEW r \in Routes, Tamper(r) PROVE ManagedNoticed' /\ RecordNoticed'
  <2>1. \A q \in Routes : Noticed(q) => Noticed(q)'
    BY <1>1, DisappearNoticed DEF Tamper
  <2>2. ManagedNoticed'
    BY <1>1, <2>1, NoticedKept DEF Tamper, runVars, TypeOK
  <2>3. RecordNoticed'
    BY <1>1, <2>1, CallType DEF Tamper, runVars, RecordNoticed, Arg
  <2> QED BY <2>2, <2>3
<1>2. ASSUME NEW r \in Routes, Intrude(r) PROVE ManagedNoticed' /\ RecordNoticed'
  <2>1. \A q \in Routes : Noticed(q) => Noticed(q)'
    BY <1>2 DEF Intrude, Appear, Noticed
  <2>2. ManagedNoticed'
    BY <1>2, <2>1, NoticedKept DEF Intrude, Appear, Noticed, TypeOK
  <2>3. RecordNoticed'
    BY <1>2, <2>1, CallType DEF Intrude, RecordNoticed, Arg
  <2> QED BY <2>2, <2>3
<1>3. ASSUME NEW c \in Callers, AddRoute(c) PROVE ManagedNoticed' /\ RecordNoticed'
  <2>1. \A q \in Routes : Noticed(q) => Noticed(q)'
    BY <1>3 DEF AddRoute, Appear, Noticed
  <2>2. ManagedNoticed'
    BY <1>3, <2>1, NoticedKept DEF AddRoute, Appear, Noticed, TypeOK
  <2>3. Arg(c) \in kernel'
    BY <1>3, CallType DEF AddRoute, Serves, Appear, Occupied, TypeOK
  <2>4. loop'.caller = c /\ UNCHANGED calls
    BY <1>3 DEF AddRoute, At
  <2> QED BY <2>2, <2>3, <2>4 DEF RecordNoticed, Noticed, Arg
<1>4. ASSUME NEW c \in Callers, DelRoute(c) PROVE ManagedNoticed' /\ RecordNoticed'
  <2>1. managed[Name(c)] \in Routes
    BY <1>4, CallType DEF DelRoute, Serves, TypeOK
  <2>2. \A q \in Routes : Noticed(q) => Noticed(q)'
    BY <1>4, <2>1, DisappearNoticed DEF DelRoute
  <2>3. ManagedNoticed'
    BY <1>4, <2>2, NoticedKept DEF DelRoute, TypeOK
  <2>4. RecordNoticed'
    BY <1>4 DEF DelRoute, Serves, At, RecordNoticed
  <2> QED BY <2>3, <2>4
<1>5. ASSUME NEW c \in Callers, RecordAdded(c) PROVE ManagedNoticed' /\ RecordNoticed'
  <2>1. Noticed(Arg(c)) /\ Name(c) \in Names
    BY <1>5, CallType DEF RecordAdded, RecordNoticed
  <2>2. \A q : Noticed(q) <=> Noticed(q)'
    BY <1>5 DEF RecordAdded, netVars, Noticed
  <2>3. ManagedNoticed'
    BY <1>5, <2>1, <2>2 DEF RecordAdded, ManagedNoticed, TypeOK
  <2> QED BY <1>5, <2>3 DEF RecordAdded, RecordNoticed, Selecting, At
<1>6. ASSUME NEW c \in Callers, RecordDeleted(c) PROVE ManagedNoticed' /\ RecordNoticed'
  <2>1. \A q : Noticed(q) <=> Noticed(q)'
    BY <1>6 DEF RecordDeleted, netVars, Noticed
  <2>2. ManagedNoticed'
    BY <1>6, <2>1, CallType DEF RecordDeleted, ManagedNoticed, TypeOK
  <2> QED BY <1>6, <2>2 DEF RecordDeleted, RecordNoticed, Selecting, At
<1>7. CASE TakeUpdate
  BY <1>7, TakeNoticed DEF TakeUpdate, Selecting, At, RecordNoticed
<1>8. CASE Notify
  <2>1. \A q : Noticed(q) <=> Noticed(q)'
    BY <1>8 DEF Notify, netVars, Noticed
  <2>2. ManagedNoticed'
    BY <1>8, <2>1 DEF Notify, ManagedNoticed
  <2>3. loop'.pc # "record"
    BY <1>8 DEF Notify, Selecting, At, TypeOK, Loops
  <2> QED BY <2>2, <2>3 DEF RecordNoticed
<1>9. ASSUME Anew PROVE ManagedNoticed' /\ RecordNoticed'
  BY <1>9 DEF Anew, ManagedNoticed, RecordNoticed, Selecting, At
<1>10. ASSUME UNCHANGED <<managed, netVars, told>>,
              \/ loop' = Selecting
              \/ loop' = loop /\ \A c \in Callers : calls'[c] # None /\ calls'[c].answer = None
                                   /\ calls'[c].request.op = "RegisterRoute"
                                   => calls'[c] = calls[c] \/ calls[c] = None
       PROVE  ManagedNoticed' /\ RecordNoticed'
  <2>1. \A q : Noticed(q) <=> Noticed(q)'
    BY <1>10 DEF netVars, Noticed
  <2>2. ManagedNoticed'
    BY <1>10, <2>1 DEF ManagedNoticed
  <2>3. RecordNoticed'
    BY <1>10, <2>1 DEF RecordNoticed, RecordPending, Arg, Selecting, At
  <2> QED BY <2>2, <2>3
<1>11. ASSUME NEW c \in Callers,
              AddFails(c) \/ DelNotFound(c) \/ DelFails(c) \/ AddWatcher(c) \/ DropWatcher(c)
       PROVE  ManagedNoticed' /\ RecordNoticed'
  <2>1. UNCHANGED <<managed, netVars, told>> /\ loop' = Selecting
    BY <1>11 DEF AddFails, DelNotFound, DelFails, AddWatcher, DropWatcher, Serves, runVars
  <2> QED BY <2>1, <1>10
<1>12. ASSUME NEW c \in Callers,
              IsRegistered(c) \/ Return(c) \/ \E q \in Requests[c] : Invoke(c, q)
       PROVE  ManagedNoticed' /\ RecordNoticed'
  <2>1. UNCHANGED <<managed, netVars, told, loop>>
    BY <1>12 DEF IsRegistered, Return, Invoke, runVars
  <2>2. \A d \in Callers : calls'[d] # None /\ calls'[d].answer = None
                          => calls'[d] = calls[d] \/ calls[d] = None
    BY <1>12, NoneAssumption DEF IsRegistered, Return, Invoke, Table!Return, Table!Call, TypeOK, InCall
  <2> QED BY <2>1, <2>2, <1>10
<1>13. CASE UNCHANGED vars
  BY <1>13, <1>10 DEF vars, runVars
<1> QED
  BY <1>1, <1>2, <1>3, <1>4, <1>5, <1>6, <1>7, <1>8, <1>9, <1>11, <1>12, <1>13
  DEF Next, Serve, Record, ReadDuringWrite, StreamEnds

\* The deletion of a managed route does not go unnoticed, however it meets the
\* calls of the operator, where no two routes have the same destination and
\* table.
THEOREM AlwaysNoticed ==
  ASSUME \A p, q \in Routes : Slot[p] = Slot[q] => p = q
  PROVE  Spec => []DamageNoticed
<1>1. Init => ManagedNoticed /\ RecordNoticed
  BY DEF Init, ManagedNoticed, RecordNoticed
<1>2. IInv /\ ManagedNoticed /\ RecordNoticed /\ [Next]_vars => ManagedNoticed' /\ RecordNoticed'
  BY NoticedNext
<1>3. IInv /\ ManagedNoticed => DamageNoticed
  BY DEF ManagedNoticed, DamageNoticed, Noticed, Occupied, IInv, TypeOK
<1> QED BY <1>1, <1>2, <1>3, ManagerInductive, PTL DEF Spec

=============================================================================
