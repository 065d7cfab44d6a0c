---------------------------- MODULE RouteManager ----------------------------
(***************************************************************************)
(* pkg/routemanager/routemanager.go: the goroutine of Run, the goroutines  *)
(* that call the manager over unbuffered channels, the kernel with its     *)
(* stream of route deletions, and everybody else who changes routes.       *)
(*                                                                         *)
(* Run serves one case of its select at a time.  A registration is two     *)
(* steps, the netlink call and the write to the map with the reply,        *)
(* because the map is read by IsRegistered in the caller's own goroutine   *)
(* and the kernel is changed by others meanwhile.  Updates other than      *)
(* RTM_DELROUTE are ignored by the code and not modelled.                  *)
(***************************************************************************)
EXTENDS Naturals, FiniteSets, Sequences, SequencesExt

CONSTANTS
  Callers, Names, Routes, None, Requests,
  Slot,         \* Slot[r]: destination and table of r, taken once in a kernel
  Watchers,     \* values of type RouteWatcher
  Content,      \* Content[v]: what reflect.DeepEqual compares of watcher v
  Reentrant,    \* watchers whose RouteDeleted calls the manager itself
  Backlog,      \* deletions the netlink socket holds
  MaxWatchers   \* bound on how many are registered when a call is made

VARIABLES
  managed, calls,  \* as in RouteTable: managedRoutes, and who is in a call
  kernel,      \* the static routes in the kernel
  updates,     \* route deletions on their way to updateChan, oldest first
  subscribed,  \* the subscription is intact; else updateChan gets closed
  watchers,    \* the registered watchers
  loop,        \* where Run is
  told         \* names whose route was announced as deleted

\* Where the watchers of content k are in the list s.
Positions(s, k) == {i \in DOMAIN s : Content[s[i]] = k}

Table == INSTANCE RouteTable WITH
  watched <- [k \in {Content[v] : v \in Watchers} |-> Cardinality(Positions(watchers, k))]

Requested == UNION {Requests[c] : c \in Callers}

\* A goroutine in a call of the manager.
InCall == [request : Requested, answer : Table!Answers \union {None}]

ASSUME RequestAssumption ==
  \A q \in Requested :
    /\ q.op \in {"RegisterRoute", "DeRegisterRoute", "IsRegistered"} => q.name \in Names
    /\ q.op = "RegisterRoute" => q.arg \in Routes
    /\ q.op \in {"RegisterWatcher", "DeRegisterWatcher"} => q.arg \in Watchers

ASSUME BoundAssumption == Backlog \in Nat /\ MaxWatchers \in Nat

ASSUME NoneAssumption == None \notin Routes \union Table!Answers \union InCall

netVars == <<kernel, updates, subscribed>>
runVars == <<watchers, loop, told>>
vars == <<managed, calls, netVars, runVars>>

At(pc, c, r, rest) == [pc |-> pc, caller |-> c, route |-> r, rest |-> rest]

\* Run waits in its select.
Selecting == At("select", None, None, <<>>)

Init ==
  /\ managed = [x \in Names |-> None]
  /\ calls = [c \in Callers |-> None]
  /\ kernel = {}
  /\ updates = <<>>
  /\ subscribed = TRUE
  /\ watchers = <<>>
  /\ loop = Selecting
  /\ told = {}

Name(c) == calls[c].request.name
Arg(c) == calls[c].request.arg

-----------------------------------------------------------------------------
(***************************************************************************)
(* The kernel                                                              *)
(***************************************************************************)
\* A route with the destination and table of r is there.
Occupied(r) == \E k \in kernel : Slot[k] = Slot[r]

\* r appears: what was said of it before is outdated.
Appear(r) == kernel' = kernel \union {r} /\ told' = {x \in told : managed[x] # r}

\* r disappears.  The subscription hears of it, or breaks with its socket full.
Disappear(r) ==
  /\ kernel' = kernel \ {r}
  /\ IF r \notin kernel \/ ~subscribed THEN UNCHANGED <<updates, subscribed>>
     ELSE IF Len(updates) < Backlog THEN updates' = Append(updates, r) /\ UNCHANGED subscribed
     ELSE subscribed' = FALSE /\ UNCHANGED updates

\* Somebody else removes or adds a route.
Tamper(r) ==
  /\ r \in kernel
  /\ Disappear(r)
  /\ UNCHANGED <<managed, calls, runVars>>

Intrude(r) ==
  /\ ~Occupied(r)
  /\ Appear(r)
  /\ UNCHANGED <<managed, calls, updates, subscribed, watchers, loop>>

-----------------------------------------------------------------------------
(***************************************************************************)
(* registerRoute and deRegisterRoute                                       *)
(***************************************************************************)
Serves(c, op) == loop = Selecting /\ Table!Waits(c, op)

\* Mutant of NameTaken: the check is left to the caller, who asked IsRegistered.
NeverTaken(x) == FALSE

NameTaken(x) == managed[x] # None

\* nlRouteAddFunc; EEXIST is as good as success.
AddRoute(c) ==
  /\ Serves(c, "RegisterRoute")
  /\ ~NameTaken(Name(c))
  /\ IF Occupied(Arg(c)) THEN UNCHANGED <<kernel, told>> ELSE Appear(Arg(c))
  /\ loop' = At("record", c, None, <<>>)
  /\ UNCHANGED <<managed, calls, updates, subscribed, watchers>>

\* Mutant of AddFails: no return after the error is sent, so that Run goes on
\* to send a second answer, which nobody waits for.
AddFailsTwice(c) ==
  /\ Serves(c, "RegisterRoute")
  /\ Table!Answer(c, "failed")
  /\ loop' = At("record", None, None, <<>>)
  /\ UNCHANGED <<managed, netVars, watchers, told>>

\* The name is taken, or netlink fails otherwise.
AddFails(c) ==
  /\ Serves(c, "RegisterRoute")
  /\ Table!Answer(c, "failed")
  /\ UNCHANGED <<managed, netVars, runVars>>

RecordAdded(c) ==
  /\ loop.pc = "record"
  /\ loop.caller = c
  /\ Table!Waits(c, "RegisterRoute")
  /\ managed' = [managed EXCEPT ![Name(c)] = Arg(c)]
  /\ Table!Answer(c, "done")
  /\ told' = told \ {Name(c)}
  /\ loop' = Selecting
  /\ UNCHANGED <<netVars, watchers>>

\* ErrNotFound
DelNotFound(c) ==
  /\ Serves(c, "DeRegisterRoute")
  /\ managed[Name(c)] = None
  /\ Table!Answer(c, "notFound")
  /\ UNCHANGED <<managed, netVars, runVars>>

\* nlRouteDelFunc; ESRCH is as good as success.
DelRoute(c) ==
  /\ Serves(c, "DeRegisterRoute")
  /\ managed[Name(c)] # None
  /\ Disappear(managed[Name(c)])
  /\ loop' = At("record", c, None, <<>>)
  /\ UNCHANGED <<managed, calls, watchers, told>>

DelFails(c) ==
  /\ Serves(c, "DeRegisterRoute")
  /\ managed[Name(c)] # None
  /\ Table!Answer(c, "failed")
  /\ UNCHANGED <<managed, netVars, runVars>>

RecordDeleted(c) ==
  /\ loop.pc = "record"
  /\ loop.caller = c
  /\ Table!Waits(c, "DeRegisterRoute")
  /\ managed' = [managed EXCEPT ![Name(c)] = None]
  /\ Table!Answer(c, "done")
  /\ loop' = Selecting
  /\ UNCHANGED <<netVars, watchers, told>>

-----------------------------------------------------------------------------
(***************************************************************************)
(* Watchers                                                                *)
(***************************************************************************)
AddWatcher(c) ==
  /\ Serves(c, "RegisterWatcher")
  /\ watchers' = Append(watchers, Arg(c))
  /\ Table!Answer(c, "done")
  /\ UNCHANGED <<managed, netVars, loop, told>>

\* Mutant of DropWatcher: the loop goes on after the first one.
DropWatchers(c) ==
  /\ Serves(c, "DeRegisterWatcher")
  /\ watchers' = SelectSeq(watchers, LAMBDA v : Content[v] # Content[Arg(c)])
  /\ Table!Answer(c, "done")
  /\ UNCHANGED <<managed, netVars, loop, told>>

\* The first watcher that is reflect.DeepEqual to v.
First(v, i) ==
  /\ Content[watchers[i]] = Content[v]
  /\ \A j \in 1 .. i - 1 : Content[watchers[j]] # Content[v]

DropWatcher(c) ==
  /\ Serves(c, "DeRegisterWatcher")
  /\ \/ \E i \in DOMAIN watchers : First(Arg(c), i) /\ watchers' = RemoveAt(watchers, i)
     \/ (\A i \in DOMAIN watchers : Content[watchers[i]] # Content[Arg(c)]) /\ UNCHANGED watchers
  /\ Table!Answer(c, "done")
  /\ UNCHANGED <<managed, netVars, loop, told>>

\* Mutant of Damaged: the loop is left after its first route.
FirstDamaged(r) == {x \in Names : managed[x] = r /\ \A y \in Names \ {x} : managed[y] = None}

Damaged(r) == {x \in Names : managed[x] = r}

\* notifyWatchers: a deletion nobody manages is dropped.
TakeUpdate ==
  /\ loop = Selecting
  /\ updates # <<>>
  /\ updates' = Tail(updates)
  /\ loop' = IF Damaged(Head(updates)) = {} THEN Selecting
             ELSE At("notify", None, Head(updates), watchers)
  /\ told' = told \union Damaged(Head(updates))
  /\ UNCHANGED <<managed, calls, kernel, subscribed, watchers>>

\* RouteDeleted returns at once, or calls the manager and waits for Run, that
\* is, for itself.
Notify ==
  /\ loop.pc = "notify"
  /\ loop' = IF loop.rest = <<>> THEN Selecting
             ELSE IF Head(loop.rest) \in Reentrant THEN [loop EXCEPT !.pc = "calling"]
             ELSE [loop EXCEPT !.rest = Tail(@)]
  /\ UNCHANGED <<managed, calls, netVars, watchers, told>>

-----------------------------------------------------------------------------
(***************************************************************************)
(* The callers, and the end of the process                                 *)
(***************************************************************************)
\* c makes a call.  The list of watchers is kept bounded.
Invoke(c, q) ==
  /\ q.op = "RegisterWatcher" => Len(watchers) < MaxWatchers
  /\ Table!Call(c, q)
  /\ UNCHANGED <<managed, netVars, runVars>>

Return(c) ==
  /\ Table!Return(c)
  /\ UNCHANGED <<managed, netVars, runVars>>

\* IsRegistered reads the map in the goroutine of its caller.
IsRegistered(c) ==
  /\ Table!Waits(c, "IsRegistered")
  /\ Table!Answer(c, IF managed[Name(c)] = None THEN "no" ELSE "yes")
  /\ UNCHANGED <<managed, netVars, runVars>>

\* The process starts anew, over the same kernel.
Anew ==
  /\ managed' = [x \in Names |-> None]
  /\ calls' = [c \in Callers |-> None]
  /\ updates' = <<>>
  /\ subscribed' = TRUE
  /\ watchers' = <<>>
  /\ loop' = Selecting
  /\ told' = {}
  /\ UNCHANGED kernel

\* While Run writes the map, that read ends the process ("concurrent map read
\* and map write").
ReadDuringWrite(c) == Table!Waits(c, "IsRegistered") /\ loop.pc = "record" /\ Anew

\* updateChan is closed: Run returns, and main panics.
StreamEnds == ~subscribed /\ loop = Selecting /\ Anew

Serve(c) ==
  \/ AddRoute(c) \/ AddFails(c)
  \/ DelNotFound(c) \/ DelRoute(c) \/ DelFails(c)
  \/ AddWatcher(c) \/ DropWatcher(c)

Record == \E c \in Callers : RecordAdded(c) \/ RecordDeleted(c)

Next ==
  \/ \E c \in Callers :
       \/ \E q \in Requests[c] : Invoke(c, q)
       \/ Serve(c) \/ IsRegistered(c) \/ ReadDuringWrite(c) \/ Return(c)
  \/ Record
  \/ TakeUpdate \/ Notify \/ StreamEnds
  \/ \E r \in Routes : Tamper(r) \/ Intrude(r)

Spec == Init /\ [][Next]_vars

\* Run and the callers keep running, and select picks at random among the
\* channels that are ready, so it passes over none of them forever.
FairSpec ==
  /\ Spec
  /\ WF_vars(Record) /\ WF_vars(Notify) /\ SF_vars(TakeUpdate) /\ SF_vars(StreamEnds)
  /\ \A c \in Callers : SF_vars(Serve(c)) /\ WF_vars(IsRegistered(c)) /\ WF_vars(Return(c))

=============================================================================
