----------------------------- MODULE RouteTable -----------------------------
(***************************************************************************)
(* What pkg/routemanager promises the goroutines that call it: a table of  *)
(* routes by name, and a bag of watchers, in which watchers with the same  *)
(* content are one and the same.  A call takes effect, or fails, in one    *)
(* step between the moment it is made and the moment it returns.           *)
(***************************************************************************)
EXTENDS Naturals

CONSTANTS
  Callers,  \* goroutines
  Names,    \* names of routes
  Routes,   \* routes
  None,     \* no route, no call, no answer
  Requests, \* Requests[c]: the calls c makes, each with op, name and arg
  Watchers, \* values of type RouteWatcher
  Content   \* Content[v]: what reflect.DeepEqual compares of watcher v

VARIABLES
  managed,  \* managed[x]: the route registered as x, or None
  calls,    \* calls[c]: the call c is in, with its answer, or None
  watched   \* watched[k]: how many watchers of content k are registered

tableVars == <<managed, calls, watched>>

Ops == {"RegisterRoute", "DeRegisterRoute", "IsRegistered", "RegisterWatcher", "DeRegisterWatcher"}

Contents == {Content[v] : v \in Watchers}

Answers == {"done", "failed", "notFound", "yes", "no"}

TableInit ==
  /\ managed = [x \in Names |-> None]
  /\ calls = [c \in Callers |-> None]
  /\ watched = [k \in Contents |-> 0]

\* c makes a call, waits for its answer, is answered, returns.
Call(c, q) == calls[c] = None /\ calls' = [calls EXCEPT ![c] = [request |-> q, answer |-> None]]

Waits(c, op) == calls[c] # None /\ calls[c].answer = None /\ calls[c].request.op = op

Answer(c, a) == calls' = [calls EXCEPT ![c].answer = a]

Return(c) ==
  /\ calls[c] # None
  /\ calls[c].answer # None
  /\ calls' = [calls EXCEPT ![c] = None]

Request(c) == calls[c].request

\* A name is registered once.
Register(c) ==
  /\ Waits(c, "RegisterRoute")
  /\ managed[Request(c).name] = None
  /\ managed' = [managed EXCEPT ![Request(c).name] = Request(c).arg]
  /\ Answer(c, "done")
  /\ UNCHANGED watched

Deregister(c) ==
  /\ Waits(c, "DeRegisterRoute")
  /\ managed[Request(c).name] # None
  /\ managed' = [managed EXCEPT ![Request(c).name] = None]
  /\ Answer(c, "done")
  /\ UNCHANGED watched

\* The name is taken or unknown, or the kernel does not do it.
Refuse(c) ==
  /\ \/ Waits(c, "RegisterRoute") /\ Answer(c, "failed")
     \/ Waits(c, "DeRegisterRoute") /\ managed[Request(c).name] = None /\ Answer(c, "notFound")
     \/ Waits(c, "DeRegisterRoute") /\ managed[Request(c).name] # None /\ Answer(c, "failed")
  /\ UNCHANGED <<managed, watched>>

Look(c) ==
  /\ Waits(c, "IsRegistered")
  /\ Answer(c, IF managed[Request(c).name] = None THEN "no" ELSE "yes")
  /\ UNCHANGED <<managed, watched>>

Watch(c) ==
  /\ Waits(c, "RegisterWatcher")
  /\ watched' = [watched EXCEPT ![Content[Request(c).arg]] = @ + 1]
  /\ Answer(c, "done")
  /\ UNCHANGED managed

\* One watcher of that content goes, if there is one.
Unwatch(c) ==
  /\ Waits(c, "DeRegisterWatcher")
  /\ watched' = [watched EXCEPT ![Content[Request(c).arg]] = IF @ = 0 THEN 0 ELSE @ - 1]
  /\ Answer(c, "done")
  /\ UNCHANGED managed

\* The process dies: the table, the calls and the watchers are gone.
Forget ==
  /\ managed' = [x \in Names |-> None]
  /\ calls' = [c \in Callers |-> None]
  /\ watched' = [k \in Contents |-> 0]

TableNext ==
  \/ \E c \in Callers :
       \/ \E q \in Requests[c] : Call(c, q) /\ UNCHANGED <<managed, watched>>
       \/ Return(c) /\ UNCHANGED <<managed, watched>>
       \/ Register(c) \/ Deregister(c) \/ Refuse(c) \/ Look(c) \/ Watch(c) \/ Unwatch(c)
  \/ Forget

TableSpec == TableInit /\ [][TableNext]_tableVars

=============================================================================
