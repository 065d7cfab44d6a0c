----------------------------- MODULE ApiServer -----------------------------
(***************************************************************************)
(* The Kubernetes API server as the operator uses it: the stored           *)
(* StaticRoute objects, optimistic concurrency on resourceVersion, the     *)
(* status subresource and finalizer-guarded deletion.                      *)
(*                                                                         *)
(* A resourceVersion is only ever compared for equality with the stored    *)
(* one, so the model keeps, per object, the clients whose copy carries the *)
(* stored version: latest[x].  A write leaves there at most its author.    *)
(* This is exact, and needs no version counter.                            *)
(***************************************************************************)
EXTENDS StaticRoute

VARIABLES
  objects,  \* objects[x]: the stored object, or None
  latest    \* latest[x]: the clients that hold the stored version of x

apiVars == <<objects, latest>>

ApiTypeOK(Clients) ==
  /\ objects \in [Names -> Object \union {None}]
  /\ latest \in [Names -> SUBSET Clients]

\* No object, which is what the readers hold.
ApiInit(Readers) ==
  /\ objects = [x \in Names |-> None]
  /\ latest = [x \in Names |-> Readers]

-----------------------------------------------------------------------------
(***************************************************************************)
(* Writes                                                                  *)
(***************************************************************************)

\* Store o as x.  A write that changes nothing keeps the resourceVersion;
\* any other leaves no copy current but the author's, which it keeps if it
\* goes on working on the object.
Store(x, o, author, keep) ==
  /\ objects' = [objects EXCEPT ![x] = o]
  /\ latest' = [latest EXCEPT ![x] =
                  (IF o = objects[x] THEN @ \ {author} ELSE {})
                     \union (IF keep THEN {author} ELSE {})]

\* The client drops its copy without having written.
Drop(x, client) == latest' = [latest EXCEPT ![x] = @ \ {client}]

\* The precondition of any update: the object exists, at the client's version.
Accepts(x, client) == objects[x] # None /\ client \in latest[x]

\* What PUT .../status stores: the status of o, all else as it was.
WithStatus(x, o) == [objects[x] EXCEPT !.status = o.status]

\* What PUT stores: the spec and finalizers of o.  An object whose deletion
\* was asked for disappears with its last finalizer.
WithMeta(x, o) ==
  IF objects[x].deleting /\ ~o.finalizer
  THEN None
  ELSE [objects[x] EXCEPT !.spec = Encoded(o.spec), !.finalizer = o.finalizer]

-----------------------------------------------------------------------------
(***************************************************************************)
(* The cluster administrator                                               *)
(***************************************************************************)
NewObject(s) == [spec      |-> s,
                 finalizer |-> FALSE,
                 deleting  |-> FALSE,
                 status    |-> [n \in Nodes |-> None]]

Overwrite(x, o) ==
  /\ objects' = [objects EXCEPT ![x] = o]
  /\ latest' = [latest EXCEPT ![x] = {}]

Create(x, s) == objects[x] = None /\ Overwrite(x, NewObject(s))

Edit(x, s) ==
  /\ objects[x] # None
  /\ objects[x].spec # s
  /\ Overwrite(x, [objects[x] EXCEPT !.spec = s])

\* Without a finalizer the object goes at once, else the deletion is pending.
Delete(x) ==
  /\ objects[x] # None
  /\ ~objects[x].deleting
  /\ Overwrite(x, IF objects[x].finalizer
                  THEN [objects[x] EXCEPT !.deleting = TRUE]
                  ELSE None)

=============================================================================
