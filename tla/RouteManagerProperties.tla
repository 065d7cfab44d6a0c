----------------------- MODULE RouteManagerProperties -----------------------
(***************************************************************************)
(* What the route manager guarantees.                                      *)
(***************************************************************************)
EXTENDS RouteManager

Loops ==
  [pc : {"select"}, caller : {None}, route : {None}, rest : {<<>>}]
    \union [pc : {"record"}, caller : Callers, route : {None}, rest : {<<>>}]
    \union [pc : {"notify", "calling"}, caller : {None}, route : Routes, rest : Seq(Watchers)]

TypeOK ==
  /\ managed \in [Names -> Routes \union {None}]
  /\ calls \in [Callers -> InCall \union {None}]
  /\ kernel \subseteq Routes
  /\ updates \in Seq(Routes)
  /\ subscribed \in BOOLEAN
  /\ watchers \in Seq(Watchers)
  /\ loop \in Loops
  /\ told \subseteq Names

\* Between netlink and the map Run works for a caller that waits, and nobody
\* else touches the name: what the check found is still true.
RecordPending ==
  \A c \in Callers : loop.pc = "record" /\ loop.caller = c =>
    \/ Table!Waits(c, "RegisterRoute") /\ managed[Name(c)] = None
    \/ Table!Waits(c, "DeRegisterRoute") /\ managed[Name(c)] # None

IInv == TypeOK /\ RecordPending

\* The channels, the loop and the map read behind its back come to a table of
\* routes on which every call is atomic, whoever else calls for the same name
\* meanwhile: no call is answered for a table that never was, and no name is
\* registered twice.  The list of watchers comes to a bag: where one is registered
\* twice, or two are reflect.DeepEqual, one call takes out one of them.
ImplementsTable == Table!TableSpec

\* The route of a registered name does not go unnoticed from the kernel,
\* whatever Run was doing: its deletion was announced, is about to be, or the
\* subscription broke, which ends the process.  This includes a route that is
\* deleted between its addition and its entry in managedRoutes.
DamageNoticed ==
  \A x \in Names :
    managed[x] # None /\ ~Occupied(managed[x])
      => managed[x] \in ToSet(updates) \/ x \in told \/ ~subscribed

\* Every call returns, whatever else is called, deleted or announced.  The one
\* thing that keeps them waiting, for ever, is a watcher that calls the manager:
\* Run calls it, and waits for itself.
CallsReturn == \A c \in Callers : (calls[c] # None) ~> (calls[c] = None \/ loop.pc = "calling")

=============================================================================
