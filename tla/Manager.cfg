SPECIFICATION FairSpec
CONSTANTS
  c1 = c1
  c2 = c2
  x = x
  y = y
  r = r
  u = u
  v = v
  None = None
  Callers = {c1, c2}
  Names = {x, y}
  Routes = {r}
  Watchers = {u, v}
  Requests <- TwoWorkers
  Slot <- Apart
  Content <- Alike
  Reentrant = {u}
  Backlog = 1
  MaxWatchers = 2
INVARIANTS IInv DamageNoticed
PROPERTIES ImplementsTable CallsReturn
