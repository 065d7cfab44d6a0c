SPECIFICATION Spec
CONSTANTS
  n1 = n1
  n2 = n2
  net = net
  odd = odd
  guard = guard
  near = near
  far = far
  bad = bad
  main = main
  side = side
  None = None
  ZeroGw = ZeroGw
  NilGw = NilGw
  EmptyList = EmptyList
  BadSelectors = BadSelectors
  Nodes = {n1, n2}
  Names = {x1}
  Subnets <- MCSubnets
  Unparsable = {odd}
  Protected = {guard}
  Gateways <- MCGateways
  Malformed = {bad}
  Direct <- BothNear
  Tables = {main, side}
  DefaultTable = main
  Labels <- RedOnly
  Controllers = {"route"}
  FallbackGw <- NearFallback
  Specs <- Edits
  Limit <- Lifecycle
SYMMETRY NodeSymmetry
INVARIANTS IInv HealthyHeld OnlyAdmittedRoutes
PROPERTIES OwnEntryOnly DeletionWaits ImplementsProtocol
CHECK_DEADLOCK FALSE
