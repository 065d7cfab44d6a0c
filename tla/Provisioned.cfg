SPECIFICATION FairSpec
CONSTANTS
  n1 = n1
  n2 = n2
  net = net
  odd = odd
  guard = guard
  near = near
  far = far
  bad = bad
  main = main
  side = side
  None = None
  ZeroGw = ZeroGw
  NilGw = NilGw
  EmptyList = EmptyList
  BadSelectors = BadSelectors
  Nodes = {n1}
  Names = {x1}
  Subnets <- MCSubnets
  Unparsable = {odd}
  Protected = {guard}
  Gateways <- MCGateways
  Malformed = {bad}
  Direct <- OneNear
  Tables = {main, side}
  DefaultTable = main
  Labels <- RedBlue
  Controllers = {"route", "label"}
  FallbackGw <- NoFallback
  Specs <- Assorted
  Limit <- Disturbed
INVARIANTS RestsWhenDone
PROPERTIES Provisioned
CHECK_DEADLOCK FALSE
