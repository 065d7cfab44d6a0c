SPECIFICATION FairSpec
CONSTANTS
  v4 = v4
  v6 = v6
  None = None
  Garbage = Garbage
  Top = 15
  Networks <- Blocks
  IPv4 = {v4}
  IPv6 = {v6}
  Environments <- MCEnvironments
  Mishaps = 2
INVARIANTS StartupIInv Configured VerdictRight
PROPERTIES WalksOn Decides ComesUp
CHECK_DEADLOCK FALSE
