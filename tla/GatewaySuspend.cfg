SPECIFICATION FairSpec
CONSTANTS
  Chains = {c1}
  DrainWaiters = {}
  MaxRoots = 2
  MaxLeases = 2
  MaxGeneration = 4
  Requests <- TwoHosts
  MaxRenewals = 1
INVARIANTS
  HeldMeansOwned
  ReadyMeansIdle
PROPERTIES
  ImplementsSuspension
  EventuallyReopened
CHECK_DEADLOCK FALSE
