SPECIFICATION Spec
CONSTANTS
  Chains = {c1, c2}
  DrainWaiters = {w1}
  MaxRoots = 2
  MaxLeases = 3
  MaxGeneration = 2
SYMMETRY ChainSymmetry
INVARIANTS
  NoLostWaiter
  RootAccounting
PROPERTIES
  LostLeasesStayLost
  ImplementsGate
CHECK_DEADLOCK FALSE
