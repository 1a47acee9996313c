SPECIFICATION Spec
CONSTANTS
  p1 = p1
  p2 = p2
  Procs = {p1}
  MaxPayloads = 2
  MaxMarks = 3
  MaxClaims = 3
  MaxRetries = 2
  MaxCrashes = 0
  Lease = 1
  Storage = {TRUE}
  Outcomes = {"identity", "silent", "proven"}
  Traits <- SilentTraits
INVARIANT
  NoDuplicate
CHECK_DEADLOCK FALSE
