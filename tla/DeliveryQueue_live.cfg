SPECIFICATION LiveSpec
CONSTANTS
  p1 = p1
  p2 = p2
  Procs = {p1}
  MaxPayloads = 1
  MaxMarks = 2
  MaxClaims = 6
  MaxRetries = 2
  MaxCrashes = 2
  Lease = 1
  Storage = {TRUE}
  Outcomes = {"identity", "silent", "abort", "unproven", "proven", "rejected"}
  Traits <- LiveTraits
PROPERTIES
  DecidedUnlessStranded
CHECK_DEADLOCK FALSE
