SPECIFICATION Spec
CONSTANTS
  p1 = p1
  p2 = p2
  Procs = {p1, p2}
  MaxPayloads = 2
  MaxMarks = 3
  MaxClaims = 3
  MaxRetries = 2
  MaxCrashes = 1
  Lease = 1
  Storage = {TRUE, FALSE}
  Outcomes = {"identity", "silent", "abort", "unproven", "proven", "rejected"}
  Traits <- SafetyTraits
SYMMETRY Symmetry
INVARIANTS
  NoDuplicate
  EvidenceKept
PROPERTIES
  LeaseRespected
  DroppedMeansUnsent
CHECK_DEADLOCK FALSE
