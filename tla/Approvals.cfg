SPECIFICATION LiveSpec
CONSTANTS
  Allowed = {"allow-once", "allow-always"}
  MaxLifetimes = 2
  Invokes = {i1, i2}
  Timeout = 2
  Grace = 1
  MaxTime = 4
  Faults = {"busy", "rot"}
INVARIANTS
  OneAnswer
  HandoffKeepsBinding
  TellsTheAllow
  PublishedOnce
PROPERTIES
  ClosedGrantsNothing
  ImplementsApproval
  RequestAnswered
CHECK_DEADLOCK FALSE
