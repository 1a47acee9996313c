SPECIFICATION Spec
CONSTANTS
  Timers = {t1}
  Reloads = {r1}
  Forced = {f1}
  Hooks <- TwoHooks
  External = TRUE
  MaxAuthorized = 1
  None = None
  Direct = Direct
INVARIANTS
  FenceHasReason
  SentinelSettled
  UnderWayUnlessGivenUp
CHECK_DEADLOCK FALSE
