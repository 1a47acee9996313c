SPECIFICATION Spec
CONSTANTS
  Timers = {t1}
  Reloads = {r1}
  Forced = {f1}
  Hooks <- OneHook
  External = FALSE
  MaxAuthorized = 1
  None = None
  Direct = Direct
INVARIANT StillUnderWay
CHECK_DEADLOCK FALSE
