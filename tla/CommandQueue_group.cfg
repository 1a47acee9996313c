SPECIFICATION FairSpec
CONSTANTS
  Lanes <- MCLanes
  ScopedLanes <- MCScoped
  CronNested = "cron-nested"
  HookDispatch = "hook-dispatch"
  CronBudget = 2
  HookReservation = 1
  Widths = {1}
  Priorities <- TwoPriorities
  TimeoutChoices = {TRUE}
  Waiters = {w1}
  MaxEntries = 3
  MaxResets = 1
CONSTRAINT OneUrgent
INVARIANTS
  NoStrandedWork
  EntriesAccounted
  GroupWithinBudget
  WaitersServed
PROPERTIES
  ReservationKept
  EventuallyDispatched
CHECK_DEADLOCK FALSE
