SPECIFICATION FairSpec
CONSTANTS
  a = a
  b = b
  c = c
  Targets = {a, b, c}
  Global = Global
  MaxActive = 2
  Coalesce = 1
  Window = 1
  Retry = 1
  Grace = 1
  MaxGenerations = 3
  MaxRequests = 3
  Offers <- SomeOffers
INVARIANTS
  TurnsExclusive
  DealtWithOnce
  NoLateTimer
PROPERTIES
  EventuallySettled
  BarrierRespected
CHECK_DEADLOCK FALSE
