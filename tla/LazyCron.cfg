SPECIFICATION FairSpec
CONSTANTS
  Calls <- ThreeStarts
  MaxStops = 2
INVARIANTS
  HeldDoesNotTick
  NoSilentDeath
  StopSticks
  ReturnedMeansStarted
  NoStuckBlocker
PROPERTY StartsReturn
CHECK_DEADLOCK FALSE
