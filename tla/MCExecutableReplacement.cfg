\* Two updates, two outside writers, two faults, on both platforms.
SPECIFICATION Spec
CONSTANTS
  Attempt = {1, 2}
  Foreign = {1, 2}
  MaxFaults = 2
CHECK_DEADLOCK FALSE
INVARIANTS
  UndecidedIsRecoverable
  RestoredIsTrue
PROPERTIES
  NothingLost
  CleanupFinishes
