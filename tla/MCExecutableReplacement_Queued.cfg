\* The second update waits for the lease while the first one commits.
SPECIFICATION Spec
CONSTANTS
  Attempt = {1, 2}
  Foreign = {}
  MaxFaults = 0
CHECK_DEADLOCK FALSE
PROPERTIES
  PendingCleanupFirst
