SPECIFICATION Spec
CONSTANTS
  Alias = {work, home}
  Watched = {work}
  Level = {"unattended", "forced"}
  MaxRequests = 2
  MaxAsks = 2
  MaxRotations = 1
  MaxSwitches = 1
  MaxEvents = 1
  MaxTotal = 3
  Free = Free
  Other = Other
INVARIANTS
  ExitLeavesNoWorker
  ShownIsOwn
PROPERTIES
  SpendsUnderItsLease
  ShownGoesForward
  ExitEnds
  RequestsSettle
  TargetIntentKept
