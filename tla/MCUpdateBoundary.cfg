\* An initial daemon or none, one foreground start, two restarts, two faults.
SPECIFICATION Spec
CONSTANTS
  MaxGen = 4
  MaxForeign = 1
  MaxFaults = 2
  Impatient = TRUE
CHECK_DEADLOCK FALSE
INVARIANTS
  CommandsFit
  ReportIsTrue
PROPERTIES
  ExecutableIsGuarded
  DaemonComesBack
  EveryUpdateEnds
