\* Two daemons, two commands, one crash.
SPECIFICATION IdentitySpec
CONSTANTS
  Daemon = {d, e}
  Command = {a, b}
  MaxCrashes = 1
  Nobody = Nobody
  Nothing = Nothing
  Partial = Partial
  Unreadable = Unreadable
CHECK_DEADLOCK FALSE
INVARIANTS
  RunningIsNamed
  AbsenceIsAbsence
PROPERTIES
  RequestedStops
