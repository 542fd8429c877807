\* Nothing fails, nobody interferes; the daemon is slower than the client is patient.
SPECIFICATION Spec
CONSTANTS
  MaxGen = 4
  MaxForeign = 0
  MaxFaults = 0
  Impatient = TRUE
CHECK_DEADLOCK FALSE
PROPERTIES
  StoppedIsRestarted
