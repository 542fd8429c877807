SPECIFICATION Spec
CONSTANTS
  Executable = {e1, e2}
  MaxCommands = 2
  MaxFaults = 2
SYMMETRY Symmetry
INVARIANTS
  NoOrphanService
PROPERTIES
  OutcomeIsTrue
  DefinitionsKept
CHECK_DEADLOCK FALSE
