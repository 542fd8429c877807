\* One process refreshes while the other, and Codex, move live.
SPECIFICATION Spec
CONSTANTS
  Alias = {1, 2}
  Account = {x, y}
  Proc = {p, q}
  NoAlias = NoAlias
  NoCred = NoCred
  Nobody = Nobody
  Requests <- Moving
  MaxOps = 3
  MaxIssued = 3
  MaxCodexMoves = 1
  MaxCrashes = 1
SYMMETRY Symmetry
PROPERTIES
  RegistrySpec
  UsableKept
  OnlyOwnLive
  SavedLeavesNoSpentLive
  SwitchIsAgreed
