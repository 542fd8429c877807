\* Profiles are created, renamed, switched and deleted from both ends.
SPECIFICATION FairSpec
CONSTANTS
  Alias = {1, 2}
  Account = {x, y}
  Proc = {p, q}
  NoAlias = NoAlias
  NoCred = NoCred
  Nobody = Nobody
  Requests <- Meeting
  MaxOps = 2
  MaxIssued = 2
  MaxCodexMoves = 1
  MaxCrashes = 0
INVARIANTS
  OneProfilePerAccount
PROPERTIES
  EveryOperationReturns
