\* Two operations on one profile, with sign-ins, deletions, deaths and
\* refreshes that honour no lease.
SPECIFICATION FairSpec
CONSTANTS
  Account = {x, y}
  Task = {p, q}
  Casts <- Pairing
  Extra = {m}
  NoCred = NoCred
  Nobody = Nobody
  MaxRetries = 2
  MaxIssued = 3
  MaxMoves = 2
  MaxAgings = 1
INVARIANTS
  RefusalsHold
  LossIsReported
  PostsAreGuarded
PROPERTIES
  EveryOperationEnds
