\* Every operation on the usage of one profile, by two processes.
SPECIFICATION Spec
CONSTANTS
  Alias = {1, 2}
  Account = {first, second}
  Proc = {p, q}
  Stamp = {0, 1, 2, 3, 4, 5, 6, 7, 8, 9, 10}
  first = first
  second = second
  p = p
  q = q
  None = None
  NotRead = NotRead
  Nobody = Nobody
  Requests <- Operations
  MaxOps = 4
  MaxUsed = 1
  MaxRetries = 3
SYMMETRY Symmetry
INVARIANTS
  RedeemedNeverReturns
  EntryNamesItsOwner
PROPERTIES
  NotConsumedIsTrue
