CONSTANTS
  Identities <- MCIdentities
  Ledgers <- MCLedgers
  Rates = {40, 50}
  Batch = 50
  MaxBatches = 3
  MaxBegun = 2
  MaxStored = 1
  MaxCrashes = 1
SPECIFICATION Spec
INVARIANTS
  RowsAgree
PROPERTIES
  NothingTakenBack
  CrossingSound
