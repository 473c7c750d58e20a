SPECIFICATION FairSpec
CONSTANTS
  turn = turn
  window = window
  ui = ui
  Workers <- TwoWorkers
  Owner = ui
  Capacity = 2
  MaxEntries = 4
INVARIANTS
  NothingVanishes
  LedgerInOrder
  NoSinkNoCall
PROPERTIES
  EntriesSettle
  CloseEnds
