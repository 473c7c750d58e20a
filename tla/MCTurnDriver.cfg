CONSTANTS
  MaxTurns = 2
  MaxFloors = 1
  MaxToolCalls = 2
  HistoryCap = 2
SPECIFICATION Spec
INVARIANTS
  DoorKept
  RepliesToItsOwnTurn
  StopReachesItsOwnTurn
  TranscriptKept
  StopBoundsTools
PROPERTIES
  KeepsContract
