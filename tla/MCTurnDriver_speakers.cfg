CONSTANTS
  MaxTurns = 1
  MaxFloors = 1
  MaxToolCalls = 1
  HistoryCap = 2
SPECIFICATION Spec
INVARIANT OneSpeaker
