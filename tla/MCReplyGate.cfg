CONSTANTS
  Lines = {"harmony"}
  Past <- MCPast
  Drafts <- MCDrafts
  Messages <- MCMessages
  Misread <- MCMisread
  LastSeason = "summer"
  MaxTurns = 2
  MaxFlags = 1
  HistoryLimit = 3
  DriftWindow = 3
SPECIFICATION Spec
INVARIANTS
  SpokenIsWeighed
  Accounted
  BaselineHolds
CHECK_DEADLOCK FALSE
