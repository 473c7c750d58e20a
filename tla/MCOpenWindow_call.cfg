CONSTANTS
  MaxTokens = 1
  MaxCalls = 2
  Pieces <- MCPieces
  MaxPieces = 6
SPECIFICATION StreamSpec
INVARIANTS
  CallEndsPass
CHECK_DEADLOCK FALSE
