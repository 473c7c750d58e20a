CONSTANTS
  MaxTokens = 4
  MaxCalls = 2
  Pieces <- MCPieces
  MaxPieces = 1
SPECIFICATION StreamSpec
INVARIANTS
  ThoughtsPrivate
CHECK_DEADLOCK FALSE
