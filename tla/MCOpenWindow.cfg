CONSTANTS
  MaxTokens = 6
  MaxCalls = 2
  Pieces <- MCPieces
  MaxPieces = 6
SPECIFICATION StreamSpec
INVARIANTS
  LiveAsWhole
  ChannelsApart
  SortedHoweverCut
CHECK_DEADLOCK FALSE
