CONSTANTS
  Lines = {"harmony", "integrity"}
  Places <- MCPlaces
  Drafted <- MCDrafted
  Regions = 3
  LatestSeason = "summer"
  MaxMemories = 4
  Grain = 16
  Drawn <- MCDrawn
  Epsilon = 2
  Nudge = 1
  Ample <- MCAmple
  Scant <- MCScant
  Hair = 2
SPECIFICATION GeometrySpec
INVARIANTS
  FrameHonest
  EndsInside
  EndsAtNearest
PROPERTIES
  HomesHoldMemories
  DiscoveryEnds
CHECK_DEADLOCK FALSE
