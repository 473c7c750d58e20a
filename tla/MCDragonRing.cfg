SPECIFICATION FairSpec
CONSTANTS
  t1 = t1
  t2 = t2
  Threads <- TwoThreads
  Size = 7
  Prefix = 2
  FrameMax = 2
  MaxPushes = 4
  MaxEnds = 1
PROPERTIES
  IsFrameQueue
  PublishedIsPopped
