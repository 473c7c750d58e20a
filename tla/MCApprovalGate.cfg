SPECIFICATION FairSpec
CONSTANTS
  Requesters <- One
  MaxActions = 3
  t1 = t1
  t2 = t2
INVARIANTS
  WaitingIsAnswerable
  NoOrphanCard
  OneApprovalOneAction
PROPERTIES
  EveryRequestEnds
