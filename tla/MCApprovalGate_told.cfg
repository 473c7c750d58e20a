SPECIFICATION Spec
CONSTANTS
  Requesters <- One
  MaxActions = 2
  t1 = t1
  t2 = t2
INVARIANTS
  ToldIsTrue
