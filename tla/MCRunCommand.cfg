CONSTANTS
  Calls <- MCCalls
  Tools <- MCTools
  Shell = shell
  Jobs = {job}
  PipeSize = 2
  MaxWrites = 4
SPECIFICATION EndingSpec
INVARIANTS
  ResultTrue
  CallHonoured
PROPERTIES
  Returns
CHECK_DEADLOCK FALSE
