CONSTANTS
  Calls <- MCCalls
  Tools <- MCTools
  Shell = shell
  Jobs = {job}
  PipeSize = 2
  MaxWrites = 4
SPECIFICATION Spec
PROPERTIES
  TimeoutBounds
CHECK_DEADLOCK FALSE
