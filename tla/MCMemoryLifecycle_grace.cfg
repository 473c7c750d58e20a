CONSTANTS
  Items = {m1}
  Geometries = {4, 8, 10}
  Days = {0, 2}
  Forms = {"sql"}
  Existing <- MCExisting
  ScoreBound = 1050
SPECIFICATION Spec
PROPERTIES
  GraceKept
CHECK_DEADLOCK FALSE
