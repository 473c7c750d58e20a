CONSTANTS
  Items = {m1}
  Geometries = {4, 8, 10}
  Days = {0, 800}
  Forms = {"sql"}
  Existing <- MCExisting
  ScoreBound = 1050
SPECIFICATION Spec
INVARIANTS
  SlopeForgets
CHECK_DEADLOCK FALSE
