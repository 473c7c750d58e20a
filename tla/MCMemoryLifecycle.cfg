CONSTANTS
  Items = {m1, m2}
  Geometries = {10}
  Days = {0, 200, 800}
  Forms = {"sql", "iso"}
  Existing <- MCExisting
  ScoreBound = 1050
SYMMETRY MCSymmetry
SPECIFICATION Spec
INVARIANTS
  OneStepASweep
PROPERTIES
  LossAccounted
  StandingKept
CHECK_DEADLOCK FALSE
