CONSTANTS
  Prime = 211
  Heights = {0, 1, 3}
  Grid = 4
  MaxNewton = 4
  Ceiling = 20
SPECIFICATION DiagnosisSpec
INVARIANTS RestIsLogJoint
CHECK_DEADLOCK FALSE
