CONSTANTS
  Positions = 3
  PlateSize = 2
  MaxDraws = 2
SPECIFICATION PredictiveSpec
INVARIANTS ReplicatesAreIndependent
CHECK_DEADLOCK FALSE
