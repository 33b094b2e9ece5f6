SPECIFICATION Spec
CONSTANTS
  N = 3
  MaxTerms = 1
INVARIANTS EvidenceCountsEveryDensity
CHECK_DEADLOCK FALSE
