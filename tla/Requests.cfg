CONSTANTS
  Names = {p, q}
  MaxTroubles = 1
  MaxCarried = 2
  Replicates = {0, 1, 2, 3}
  Floor = 2
  One = 81
  PriorLatents <- ThreeLatents
  Values <- CentreAndProbes
  Questions <- SomeQuestions
  MaxAsks = 2
  N = 3
  MaxTerms = 2
  Positions = 3
  PlateSize = 2
  MaxDraws = 2
  Coordinate = {0, 1, 2}
  MaxAttempts = 2
  Bands = {1}
  Inquiries <- SomeInquiries
  FitGrid = 2
  PolishSteps = 2
  Fits <- SomeFits
  Changes <- SomeChanges
  Tolerances <- SomeTolerances
SPECIFICATION RequestsSpec
INVARIANTS PassMeansExamined JudgedOverEveryReplicate EvidenceIsOfDensities TaskIsObeyed CertifiedIsEarned EveryDensityOnce ReductionsAreComplete PriorDrawsAreIndependent FindingsAreSo FitsAreOfTheirPoint
