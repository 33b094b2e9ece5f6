CONSTANTS
  MaxEdits = 2
  MaxHeld = 5
  Processes = {p1, p2}
  Artifacts <- SomeArtifacts
  Samples <- SomeSamples
  MaxFiles = 2
  MaxDamage = 1
  MaxDepth = 3
  Deepest = 4
  Models <- TwoLatents
  Requests <- SomeRequests
  MaxDraws = 2
  Trainings <- SomeTrainings
  BestLosses = {1, 2}
SPECIFICATION MCSpec
INVARIANTS StaleInputsAreDetected AcceptedRunsAreFiled RestoredIsWhatWasStored
PROPERTIES FingerprintsFollowMeaning
SYMMETRY ProcessSymmetry
CHECK_DEADLOCK FALSE
