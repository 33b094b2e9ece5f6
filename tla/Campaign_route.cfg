CONSTANTS
  Latents <- TwoLatents
  Observed = {"d"}
  Plates <- TwoPlates
  Epochs = 2
  MaxTroubles = 1
  ChainSizes = {1}
  ThetaWidths = {1}
  ZetaWidths = {1}
  AtPoints = 2
  Scales = 2
  Leaves = 2
  DataNodes <- TwoNodes
  LogSamples = {1, 2}
  Numbers <- Modulo5
  Nought = 0
  Unit = 1
  Literal = 2
  FPlus <- PlusM
  FMinus <- MinusM
  FTimes <- TimesM
  FOver <- OverM
  Exponential <- ExponentialM
  Larger <- LargerM
  Narrowed <- Even
  Custom <- SquareM
  Off = 5
  Strides = {1}
  MaxEquations = 2
  Prime = 211
  Heights = {0, 1, 3}
  Grid = 4
  MaxNewton = 4
  Ceiling = 20
  Nights <- SomeNights
  MaxNights = 2
  AuditPriors <- SomePriors
  Floors <- SomeFloors
  Tables <- SomeTables
  Probes = 2
SPECIFICATION CampaignSpec
INVARIANTS OfferedIsTaken
