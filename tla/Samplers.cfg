CONSTANTS
  Threads = {t1, t2}
  NodeNames = {node1, node2}
  Kinds = {"const", "det", "sample", "observe"}
  MaxTraces = 2
  MaxDecl = 3
  a = a b = b c = c y = y z = z
  Latents <- ThreeLatents
  Observed = {y, z}
  Facts <- SomeFacts
  Probe = z
  Tables <- SomeTables
  NumWarmup = 1
  NumSamples = 2
  Chains <- SomeChains
  Caps = {0, 4, 8}
  MinDraws = {5}
  BatchSizes = {1, 3}
  Needed = {1, 2}
  MaxDivergences = {1}
  Divergences = {0, 2}
  Parameters <- ThreeLatents
  Data = {y, z}
  Selections <- SomeSelections
  MaxParameters = 3
  MaxElements = 21
  LowRankMax = 1
  LowRankShare = 2
  DenseMaxN = 2
  FiniteMaxN = 3
  FiniteMaxRank = 2
  Sizes = {2, 4}
  MaxOffers = 1
  Thetas = {"warm", "late"}
  Ranks = {1, 2}
  Levels = {0, 1}
  Margins = {0}
  SingleRange = {0}
  MaxMoves = 1
  TraceOrder <- Orders2
SYMMETRY TraceSymmetry
SPECIFICATION SamplersSpec
INVARIANTS SolvedBlocksAreExact DrawsReadTheState ChainsAreAsRecorded SelectionHolds DeterminantsHold NodesStayHome BindsWhatWasPassed
PROPERTIES CollectIsASamplingLoop TracesArePrivate
CHECK_DEADLOCK FALSE
