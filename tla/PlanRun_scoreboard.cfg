CONSTANTS
  Caps = {0, 3, 8}
  MinDraws = {4}
  BatchSizes = {1, 3}
  Needed = {1, 2}
  MaxDivergences = {0, 1}
  Divergences = {0, 1}
  Points <- ThreePoints
  Outside <- TwoOutside
  Worlds <- SomeWorlds
  Landings <- SomeLandings
SPECIFICATION PlanSpec
INVARIANT ScoreboardNeverStopsTheCompile
