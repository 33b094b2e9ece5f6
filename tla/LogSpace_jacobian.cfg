CONSTANTS
  DataNodes <- TwoNodes
  LogSamples = {1, 2}
SPECIFICATION LogSpec
INVARIANTS JacobianIsTheDifference
