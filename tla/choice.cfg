\* Every strategy on every small input; a behaviour ends with its one choice.
SPECIFICATION Spec
CHECK_DEADLOCK FALSE
CONSTANTS
  NodeCount = 3
  Capacity <- MCCapacity
  Latency <- MCLatency
  Scale = 100
  Loads <- MCLoads
  Lengths = {0, 1, 2}
  Indices = {0, 1, 2, 3}
  Demands <- MCDemands
INVARIANTS
  PicksExactlyOne
  NeverDominated
  RoundRobinVisitsAll
