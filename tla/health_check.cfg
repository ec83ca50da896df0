\* A health check of a fleet with a failed node.
SPECIFICATION FairSpec
CHECK_DEADLOCK FALSE
CONSTANTS
  NodeCount = 2
  Capacity <- MCCapacity
  Submitters = {client}
  Operators = {operator}
  Owners = {client}
  Controller = controller
  Free = free
  TaskCount = 2
  TaskNeed <- MCNeed
  Fluctuations <- MCFluctuations
  MaxChecks = 1
PROPERTY
  HealthCheckReturns
