\* What becomes of the tasks of a failed node.
SPECIFICATION Spec
CHECK_DEADLOCK FALSE
CONSTANTS
  NodeCount = 2
  Capacity <- MCCapacity
  Submitters = {client}
  Operators = {operator}
  Owners = {client}
  Controller = controller
  Free = free
  TaskCount = 2
  TaskNeed <- MCNeed
  Fluctuations <- MCFluctuations
  MaxChecks = 1
INVARIANT
  ReallocatedIsScheduled
