\* Two callers, the controller and two workers: creation, placement, failure,
\* recovery, health check, start and stop.
SPECIFICATION FairSpec
\* Between calls, with nothing queued and the controller stopped, nothing moves.
CHECK_DEADLOCK FALSE
CONSTANTS
  NodeCount = 2
  Capacity <- MCCapacity
  Submitters = {client}
  Operators = {operator}
  Owners = {client}
  Controller = controller
  Free = free
  TaskCount = 2
  TaskNeed <- MCNeed
  Fluctuations <- MCFluctuations
  MaxChecks = 1
INVARIANTS
  ControlTypeOK
  CapacityKept
  BandwidthExplained
  OneHolder
  NullsExplained
PROPERTIES
  QueuedRuns
  FailureHandlingReturns
  StopReturns
