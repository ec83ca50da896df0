\* One node, every policy, switched by a client and by recommendations while tasks wait.
SPECIFICATION Spec
CONSTANTS
  NodeCount = 1
  Capacity <- MCCapacityOne
  Latency <- MCLatencyOne
  Scale = 100
  ClockDrift = 1
  DeviceProfile <- MCProfileOne
  DueTime <- MCDue
  TaskCount = 3
  MaxRetries = 0
  Producer = producer
  Clients = {c1}
  Free = free
  InitialConfigs <- MCConfigsBoth
  ManualRequests <- MCRequestsTwo
  AutomaticRequests = TRUE
  MaxRequests = 1
INVARIANTS
  QueueInArrivalOrder
  StoppedCleanly
  EffectiveIntended
  StrategyRecorded
