\* The queues look empty while a worker holds their tasks.
SPECIFICATION ExperimentSpec
CONSTANTS
  NodeCount = 1
  Capacity <- MCCapacitySmall
  Latency <- MCLatencyOne
  Scale = 100
  ClockDrift = 0
  DeviceProfile <- MCProfileTight
  DueTime <- MCDue
  TaskCount = 3
  MaxRetries = 1
  Producer = producer
  Clients = {}
  Free = free
  InitialConfigs <- MCPriority
  ManualRequests = {}
  AutomaticRequests = FALSE
  MaxRequests = 0
  ConfiguredStrategy = "MULTI_CONSTRAINT"
  FluctuationPeriod = 2
  Drift = 0
INVARIANTS
  QueuesDrained
