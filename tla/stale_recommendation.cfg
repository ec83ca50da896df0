\* A recommendation in flight overwrites a manual configuration.
SPECIFICATION Spec
CONSTANTS
  NodeCount = 1
  Capacity <- MCCapacityOne
  Latency <- MCLatencyOne
  Scale = 100
  ClockDrift = 0
  DeviceProfile <- MCProfileOne
  DueTime <- MCDue
  TaskCount = 1
  MaxRetries = 0
  Producer = producer
  Clients = {c1}
  Free = free
  InitialConfigs <- MCConfigsAutomatic
  ManualRequests <- MCRequests
  AutomaticRequests = FALSE
  MaxRequests = 1
INVARIANT
  ManualEffective
