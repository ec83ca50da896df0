\* Everything that is started comes to an end.
SPECIFICATION FairSpec
CONSTANTS
  NodeCount = 1
  Capacity <- MCCapacityTight
  Latency <- MCLatencyOne
  Scale = 100
  ClockDrift = 0
  DeviceProfile <- MCProfileTight
  DueTime <- MCDue
  TaskCount = 3
  MaxRetries = 1
  Producer = producer
  Clients = {c1}
  Free = free
  InitialConfigs <- MCConfigsAutomatic
  ManualRequests <- MCRequests
  AutomaticRequests = FALSE
  MaxRequests = 1
PROPERTIES
  TasksSettle
  ProcessingCompletes
  ConfigurationReturns
  StopTerminates
