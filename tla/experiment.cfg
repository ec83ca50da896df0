\* A whole experiment on one small node whose background load moves under the tasks.
SPECIFICATION FairExperimentSpec
CONSTANTS
  NodeCount = 1
  Capacity <- MCCapacitySmall
  Latency <- MCLatencyOne
  Scale = 100
  ClockDrift = 0
  DeviceProfile <- MCProfileTight
  DueTime <- MCDue
  TaskCount = 3
  MaxRetries = 1
  Producer = producer
  Clients = {}
  Free = free
  InitialConfigs <- MCExperimentConfigs
  ManualRequests = {}
  AutomaticRequests = FALSE
  MaxRequests = 0
  ConfiguredStrategy = "MULTI_CONSTRAINT"
  FluctuationPeriod = 2
  Drift = 1
INVARIANTS
  BandwidthFits
  BandwidthExact
  HeldOnce
  StoppedCleanly
PROPERTIES
  ExperimentReturns
