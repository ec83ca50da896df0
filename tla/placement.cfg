\* Two contended nodes, three strategies, one manual reconfiguration; the ledger.
SPECIFICATION Spec
CONSTANTS
  NodeCount = 2
  Capacity <- MCCapacityTwo
  Latency <- MCLatencyTwo
  Scale = 100
  ClockDrift = 0
  DeviceProfile <- MCProfileTwo
  DueTime <- MCDue
  TaskCount = 3
  MaxRetries = 1
  Producer = producer
  Clients = {c1}
  Free = free
  InitialConfigs <- MCConfigsAll
  ManualRequests <- MCRequests
  AutomaticRequests = FALSE
  MaxRequests = 1
INVARIANTS
  TypeOK
  UsageWithinCapacity
  AccountingExact
  HeldOnce
  StrategyRecorded
  CountersAgree
PROPERTY
  ImplementsLedger
