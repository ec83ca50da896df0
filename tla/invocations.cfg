\* Restarts over one database file; the last process may rest.
SPECIFICATION Spec
CHECK_DEADLOCK FALSE
CONSTANTS
  TaskCount = 2
  Configured = "MULTI_CONSTRAINT"
  AllStrategies <- MCAllStrategies
  MaxInvocations = 2
INVARIANTS
  ResetSucceeds
  OnlyThisInvocation
  ExecutionsAllocated
