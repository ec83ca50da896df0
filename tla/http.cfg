\* The --web branch of main with two clients at a time.
SPECIFICATION FairSpec
\* The process ends.
CHECK_DEADLOCK FALSE
CONSTANTS
  Handlers = {h1, h2}
  MaxPolls = 2
INVARIANTS
  HttpTypeOK
  HandlersServed
  ZeroMeansBindFailed
PROPERTIES
  ClosedOnce
  GivingUpEndsMain
  DestructorReturns
