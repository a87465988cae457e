SPECIFICATION Spec
CONSTANTS
  Pairs = 2
  MaxBugs = 2
  MaxRequests = 6
  MaxCrashes = 2
  Failures <- MCFailures
  HopFailures <- MCHopFailures
  Recurs <- MCRecurs
  Partial = FALSE
  CrashAt <- MCCrashAt
  None = None
INVARIANTS
  Resumable
  Carried
  VerdictComes
PROPERTIES
  InOrder
  NeverStuck
  Delivered
CHECK_DEADLOCK FALSE
