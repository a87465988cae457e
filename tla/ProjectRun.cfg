SPECIFICATION Spec
CONSTANTS
  Main = Main
  None = None
  Steps = 3
  CodeStep = 2
  MaxFailures = 2
  MaxBugs = 4
  MaxFaults = 2
  Owned = FALSE
INVARIANTS
  RecordAgrees
  OnlyAccepted
  NoWorkLost
  DownstreamSees
PROPERTIES
  LandedAsGated
  IsMainline
  Delivered
CHECK_DEADLOCK FALSE
