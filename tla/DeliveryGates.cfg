CONSTANTS
    Pairs = 2
    Design = 1
    Codes <- MCCodes
    Happens <- MCHappens
    Budget = 1
    MaxRaised = 3
    Strays = FALSE
    Patches = TRUE
SPECIFICATION Spec
INVARIANTS
  BaselineHeld
  CodeIsThere
  NeverIdle
PROPERTIES
  RetriesEnd
CHECK_DEADLOCK FALSE
