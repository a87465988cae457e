CONSTANTS
    Pairs = 2
    Design = 1
    Codes <- MCCodes
    Happens <- MCHappens
    Budget = 1
    MaxRaised = 3
    Strays = TRUE
    Patches = FALSE
SPECIFICATION Spec
INVARIANT RepeatedFailuresStop
CHECK_DEADLOCK FALSE
