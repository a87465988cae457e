CONSTANTS
    Providers = 3
    MaxRetries = 1
    MaxRounds = 2
    Extra = 1
    Tools = {"read", "manifest", "test", "fetch"}
    Length = 1
    MaxAttempts = 1
    Prompts = {"p1"}
    Sessions = {"s1"}
SPECIFICATION Spec
INVARIANTS
  ToolConsent
  DeliveredTested
PROPERTIES
  CancelHolds
  Answered
CHECK_DEADLOCK FALSE
