CONSTANTS
    Headers = 1
    First = 2
    Idle = 1
    Wall = 3
    Cap = 2
    Stall = 1
    Role <- MCRole
    Ollama = {"local", "auto"}
    Cluster = {"route"}
    Imported = "auto"
    Explicit = FALSE
    Snapshots <- MCSnapshots
    Overrides <- MCOverrides
    MaxRetries = 1
    MaxCalls = 2
SPECIFICATION Spec
INVARIANTS
  Explained
PROPERTIES
  IsRouted
  Deserved
  CallEnds
CHECK_DEADLOCK FALSE
