SPECIFICATION Spec
CONSTANTS
    project = project
    ticket = ticket
    assignment = assignment
    Root = project
    Parent <- Chain
    Batches <- Commits
    Callers = {pm, agent}
    MaxEvents = 5
    MaxFailures = 1
INVARIANTS
    Recoverable
    NoOrphans
PROPERTIES
    Implements
SYMMETRY CallerSymmetry
CHECK_DEADLOCK FALSE
