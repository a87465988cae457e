SPECIFICATION HistorySpec
CONSTANTS
    p1 = p1
    p2 = p2
    Processes = {p1, p2}
    Forced = {p2}
    Overlap = FALSE
    None = None
    Empty = Empty
    Garbage = Garbage
    Split = 2
    MaxBuilds = 3
    MaxFaults = 1
INVARIANTS
    Exclusive
    Coherent
PROPERTIES
    LastOneGetsIn
    Delivered
