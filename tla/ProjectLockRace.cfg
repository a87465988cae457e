SPECIFICATION Spec
CONSTANTS
    Processes = {p1, p2}
    Forced = {}
    Overlap = TRUE
    None = None
    Empty = Empty
    Garbage = Garbage
INVARIANT Exclusive
CHECK_DEADLOCK FALSE
