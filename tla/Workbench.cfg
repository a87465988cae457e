SPECIFICATION WSpec
CONSTANTS
    Readers = {r1, r2}
    Writers = {run, w1}
    Barging = FALSE
    Files = {"manifest", "source"}
    None = None
    Fresh = {"typescript"}
    Begun = {"python"}
    MaxIdle = 1
    MaxGrowth = 1
    Run = run
    MaxAttempts = 1
    MaxCalls = 2
    MaxStrays = 2
    MaxCrashes = 1
INVARIANTS
    IndexTrue
    Provenance
PROPERTIES
    SealIsTrue
    WriterGetsIn
    CommandEnds
CHECK_DEADLOCK FALSE
