SPECIFICATION Spec
CONSTANTS
    story = story
    task = task
    b1 = b1
    b2 = b2
    cr = cr
    coder = coder
    tester = tester
    None = None
    Work = {story, task}
    Bugs = {b1, b2}
    Requests = {cr}
    Actors = {coder, tester}
    Parent <- MCParent
    Qualified <- MCQualified
    Capacity <- MCCapacity
    Concerns <- MCConcerns
    Failure <- MCFailure
    Submitted <- MCSubmitted
INVARIANTS
    OwnedWork
    ReservationsAreLive
    ExecutionHoldsASlot
CHECK_DEADLOCK FALSE
