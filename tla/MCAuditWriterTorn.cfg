SPECIFICATION Spec
CONSTANTS
    Requests = {r1, r2}
    Capacity = 2
    GroupMax = 2
    EventCount = 2
    MaxEvents = 3
    MaxStarts = 2
SYMMETRY Symmetry
INVARIANTS SynchronizedFileVerifiable
CHECK_DEADLOCK FALSE
