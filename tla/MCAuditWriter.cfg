SPECIFICATION FairSpec
CONSTANTS
    Requests = {r1, r2}
    Capacity = 2
    GroupMax = 2
    EventCount = 2
    MaxEvents = 2
    MaxStarts = 2
INVARIANTS TypeOK FileVerifies OrderlyShutdownSigned
PROPERTIES ImplementsAuditLog EveryRequestAnswered
CHECK_DEADLOCK FALSE
