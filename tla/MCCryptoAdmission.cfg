SPECIFICATION FairSpec
CONSTANTS
    Jobs = {j1, j2, j3, j4, j5}
    Max = 2
    Queued = 2
INVARIANTS TypeOK ExecutionBounded QueueBounded PermitsConserved
PROPERTIES EveryJobAnswered
