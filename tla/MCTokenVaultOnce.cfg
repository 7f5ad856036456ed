SPECIFICATION Spec
CONSTANTS
    Workers = {w1, w2}
    Profiles = {once}
    Stored = {once}
    OneTime = {once}
    Names = {alice}
    NoSubject = NoSubject
    KeyStatuses = {"active"}
    MaxTokens = 2
    MaxSeeds = 2
    MaxBatch = 2
SYMMETRY WorkerSymmetry
INVARIANTS TypeOK RowsUnderCurrentSeed OneTimeDeliveredOnce RevocationIsFinal
PROPERTIES RemovalIsReported
