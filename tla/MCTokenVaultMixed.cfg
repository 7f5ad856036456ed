SPECIFICATION Spec
CONSTANTS
    Workers = {w1, w2}
    Profiles = {vault, once}
    Stored = {vault}
    OneTime = {once}
    Names = {alice}
    NoSubject = NoSubject
    KeyStatuses = {"active", "retired", "disabled"}
    MaxTokens = 1
    MaxSeeds = 2
    MaxBatch = 1
SYMMETRY WorkerSymmetry
INVARIANTS OneTimeDeliveredOnce RevocationIsFinal
PROPERTIES SeedNeverReplaced
