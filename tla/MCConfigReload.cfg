SPECIFICATION Spec
CONSTANTS
    Root = "root"
    Kids = {"k1", "k2"}
    Damaged = {"k2"}
    Files = {"first", "second", "garbled"}
    Text <- MCText
    Hashes = {"root", "h1", "h2", "h3"}
    Asked = {"mac-create", "metrics", "admin"}
    Profiles = {"p"}
    Workers = {w1, w2}
    MaxWrites = 2
    Missing = Missing
    Corrupt = Corrupt
    None = None
SYMMETRY Symmetry
INVARIANTS TypeOK OnlySignedInForce ServedUnderOneFile AnsweredReloadInForce
PROPERTIES DecisionsFollowFile
