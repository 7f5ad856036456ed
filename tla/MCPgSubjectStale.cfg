SPECIFICATION SpecStorage
CONSTANTS
    Transactions = {t1, t2, t3}
    Tokens = {k1, k2}
    MaxSeeds = 2
    HashIds = {h1, h2, h3}
    Sizes = {1, 2, 4}
    MaxItems = 3
    MaxBytes = 5
    UsizeMax = 7
    Absent = Absent
    Bad = Bad
SYMMETRY Symmetry
INVARIANT NoStaleInsert
