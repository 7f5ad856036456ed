SPECIFICATION Spec
CONSTANTS
    Nodes = {n1, n2}
    Workers = {w1, w2, w3}
    Kids = {k1}
    Targets = {"active", "disabled", "compromised"}
    MaxBlobs = 3
SYMMETRY Symmetry
INVARIANTS TypeOK SerialTerminalEnforced
PROPERTIES OnlyValidTransitions
