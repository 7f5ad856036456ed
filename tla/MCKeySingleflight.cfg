SPECIFICATION FairSpec
CONSTANTS
    Callers = {c1, c2, c3}
    Kids = {k1, k2}
INVARIANTS TypeOK OneLoadPerKey MapMatchesHolders
PROPERTIES EveryMissAnswered
