SPECIFICATION Spec
CONSTANTS
    Threads = {t1, t2}
    N = 3
    PhyIds <- MCPhyIds
    Match <- MCMatch
    Serialized = TRUE
INVARIANTS
    TypeOK
    FirstMatchingDriver
PROPERTY
    CreateReturns
