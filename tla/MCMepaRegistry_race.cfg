SPECIFICATION Spec
CONSTANTS
    Threads = {t1, t2}
    N = 3
    PhyIds <- MCPhyIds
    Match <- MCMatch
    Serialized = FALSE
INVARIANT
    FirstMatchingDriver
