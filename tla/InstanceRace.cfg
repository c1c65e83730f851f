SPECIFICATION FairSpec
CONSTANTS
    c1 = c1
    c2 = c2
    i1 = i1
    i2 = i2
    NoInstance = NoInstance
    Instances = {i1}
    Callers = {c1, c2}
    MayCall <- RaceMayCall
    Existing = {}
    Lenient = TRUE
    MaxMishaps = 2
INVARIANTS
    NoStuckTransitional
    NoOrphanProject
    DeletionFinal
CHECK_DEADLOCK FALSE
PROPERTIES
    NoResurrection
    DeleteConverges
