SPECIFICATION Spec
CONSTANTS
    c1 = c1
    c2 = c2
    w1 = w1
    w2 = w2
    NoOne = NoOne
    Workloads = {w1, w2}
    Callers = {c1}
    MayCall <- SoloMayCall
    Targets = {1, 2, 3}
    Legacy = {}
    Rooms = {2, 3}
    MaxInstances = 4
    MaxMishaps = 2
INVARIANTS
    CountMatches
PROPERTIES
    ResumeRestores
    ShrinkKeepsOldest
CHECK_DEADLOCK FALSE
