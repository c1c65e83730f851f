SPECIFICATION Spec
CONSTANTS
    c1 = c1
    c2 = c2
    i1 = i1
    i2 = i2
    NoInstance = NoInstance
    Instances = {i1, i2}
    Callers = {c1}
    MayCall <- SoloMayCall
    Existing = {i1}
    Lenient = FALSE
    MaxMishaps = 2
INVARIANTS
    RowMatchesBackend
    RunningHasProject
CHECK_DEADLOCK FALSE
