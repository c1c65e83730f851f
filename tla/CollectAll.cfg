SPECIFICATION GCFairSpec
CONSTANTS
    c1 = c1
    c2 = c2
    w1 = w1
    w2 = w2
    NoOne = NoOne
    Workloads = {w1}
    Callers = {c1, c2}
    MayCall <- CollectMayCall
    Targets = {2}
    Legacy = {}
    Rooms = {1, 2}
    MaxInstances = 2
    MaxMishaps = 1
    MaxPerTick = 1
    Strangers = {1}
INVARIANTS
    NoOrphanReplica
    NoStuckState
PROPERTIES
    CollectorSparesReplicas
    OrphansCollected
    DeleteConverges
CHECK_DEADLOCK FALSE
