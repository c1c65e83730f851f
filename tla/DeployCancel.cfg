SPECIFICATION Spec
CONSTANTS
    c1 = c1
    c2 = c2
    s1 = s1
    s2 = s2
    v1 = v1
    v2 = v2
    e1 = e1
    NoEnv = noenv
    Services = {s1, s2}
    Images = {v1, v2}
    Envs = {noenv, e1}
    Initial <- AllV1
    Requests <- ToV2
    Recorded = TRUE
    Callers = {c1, c2}
    MayCall <- CancelMayCall
    MaxReleases = 3
    MaxDeployments = 3
    MaxMishaps = 0
PROPERTIES
    CancelSticks
CHECK_DEADLOCK FALSE
