SPECIFICATION FairSpec
CONSTANTS
    r1 = r1
    r2 = r2
    Replicas = {r1, r2}
    Initial = {r1}
    Kinds = {"health", "metrics", "follow", "tail"}
    SubBuffer = 1
    FanInBuffer = 1
    MaxEvents = 2
    MaxMishaps = 1
INVARIANTS
    NoSendAfterClose
    DeliveredInOrder
CHECK_DEADLOCK FALSE
PROPERTIES
    TeardownEnds
    StreamFollows
