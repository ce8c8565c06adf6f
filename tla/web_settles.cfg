\* Liveness: a dashboard that is loaded once.
SPECIFICATION FairSpec
CHECK_DEADLOCK FALSE
CONSTANTS
    o1 = o1
    o2 = o2
    Ops = {o1, o2}
    Streams = 2
    MaxOperations = 1
    MaxEvents = 2
    MaxSubscribers = 2
    MaxSubscribersPerOperation = 1
    MaxEmits = 1
    MaxReloads = 0
PROPERTIES
    RunningSettles
