\* Two operations of which one is kept, and one reload.
SPECIFICATION Spec
CHECK_DEADLOCK FALSE
CONSTANTS
    o1 = o1
    o2 = o2
    Ops = {o1, o2}
    Streams = 2
    MaxOperations = 1
    MaxEvents = 2
    MaxSubscribers = 2
    MaxSubscribersPerOperation = 1
    MaxEmits = 2
    MaxReloads = 1
SYMMETRY OpSymmetry
INVARIANTS
    OneTerminalEvent
    WithinLimits
    StreamsMissNothing
    ShownEndsAreTrue
