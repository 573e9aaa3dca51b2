SPECIFICATION Spec
CONSTANTS
    Tasks <- AllTasks
    Tokens = {u1, u2}
    Groups = {g1, g2}
    Keys = {k1, k2}
    NULL = NULL
    FREED = FREED
    DeviceQueueSize = 1
    MaxOverlap = 2
    MaxFailures = 1
INVARIANT DerivedInvalidated
