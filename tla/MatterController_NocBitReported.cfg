SPECIFICATION Spec
CONSTANTS
    Tasks <- AllTasks
    Tokens = {u1}
    Groups = {g1}
    Keys = {k1, k2}
    NULL = NULL
    FREED = FREED
    DeviceQueueSize = 1
    MaxOverlap = 2
    MaxFailures = 1
PROPERTY NocBitReported
