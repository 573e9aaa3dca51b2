SPECIFICATION Spec
CONSTANTS
    Tools = {"volume", "reminder"}
    AppTasks = {"main"}
    NodeCount = 2
    RequestCount = 1
    SendQueueSize = 1
    Budget <- TinyBudget
INVARIANT NothingFreedIsUsed
CHECK_DEADLOCK FALSE
