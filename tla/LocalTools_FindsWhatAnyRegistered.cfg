SPECIFICATION Spec
CONSTANTS
    Tools = {"volume", "reminder"}
    AppTasks = {"main", "other"}
    NodeCount = 2
    RequestCount = 1
    SendQueueSize = 1
    Budget <- TinyBudget
PROPERTY FindsWhatAnyRegistered
CHECK_DEADLOCK FALSE
