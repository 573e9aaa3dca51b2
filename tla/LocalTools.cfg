SPECIFICATION FairSpec
CONSTANTS
    Tools = {"volume", "reminder"}
    AppTasks = {"main", "other"}
    NodeCount = 2
    RequestCount = 2
    SendQueueSize = 1
    Budget <- SmallBudget
INVARIANTS TypeOK
PROPERTIES FindsRegistered RequestsSettle
CHECK_DEADLOCK FALSE
