SPECIFICATION FairSpec
CONSTANTS
    FifoBlocks = 2
    Budget <- TinyBudget
PROPERTIES ResponseAlwaysFinishes
CHECK_DEADLOCK FALSE
