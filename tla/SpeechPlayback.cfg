SPECIFICATION FairSpec
CONSTANTS
    FifoBlocks = 2
    Budget <- SmallBudget
INVARIANTS TypeOK
PROPERTIES StartedFollowsPipeline PromiseKept ResponseFinishes
CHECK_DEADLOCK FALSE
