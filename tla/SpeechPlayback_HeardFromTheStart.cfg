SPECIFICATION Spec
CONSTANTS
    FifoBlocks = 2
    Budget <- TinyBudget
PROPERTIES HeardFromTheStart
CHECK_DEADLOCK FALSE
