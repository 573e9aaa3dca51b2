SPECIFICATION FairSpec
CONSTANTS
    FifoBlocks = 2
    DeviceQueueSize = 2
    OtherCount = 2
INVARIANTS TypeOK AtMostOneLateFrame
PROPERTIES FrontEndGoesOn OrphanedMicStops
CHECK_DEADLOCK FALSE
