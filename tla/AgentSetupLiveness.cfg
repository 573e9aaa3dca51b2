SPECIFICATION FairSpec
CONSTANTS
    Setters <- ConsoleAndRainMaker
    AgentIds = {a1, a2}
    Tokens = {t1, t2}
    NULL = NULL
    GARBAGE = GARBAGE
    DefaultAgentId = NULL
    DeviceEnabled = FALSE
    EventQueueSize = 1
PROPERTIES SetupCompletes UpdateArrives
