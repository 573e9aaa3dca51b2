SPECIFICATION Spec
CONSTANTS
    Setters <- ConsoleAndRainMaker
    AgentIds = {a1, a2}
    Tokens = {t1, t2}
    NULL = NULL
    GARBAGE = GARBAGE
    DefaultAgentId = NULL
    DeviceEnabled = TRUE
    EventQueueSize = 1
INVARIANT Persisted
