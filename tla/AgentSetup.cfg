SPECIFICATION Spec
CONSTANTS
    Setters <- Console
    AgentIds = {a1, a2}
    Tokens = {t1, t2}
    NULL = NULL
    GARBAGE = GARBAGE
    DefaultAgentId = NULL
    DeviceEnabled = FALSE
    EventQueueSize = 2
INVARIANTS TypeOK Persisted UpdatesReachAgent
