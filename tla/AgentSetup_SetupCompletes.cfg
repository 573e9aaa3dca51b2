SPECIFICATION FairSpec
CONSTANTS
    Setters <- Console
    AgentIds = {a1, a2}
    Tokens = {t1, t2}
    NULL = NULL
    GARBAGE = GARBAGE
    DefaultAgentId = NULL
    DeviceEnabled = TRUE
    EventQueueSize = 2
\* PROPERTY UpdateArrives in its place is violated in the same way.
PROPERTY SetupCompletes
