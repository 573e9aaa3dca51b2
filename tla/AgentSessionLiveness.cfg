SPECIFICATION FairSpec
CONSTANTS
    Apps = {app}
    EventTask = eventTask
    Senders = {sender}
    AgentIds = {agent1}
    Tokens = {token1}
    ConvIds = {}
    NULL = NULL
    SendQueueSize = 1
    MessageQueueSize = 1
    EventQueueSize = 1
PROPERTIES ApiCallsReturn ClientTaskProgresses
