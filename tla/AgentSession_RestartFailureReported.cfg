SPECIFICATION Spec
CONSTANTS
    Apps = {app}
    EventTask = eventTask
    Senders = {sender}
    AgentIds = {agent1}
    Tokens = {token1}
    ConvIds = {conv1}
    NULL = NULL
    SendQueueSize = 1
    MessageQueueSize = 2
    EventQueueSize = 2
PROPERTIES RestartFailureReported
CHECK_DEADLOCK FALSE
