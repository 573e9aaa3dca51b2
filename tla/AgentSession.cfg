SPECIFICATION Spec
CONSTANTS
    Apps = {app}
    EventTask = eventTask
    Senders = {sender}
    AgentIds = {agent1, agent2}
    Tokens = {token1, token2}
    ConvIds = {conv1}
    NULL = NULL
    SendQueueSize = 1
    MessageQueueSize = 1
    EventQueueSize = 1
SYMMETRY Symmetry
INVARIANTS TypeOK CredentialsCurrent LinkFlagsTruthful
