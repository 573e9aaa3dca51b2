SPECIFICATION Spec
CONSTANTS
    Inputs <- Waking
    DeviceQueueSize = 2
    EventQueueSize = 1
    InboxSize = 2
INVARIANTS MicStopsAfterReconnect
CHECK_DEADLOCK FALSE
