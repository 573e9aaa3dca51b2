\* Each of these is violated: leave one name to see its behaviour.
SPECIFICATION Spec
CONSTANTS
    Inputs <- Waking
    DeviceQueueSize = 2
    EventQueueSize = 2
    InboxSize = 1
INVARIANTS StartedHasSession SessionIsSeen
CHECK_DEADLOCK FALSE
