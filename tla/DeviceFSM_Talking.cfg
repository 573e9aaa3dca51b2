\* Each of these is violated: leave one of the two lines, with one name on it, to see its behaviour.
SPECIFICATION Spec
CONSTANTS
    Inputs <- Talking
    DeviceQueueSize = 2
    EventQueueSize = 1
    InboxSize = 1
INVARIANTS ResponseIsPlayed SpeakingEndsAfterReconnect
PROPERTIES WokenByUser TimeoutIsCurrent
CHECK_DEADLOCK FALSE
