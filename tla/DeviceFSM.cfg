SPECIFICATION Spec
CONSTANTS
    Inputs <- Waking
    DeviceQueueSize = 2
    EventQueueSize = 1
    InboxSize = 1
INVARIANTS TypeOK ListeningTimesOut MicStopsWithSession PendingWakeAnswered
CHECK_DEADLOCK FALSE
