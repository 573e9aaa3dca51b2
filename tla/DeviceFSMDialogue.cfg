SPECIFICATION Spec
CONSTANTS
    Inputs <- Dialogue
    DeviceQueueSize = 1
    EventQueueSize = 1
    InboxSize = 1
INVARIANTS ListeningTimesOut SpeakingEnds
CONSTRAINT Unbroken
CHECK_DEADLOCK FALSE
