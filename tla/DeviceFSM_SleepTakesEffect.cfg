SPECIFICATION FairSpec
CONSTANTS
    Inputs <- WakeWord
    DeviceQueueSize = 1
    EventQueueSize = 1
    InboxSize = 1
PROPERTIES SleepTakesEffect
CHECK_DEADLOCK FALSE
