SPECIFICATION Spec
CONSTANTS
    Inputs <- Dialogue
    DeviceQueueSize = 2
    EventQueueSize = 1
    InboxSize = 1
INVARIANTS ReminderChimes
CHECK_DEADLOCK FALSE
