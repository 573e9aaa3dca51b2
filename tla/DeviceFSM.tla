------------------------------ MODULE DeviceFSM ------------------------------
(***************************************************************************)
(* The application layer of the voice examples (app_common): the device    *)
(* state machine of app_device.c, fed through one bounded queue by the     *)
(* agent's event loop, the microphone and download tasks, the esp_timer    *)
(* task, the audio front end, the touch interrupt and the boot task of     *)
(* app_agent.c.  Producers wait without a timeout for room in the queue,   *)
(* and the device task, its only consumer, is a producer too.              *)
(*                                                                         *)
(* The esp_agent component is reduced to what the application sees of it:  *)
(* a client that is stopped, connecting, connected or past its handshake,  *)
(* the started flag, the text messages waiting for the message task and    *)
(* the events waiting for the event loop (AgentSession has the details).   *)
(***************************************************************************)
EXTENDS Naturals, Sequences

CONSTANTS
    Inputs,           \* which of UserInputs and ServerInputs occur
    DeviceQueueSize,  \* APP_DEVICE_MESSAGE_QUEUE_SIZE, 20 in the code
    EventQueueSize,   \* the agent's event loop, 10 in the code
    InboxSize         \* the agent's message queue, 10 in the code

UserInputs   == {"wake", "sleep", "touch", "reminder"}
ServerInputs == {"speech", "error"}

ASSUME InputsAssumption == Inputs \subseteq UserInputs \cup ServerInputs
ASSUME QueueAssumption ==
    /\ DeviceQueueSize \in Nat \ {0}
    /\ EventQueueSize \in Nat \ {0}
    /\ InboxSize \in Nat \ {0}

VARIABLES
    client, agentStarted,          \* the agent's websocket client, agent->started
    speech,                        \* the server is streaming a response
    inbox, evq,                    \* text messages, agent events
    broken,                        \* history: how the stream of messages and events was broken
    appState,                      \* g_app_agent_data.state
    queue,                         \* g_device_data.message_queue
    out,                           \* of each task: the events it has yet to enqueue
    connect,                       \* how far a task is in app_agent_connect
    state, systemInitialized, wakeupStartPending, reminderActive,  \* g_device_data
    sleepTimer, reminderTimer,     \* the one-shot timers that are armed
    mic, speaker, playbackComplete, downloadComplete,  \* g_app_audio_data
    draining                       \* download_complete_task waits for the speaker

session == <<client, agentStarted, speech>>
agentQs == <<inbox, evq, broken>>
device  == <<state, systemInitialized, wakeupStartPending, reminderActive>>
timers  == <<sleepTimer, reminderTimer>>
audio   == <<mic, speaker, playbackComplete, downloadComplete, draining>>
vars    == <<session, agentQs, appState, queue, out, connect, device, timers, audio>>

\* Tasks that enqueue device events; app_agent_connect is called by two of them.
Tasks      == {"device", "loop", "mic", "download", "timer", "recorder", "starter"}
Connectors == {"device", "starter"}

AppStates    == {"DISCONNECTED", "CONNECTING", "CONNECTED", "STARTED"}
DeviceStates == {"IDLE", "LISTENING", "SPEAKING"}
MicStates    == {"STOP", "START", "PAUSE"}
Messages     == {"ACK", "SPEECH_START", "SPEECH_END", "ERROR"}
AgentEvents  == {"CONNECTED", "DISCONNECTED", "START", "SPEECH_START", "SPEECH_END", "ERROR"}

\* DEVICE_EVENT_WAKEUP and _SLEEP have a second name when the playback task's
\* completion or the sleep timer is behind them; the code cannot tell.
WakeEvents   == {"WAKEUP", "REWAKE"}
SleepEvents  == {"SLEEP", "TIMEOUT"}
DeviceEvents == WakeEvents \cup SleepEvents \cup
    {"SYSTEM_INITIALIZED", "SPEECH_START", "SPEECH_END", "PLAYBACK_COMPLETE", "INTERRUPT",
     "STATE_CHANGED", "REMINDER", "REMINDER_COMPLETE"}

\* Init is the application when app_agent_start_task is about to connect:
\* credentials set, audio tasks running.
Init ==
    /\ client = "stopped" /\ agentStarted = FALSE /\ speech = FALSE
    /\ inbox = <<>> /\ evq = <<>> /\ broken = {}
    /\ appState = "DISCONNECTED"
    /\ queue = <<>>
    /\ out = [t \in Tasks |-> <<>>]
    /\ connect = [t \in Connectors |-> IF t = "starter" THEN "begin" ELSE "none"]
    /\ state = "IDLE" /\ systemInitialized = FALSE
    /\ wakeupStartPending = FALSE /\ reminderActive = FALSE
    /\ sleepTimer = FALSE /\ reminderTimer = FALSE
    /\ mic = "STOP" /\ speaker = FALSE /\ playbackComplete = FALSE
    /\ downloadComplete = FALSE /\ draining = FALSE

-----------------------------------------------------------------------------
(* Queues *)

Holds(q, E) == \E i \in DOMAIN q : q[i] \in E

\* Task t goes on to enqueue the events es, one after the other.
Say(t, es) == out' = [out EXCEPT ![t] = es]
Silent(t)  == out[t] = <<>>

\* app_device_event_enqueue: xQueueSend with portMAX_DELAY.
Enqueue(t) ==
    /\ out[t] # <<>> /\ Len(queue) < DeviceQueueSize
    /\ queue' = Append(queue, Head(out[t]))
    /\ Say(t, Tail(out[t]))
    /\ UNCHANGED <<session, agentQs, appState, connect, device, timers, audio>>

\* The stream is broken when a queue of the agent is "full" and gives something
\* up, and by a "stale" message that outlives its connection.
Broken(condition, how) == IF condition THEN broken \cup {how} ELSE broken

\* esp_agent_post_event onto the event queue q: given up when there is no room.
Post(q, e) ==
    /\ evq' = IF Len(q) < EventQueueSize THEN Append(q, e) ELSE q
    /\ broken' = Broken(Len(q) = EventQueueSize, "full")

\* A complete text message reaches the agent's message queue, or is given up.
Deliver(m) ==
    /\ inbox' = IF Len(inbox) < InboxSize THEN Append(inbox, m) ELSE inbox
    /\ broken' = Broken(Len(inbox) = InboxSize, "full")
    /\ UNCHANGED evq

-----------------------------------------------------------------------------
(* The agent component as its application sees it *)

ClientUp == client \in {"connected", "acked"}

ClientConnects ==
    /\ client = "connecting" /\ client' = "connected"
    /\ Post(evq, "CONNECTED")
    /\ UNCHANGED <<agentStarted, speech, inbox, appState, queue, out, connect, device, timers, audio>>

\* The end of the client task leaves the messages that wait where they are.
ClientEnd(q) ==
    /\ evq' = IF Len(q) < EventQueueSize THEN Append(q, "DISCONNECTED") ELSE q
    /\ broken' = Broken(Len(q) = EventQueueSize, "full") \cup (IF inbox = <<>> THEN {} ELSE {"stale"})

\* The connection fails or is lost: the client task ends.
ClientEnds ==
    /\ client # "stopped" /\ client' = "stopped"
    /\ agentStarted' = FALSE /\ speech' = FALSE
    /\ ClientEnd(evq)
    /\ UNCHANGED <<inbox, appState, queue, out, connect, device, timers, audio>>

ServerAcks ==
    /\ client = "connected" /\ agentStarted /\ client' = "acked"
    /\ Deliver("ACK")
    /\ UNCHANGED <<agentStarted, speech, appState, queue, out, connect, device, timers, audio>>

ServerSpeaks ==
    /\ "speech" \in Inputs /\ client = "acked"
    /\ speech' = ~speech
    /\ Deliver(IF speech THEN "SPEECH_END" ELSE "SPEECH_START")
    /\ UNCHANGED <<client, agentStarted, appState, queue, out, connect, device, timers, audio>>

ServerError ==
    /\ "error" \in Inputs /\ ClientUp
    /\ Deliver("ERROR")
    /\ UNCHANGED <<session, appState, queue, out, connect, device, timers, audio>>

\* message_processing_task: every message becomes an event of the event loop.
MessageTask ==
    /\ inbox # <<>>
    /\ inbox' = Tail(inbox)
    /\ Post(evq, IF Head(inbox) = "ACK" THEN "START" ELSE Head(inbox))
    /\ UNCHANGED <<session, appState, queue, out, connect, device, timers, audio>>

-----------------------------------------------------------------------------
(* app_agent.c *)

\* Faulty variant of UpdateState: the device is not told.
UpdateStateSilently(t, s, es) == appState' = s /\ Say(t, es)

\* app_agent_update_state, and what the caller enqueues after it.
UpdateState(t, s, es) == appState' = s /\ Say(t, <<"STATE_CHANGED">> \o es)

\* app_agent_default_event_handler, run by the task of the agent's event loop.
HandleAgentEvent(e) ==
    /\ Silent("loop") /\ evq # <<>> /\ Head(evq) = e

OnConnected ==
    /\ HandleAgentEvent("CONNECTED") /\ evq' = Tail(evq)
    /\ UpdateState("loop", "CONNECTED", <<>>)
    /\ UNCHANGED <<session, inbox, broken, queue, connect, device, timers, audio>>

\* Faulty variant of OnDisconnected: the device is not put to sleep.
OnDisconnectedAwake ==
    /\ HandleAgentEvent("DISCONNECTED") /\ evq' = Tail(evq)
    /\ UpdateState("loop", "DISCONNECTED", <<>>)
    /\ UNCHANGED <<session, inbox, broken, queue, connect, device, timers, audio>>

OnDisconnected ==
    /\ HandleAgentEvent("DISCONNECTED") /\ evq' = Tail(evq)
    /\ UpdateState("loop", "DISCONNECTED", <<"SLEEP">>)
    /\ UNCHANGED <<session, inbox, broken, queue, connect, device, timers, audio>>

OnStart ==
    /\ HandleAgentEvent("START") /\ evq' = Tail(evq)
    /\ UpdateState("loop", "STARTED", <<>>)
    /\ UNCHANGED <<session, inbox, broken, queue, connect, device, timers, audio>>

OnSpeech ==
    /\ \E e \in {"SPEECH_START", "SPEECH_END"} : HandleAgentEvent(e) /\ Say("loop", <<e>>)
    /\ evq' = Tail(evq)
    /\ UNCHANGED <<session, inbox, broken, appState, queue, connect, device, timers, audio>>

\* esp_agent_stop closes a connected client, whose end is an event of its own,
\* and leaves a connecting one to itself.
OnError ==
    /\ HandleAgentEvent("ERROR")
    /\ IF agentStarted /\ ClientUp
       THEN client' = "stopped" /\ speech' = FALSE /\ ClientEnd(Tail(evq))
       ELSE UNCHANGED <<client, speech, broken>> /\ evq' = Tail(evq)
    /\ agentStarted' = FALSE
    /\ UNCHANGED <<inbox, appState, queue, out, connect, device, timers, audio>>

\* app_agent_connect, first half: the caller saw an inactive agent some time
\* before this write.
ConnectBegin(t) ==
    /\ connect[t] = "begin"
    /\ connect' = [connect EXCEPT ![t] = "starting"]
    /\ UpdateState(t, "CONNECTING", <<>>)
    /\ UNCHANGED <<session, agentQs, queue, device, timers, audio>>

\* Second half: esp_agent_start succeeds on an agent that counts as started or
\* by starting the client; it fails when the client still runs, and when the
\* access token cannot be fetched.  After a success the boot task reports that
\* the system is initialized.
ConnectEnd(t) ==
    /\ connect[t] = "starting" /\ Silent(t)
    /\ connect' = [connect EXCEPT ![t] = "none"]
    /\ \/ /\ agentStarted \/ client = "stopped"
          /\ agentStarted' = TRUE
          /\ client' = IF agentStarted THEN client ELSE "connecting"
          /\ IF t = "starter" THEN Say(t, <<"SYSTEM_INITIALIZED">>) ELSE UNCHANGED out
          /\ UNCHANGED appState
       \/ /\ ~agentStarted
          /\ UpdateState(t, "DISCONNECTED", <<>>)
          /\ UNCHANGED <<client, agentStarted>>
    /\ UNCHANGED <<speech, agentQs, queue, device, timers, audio>>

-----------------------------------------------------------------------------
(* The other producers *)

\* audio_microphone_task: a frame, real or dummy, cannot be handed over: always
\* when the agent is not active, otherwise when the agent refuses it.
MicSendFails ==
    /\ mic # "STOP" /\ Silent("mic")
    /\ Say("mic", <<"SLEEP">>)
    /\ UNCHANGED <<session, agentQs, appState, queue, connect, device, timers, audio>>

\* download_complete_task takes the bit and waits until nothing is left to play.
DownloadTaskWakes ==
    /\ downloadComplete /\ ~draining /\ Silent("download")
    /\ downloadComplete' = FALSE /\ draining' = TRUE
    /\ UNCHANGED <<session, agentQs, appState, queue, out, connect, device, timers, mic, speaker, playbackComplete>>

PlaybackDrains ==
    /\ draining /\ draining' = FALSE
    /\ playbackComplete' = TRUE
    /\ Say("download", <<"PLAYBACK_COMPLETE">>)
    /\ UNCHANGED <<session, agentQs, appState, queue, connect, device, timers, mic, speaker, downloadComplete>>

\* The callbacks of the task of esp_timer.
SleepTimerFires ==
    /\ sleepTimer /\ Silent("timer")
    /\ sleepTimer' = FALSE
    /\ Say("timer", <<"TIMEOUT">>)
    /\ UNCHANGED <<session, agentQs, appState, queue, connect, device, reminderTimer, audio>>

ReminderTimerFires ==
    /\ reminderTimer /\ Silent("timer")
    /\ reminderTimer' = FALSE
    /\ Say("timer", <<"REMINDER_COMPLETE">>)
    /\ UNCHANGED <<session, agentQs, appState, queue, connect, device, sleepTimer, audio>>

\* reminder_timer_callback: a reminder the user asked for has expired.
ReminderExpires ==
    /\ "reminder" \in Inputs /\ Silent("timer")
    /\ Say("timer", <<"REMINDER">>)
    /\ UNCHANGED <<session, agentQs, appState, queue, connect, device, timers, audio>>

\* audio_recorder_event_handler: the wake word, or the end of the wake period.
Recorder ==
    /\ Silent("recorder")
    /\ \/ "wake" \in Inputs /\ Say("recorder", <<"WAKEUP">>)
       \/ "sleep" \in Inputs /\ Say("recorder", <<"SLEEP">>)
    /\ UNCHANGED <<session, agentQs, appState, queue, connect, device, timers, audio>>

\* Faulty variant of Touch: the full queue is not noticed.
TouchUnchecked ==
    /\ "touch" \in Inputs
    /\ queue' = Append(queue, "INTERRUPT")
    /\ UNCHANGED <<session, agentQs, appState, out, connect, device, timers, audio>>

\* app_touch_press_on_inactive, from an interrupt: dropped when the queue is full.
Touch ==
    /\ "touch" \in Inputs /\ Len(queue) < DeviceQueueSize
    /\ queue' = Append(queue, "INTERRUPT")
    /\ UNCHANGED <<session, agentQs, appState, out, connect, device, timers, audio>>

-----------------------------------------------------------------------------
(* app_device.c: the device task takes an event; while it has something to    *)
(* enqueue or is in app_agent_connect it takes no other                       *)

DeviceBusy == connect["device"] # "none" \/ ~Silent("device")

Take(E) ==
    /\ ~DeviceBusy
    /\ queue # <<>> /\ Head(queue) \in E
    /\ queue' = Tail(queue)

SystemInitialized ==
    /\ Take({"SYSTEM_INITIALIZED"})
    /\ systemInitialized' = TRUE
    /\ UNCHANGED <<session, agentQs, appState, out, connect, state, wakeupStartPending, reminderActive, timers, audio>>

\* Ignored while the device sleeps.
SpeechStart ==
    /\ Take({"SPEECH_START"})
    /\ IF state = "IDLE"
       THEN UNCHANGED <<state, mic, speaker, playbackComplete, sleepTimer>>
       ELSE /\ state' = "SPEAKING" /\ mic' = "PAUSE" /\ sleepTimer' = FALSE
            /\ speaker' = TRUE /\ playbackComplete' = FALSE
    /\ UNCHANGED <<session, agentQs, appState, out, connect, systemInitialized, wakeupStartPending,
                   reminderActive, reminderTimer, downloadComplete, draining>>

SpeechEnd ==
    /\ Take({"SPEECH_END"})
    /\ downloadComplete' = (downloadComplete \/ state = "SPEAKING")
    /\ UNCHANGED <<session, agentQs, appState, out, connect, device, timers, mic, speaker, playbackComplete, draining>>

\* Faulty variant of SpeechPlaybackComplete: a reminder's chime replaces the wake-up.
SpeechPlaybackCompleteOrChime ==
    /\ Take({"PLAYBACK_COMPLETE"})
    /\ reminderTimer' = (reminderTimer \/ reminderActive)
    /\ IF reminderActive THEN UNCHANGED out ELSE Say("device", <<"REWAKE">>)
    /\ UNCHANGED <<session, agentQs, appState, connect, device, sleepTimer, audio>>

\* esp_timer_start_once on an armed timer fails and changes nothing.
SpeechPlaybackComplete ==
    /\ Take({"PLAYBACK_COMPLETE"})
    /\ reminderTimer' = (reminderTimer \/ reminderActive)
    /\ Say("device", <<"REWAKE">>)
    /\ UNCHANGED <<session, agentQs, appState, connect, device, sleepTimer, audio>>

\* A wake-up is ignored before the system is initialized, and first connects an
\* agent that is not active.
WakeupIgnored ==
    /\ ~systemInitialized
    /\ UNCHANGED <<state, wakeupStartPending, connect, sleepTimer, mic, speaker>>

WakeupConnects ==
    /\ systemInitialized /\ appState # "STARTED"
    /\ wakeupStartPending' = TRUE
    /\ connect' = [connect EXCEPT !["device"] = "begin"]
    /\ UNCHANGED <<state, sleepTimer, mic, speaker>>

\* Faulty variant of WakeupListens: the stopped sleep timer is not started again.
WakeupListensForever ==
    /\ systemInitialized /\ appState = "STARTED"
    /\ state' = "LISTENING" /\ mic' = "START" /\ speaker' = FALSE /\ sleepTimer' = FALSE
    /\ UNCHANGED <<wakeupStartPending, connect>>

WakeupListens ==
    /\ systemInitialized /\ appState = "STARTED"
    /\ state' = "LISTENING" /\ mic' = "START" /\ speaker' = FALSE /\ sleepTimer' = TRUE
    /\ UNCHANGED <<wakeupStartPending, connect>>

Wakeup ==
    /\ Take(WakeEvents)
    /\ WakeupIgnored \/ WakeupConnects \/ WakeupListens
    /\ UNCHANGED <<session, agentQs, appState, out, systemInitialized, reminderActive, reminderTimer,
                   playbackComplete, downloadComplete, draining>>

\* The speaker is left as it is.
Sleep ==
    /\ Take(SleepEvents)
    /\ state' = "IDLE" /\ mic' = "STOP" /\ sleepTimer' = FALSE
    /\ UNCHANGED <<session, agentQs, appState, out, connect, systemInitialized, wakeupStartPending, reminderActive,
                   reminderTimer, speaker, playbackComplete, downloadComplete, draining>>

\* A touch ends the listening, cuts the response short or wakes the device.
Interrupt ==
    /\ Take({"INTERRUPT"})
    /\ Say("device", CASE state = "LISTENING" -> <<"SLEEP">>
                       [] state = "SPEAKING"  -> <<"SPEECH_END">>
                       [] state = "IDLE"      -> <<"WAKEUP">>)
    /\ speaker' = (speaker /\ state # "SPEAKING")
    /\ UNCHANGED <<session, agentQs, appState, connect, device, timers, mic, playbackComplete, downloadComplete, draining>>

\* The wake-up that had to wait for the agent is enqueued again.
AgentStateChanged ==
    /\ Take({"STATE_CHANGED"})
    /\ IF appState = "STARTED" /\ wakeupStartPending
       THEN Say("device", <<"WAKEUP">>) /\ wakeupStartPending' = FALSE
       ELSE UNCHANGED <<out, wakeupStartPending>>
    /\ UNCHANGED <<session, agentQs, appState, connect, state, systemInitialized, reminderActive, timers, audio>>

\* The chime of a reminder that expires while the device speaks has to wait.
Reminder ==
    /\ Take({"REMINDER"})
    /\ reminderActive' = TRUE
    /\ reminderTimer' = (reminderTimer \/ state # "SPEAKING")
    /\ UNCHANGED <<session, agentQs, appState, out, connect, state, systemInitialized, wakeupStartPending,
                   sleepTimer, audio>>

ReminderComplete ==
    /\ Take({"REMINDER_COMPLETE"})
    /\ reminderActive' = FALSE
    /\ UNCHANGED <<session, agentQs, appState, out, connect, state, systemInitialized, wakeupStartPending, timers, audio>>

-----------------------------------------------------------------------------
Agent == ClientConnects \/ ClientEnds \/ ServerAcks \/ ServerSpeaks \/ ServerError \/ MessageTask

EventLoopTask == OnConnected \/ OnDisconnected \/ OnStart \/ OnSpeech \/ OnError

DeviceTask ==
    \/ SystemInitialized \/ SpeechStart \/ SpeechEnd \/ SpeechPlaybackComplete
    \/ Wakeup \/ Sleep \/ Interrupt \/ AgentStateChanged \/ Reminder \/ ReminderComplete

Producers ==
    \/ MicSendFails \/ DownloadTaskWakes \/ PlaybackDrains
    \/ SleepTimerFires \/ ReminderTimerFires \/ ReminderExpires
    \/ Recorder \/ Touch

Next ==
    \/ Agent \/ EventLoopTask \/ DeviceTask \/ Producers
    \/ \E t \in Connectors : ConnectBegin(t) \/ ConnectEnd(t)
    \/ \E t \in Tasks : Enqueue(t)

Spec == Init /\ [][Next]_vars

\* Every task of the firmware is scheduled; users and the server do as they like.
Fairness ==
    /\ WF_vars(DeviceTask) /\ WF_vars(EventLoopTask) /\ WF_vars(MessageTask)
    /\ \A t \in Connectors : WF_vars(ConnectBegin(t) \/ ConnectEnd(t))
    /\ \A t \in Tasks : SF_vars(Enqueue(t))

FairSpec == Spec /\ Fairness

-----------------------------------------------------------------------------
(* Properties *)

AgentOK ==
    /\ client \in {"stopped", "connecting", "connected", "acked"}
    /\ agentStarted \in BOOLEAN /\ speech \in BOOLEAN /\ broken \subseteq {"full", "stale"}
    /\ inbox \in Seq(Messages) /\ Len(inbox) <= InboxSize
    /\ evq \in Seq(AgentEvents) /\ Len(evq) <= EventQueueSize

TasksOK ==
    /\ appState \in AppStates
    /\ queue \in Seq(DeviceEvents) /\ Len(queue) <= DeviceQueueSize
    /\ out \in [Tasks -> Seq(DeviceEvents)] /\ \A t \in Tasks : Len(out[t]) <= 2
    /\ connect \in [Connectors -> {"none", "begin", "starting"}]

DeviceOK ==
    /\ state \in DeviceStates /\ mic \in MicStates
    /\ systemInitialized \in BOOLEAN /\ wakeupStartPending \in BOOLEAN /\ reminderActive \in BOOLEAN
    /\ sleepTimer \in BOOLEAN /\ reminderTimer \in BOOLEAN
    /\ speaker \in BOOLEAN /\ playbackComplete \in BOOLEAN
    /\ downloadComplete \in BOOLEAN /\ draining \in BOOLEAN

TypeOK == AgentOK /\ TasksOK /\ DeviceOK

\* An event of E is in the device queue or a task is about to enqueue it.
Pending(E) == Holds(queue, E) \/ \E t \in Tasks : Holds(out[t], E)

\* "Device goes to sleep after 15 seconds of inactivity": a listening device
\* has its sleep timer armed or its sleep event on the way, whatever the order
\* in which wake-ups, the expiry of the timer and responses arrive.
ListeningTimesOut == state = "LISTENING" => sleepTimer \/ Pending(SleepEvents)

\* What will move a speaking device on: the rest of the response, its end on
\* the way through the agent's queues, the event loop and the download task, or
\* the end of the link.
ResponseEnds ==
    \/ speech
    \/ Holds(inbox, {"SPEECH_END"}) \/ Holds(evq, {"SPEECH_END", "DISCONNECTED"})
    \/ downloadComplete \/ draining
    \/ Pending({"SPEECH_END", "PLAYBACK_COMPLETE"} \cup WakeEvents \cup SleepEvents)

\* "When response playback stops, you can ask your next question": a speaking
\* device, whose sleep timer is stopped, waits for something that will come,
\* as long as the stream of messages and events of the agent is not broken.
SpeakingEnds == state = "SPEAKING" /\ broken = {} => ResponseEnds

\* app_agent.c:52, "Stop microphone to prevent sending data while disconnected":
\* whether DISCONNECTED was written by the event loop's task or by a failed
\* connect of the device task, a microphone that is still on has its sleep event
\* on the way, or the event of the lost link, as long as the stream of messages
\* and events of the agent is not broken.
MicStopsWithSession ==
    mic # "STOP" /\ appState = "DISCONNECTED" /\ broken = {} =>
        Pending(SleepEvents) \/ Holds(evq, {"DISCONNECTED"})

\* A wake-up that waits for the agent is not forgotten: once the agent is
\* started, the state change that releases it is still to be handled.
PendingWakeAnswered ==
    wakeupStartPending /\ appState = "STARTED" => Pending({"STATE_CHANGED"}) \/ connect["device"] # "none"

-----------------------------------------------------------------------------
(* What the documentation says and the code does not do *)

\* No task of the firmware has anything left to do.
Quiet ==
    /\ inbox = <<>> /\ evq = <<>> /\ queue = <<>>
    /\ \A t \in Tasks : Silent(t)
    /\ \A t \in Connectors : connect[t] = "none"
    /\ client # "connecting" /\ ~downloadComplete /\ ~draining

\* voice_chat/setup_guide.md:41, "you can wake it again by saying `Hi, ESP`":
\* a quiet application that believes its agent started has a client that runs,
\* for on a wake-up it would not connect; no queue of the agent was ever full.
StartedHasSession == Quiet /\ appState = "STARTED" /\ "full" \notin broken => client # "stopped"

\* voice_chat/setup_guide.md:36-37, a connected device can be woken and listens to its
\* user: a quiet application whose session is up knows that it is.
SessionIsSeen == Quiet /\ client = "acked" /\ agentStarted => appState = "STARTED" \/ "full" \in broken

\* voice_chat/setup_guide.md:40, "When response playback stops, you can ask your
\* next question": also when a message of an earlier connection is handled late.
SpeakingEndsAfterReconnect == state = "SPEAKING" /\ "full" \notin broken => ResponseEnds

\* app_agent.c:52, "Stop microphone to prevent sending data while disconnected":
\* also when messages of an earlier connection are handled late, an
\* acknowledgement that passes for a session and then an error that stops the
\* agent during its next attempt to connect.
MicStopsAfterReconnect ==
    mic # "STOP" /\ appState = "DISCONNECTED" /\ "full" \notin broken =>
        Pending(SleepEvents) \/ Holds(evq, {"DISCONNECTED"})

\* voice_chat/setup_guide.md:41, "Device goes to sleep": a sleep event in the
\* queue is handled.
SleepTakesEffect == Holds(queue, SleepEvents) ~> state = "IDLE"

\* voice_chat/setup_guide.md:41: a sleeping device is woken by its user, not by
\* the end of a playback.
WokenByUser ==
    [][state = "IDLE" /\ state' = "LISTENING" => Head(queue) # "REWAKE"]_vars

\* voice_chat/setup_guide.md:41, "after 15 seconds of inactivity": the expiry of
\* the sleep timer does not end a wake period that has just begun.
TimeoutIsCurrent ==
    [][state = "LISTENING" /\ state' = "IDLE" /\ sleepTimer => Head(queue) # "TIMEOUT"]_vars

\* app_device.c:330, "Play the reminder chime after audio playback is complete":
\* a reminder on display has been chimed, or the playback it waits for goes on.
ReminderChimes ==
    reminderActive =>
        \/ reminderTimer \/ Pending({"REMINDER_COMPLETE", "PLAYBACK_COMPLETE"})
        \/ state = "SPEAKING" \/ downloadComplete \/ draining

\* voice_chat/setup_guide.md:37, "it will respond": the speech of a
\* response the device speaks is not dropped while it is still streamed.
ResponseIsPlayed ==
    /\ state = "SPEAKING" /\ speech /\ broken = {}
    /\ ~Holds(inbox, {"SPEECH_START"}) /\ ~Holds(evq, {"SPEECH_START"}) /\ ~Pending({"SPEECH_START"})
    => ~playbackComplete

=============================================================================
