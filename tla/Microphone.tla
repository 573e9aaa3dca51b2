---------------------------- MODULE Microphone ----------------------------
(***************************************************************************)
(* The user's voice on its way to the agent (audio_recorder.c and the      *)
(* microphone's half of app_audio.c).  The task of a pipeline records a    *)
(* frame, tells the device the wake words it heard, and puts the frame     *)
(* into a FIFO.  The microphone task takes the frames out and sends them,  *)
(* dummies or nothing, as the device says, and sends the device to sleep   *)
(* for every frame it cannot hand over.  Pipeline task, microphone task    *)
(* and device task wait without a timeout, each for a queue the next one   *)
(* empties, and the device task for room in its own.                       *)
(*                                                                         *)
(* The agent's session (agent->started) and the application's view of it   *)
(* (g_app_agent_data.state) are two variables: the session ends in the     *)
(* websocket client's task, and the application hears of it by an event    *)
(* that comes later or, from a full event loop, never.                     *)
(*                                                                         *)
(* Frames are not told apart: the FIFO is a number.  The device is reduced *)
(* to what the microphone depends on (DeviceFSM has all of it), the        *)
(* session to its beginning and end (AgentSession).                        *)
(***************************************************************************)
EXTENDS Naturals, Sequences

CONSTANTS
    FifoBlocks,       \* AUDIO_RECORDER_FIFO_BLOCK_COUNT, 8 in the code
    DeviceQueueSize,  \* APP_DEVICE_MESSAGE_QUEUE_SIZE, 20 in the code
    OtherCount        \* bound: how many device events and changes of the link come from elsewhere

ASSUME SizeAssumption == FifoBlocks \in Nat \ {0} /\ DeviceQueueSize \in Nat \ {0}
ASSUME CountAssumption == OtherCount \in Nat

VARIABLES
    rec,       \* where the pipeline's task is
    event,     \* the device event its front end has yet to enqueue
    fifo,      \* frames in audio_recorder_t.fifo_handle
    micTask,   \* where audio_microphone_task is
    mic,       \* g_app_audio_data.microphone_state
    late,      \* history: real frames sent since the device last left START
    started,   \* agent->started
    client,    \* whether the websocket client has been started
    acks,      \* acknowledged sessions the application has not been told of
    down,      \* a DISCONNECTED event is on its way to the application
    active,    \* app_agent_is_active
    devq,      \* g_device_data.message_queue
    todo,      \* what each task has yet to do: to enqueue a device event, or to connect
    pending, initialized,  \* g_device_data.wakeup_start_pending, system_initialized
    others     \* bound: what is still to come from elsewhere

recorder == <<rec, event, fifo>>
session  == <<started, client, acks, down, active>>
device   == <<mic, pending, initialized>>
vars     == <<recorder, micTask, late, session, devq, todo, device, others>>

MicStates    == {"STOP", "START", "PAUSE"}
DeviceEvents == {"SYSTEM_INITIALIZED", "WAKEUP", "SLEEP", "SPEECH_START", "STATE_CHANGED"}

\* The tasks that may have to wait for room in the device queue in the middle of
\* something: app_agent_start_task, the agent's event loop and the device task.
Tasks == {"starter", "loop", "device"}
Steps == DeviceEvents \union {"connect"}

\* app_agent_connect: the application's view is CONNECTING, then the agent is started.
Connecting == <<"STATE_CHANGED", "connect">>

\* Init is app_agent_start_task between app_audio_start, which has created the two
\* tasks of the microphone, and app_agent_connect.
Init ==
    /\ rec = "off" /\ event = "none" /\ fifo = 0
    /\ micTask = "read" /\ mic = "STOP" /\ late = 0
    /\ started = FALSE /\ client = FALSE /\ acks = 0 /\ down = FALSE /\ active = FALSE
    /\ devq = <<>> /\ pending = FALSE /\ initialized = FALSE
    /\ todo = [t \in Tasks |-> IF t = "starter" THEN Connecting \o <<"SYSTEM_INITIALIZED">> ELSE <<>>]
    /\ others = OtherCount

\* app_device_event_enqueue: xQueueSend with portMAX_DELAY.
Room       == Len(devq) < DeviceQueueSize
Enqueue(e) == Room /\ devq' = Append(devq, e)

-----------------------------------------------------------------------------
(* audio_recorder.c: the pipeline's task *)

\* audio_recorder_start: the caller is told of no failure.
StartRecorder ==
    /\ rec = "off"
    /\ rec' \in {"capture", "failed"}
    /\ UNCHANGED <<event, fifo, micTask, late, session, devq, todo, device, others>>

\* The front end takes a frame from the codec; it may hear the wake word, or the
\* end of the wake period, or something the application ignores.
Capture ==
    /\ rec = "capture"
    /\ \/ rec' = "event" /\ event' \in {"WAKEUP", "SLEEP"}
       \/ rec' = "write" /\ UNCHANGED event
    /\ UNCHANGED <<fifo, micTask, late, session, devq, todo, device, others>>

\* audio_recorder_event_handler, called by the front end.
EnqueueEvent ==
    /\ rec = "event" /\ rec' = "write"
    /\ Enqueue(event) /\ event' = "none"
    /\ UNCHANGED <<fifo, micTask, late, session, todo, device, others>>

\* Faulty variant of WriteFrame: the capacity of the FIFO is not checked.
WriteFrameUnchecked ==
    /\ rec = "write" /\ rec' = "capture"
    /\ fifo' = fifo + 1
    /\ UNCHANGED <<event, micTask, late, session, devq, todo, device, others>>

\* recorder_outport_release_write: the port was made with portMAX_DELAY.
WriteFrame ==
    /\ rec = "write" /\ rec' = "capture"
    /\ fifo < FifoBlocks /\ fifo' = fifo + 1
    /\ UNCHANGED <<event, micTask, late, session, devq, todo, device, others>>

-----------------------------------------------------------------------------
(* app_audio.c: audio_microphone_task *)

\* Faulty variant of MicReads: a stopped microphone takes no frame out.
MicReadsUnlessStopped ==
    /\ micTask = "read" /\ fifo > 0 /\ mic # "STOP"
    /\ fifo' = fifo - 1 /\ micTask' = "choose"
    /\ UNCHANGED <<rec, event, late, session, devq, todo, device, others>>

MicReads ==
    /\ micTask = "read" /\ fifo > 0
    /\ fifo' = fifo - 1 /\ micTask' = "choose"
    /\ UNCHANGED <<rec, event, late, session, devq, todo, device, others>>

\* app_agent_send_speech refuses a frame, real or dummy, of an agent that is not
\* active in the application's view.
MicChooses ==
    /\ micTask = "choose"
    /\ micTask' = CASE mic = "STOP" -> "read"
                    [] mic # "STOP" /\ ~active -> "complain"
                    [] mic = "START" /\ active -> "send"
                    [] mic = "PAUSE" /\ active -> "dummy"
    /\ UNCHANGED <<recorder, late, session, devq, todo, device, others>>

\* Faulty variant of AgentChecks: the agent takes frames without a session.
AgentChecksNothing ==
    /\ micTask \in {"send", "dummy"}
    /\ micTask' = IF micTask = "send" THEN "push" ELSE "pushDummy"
    /\ UNCHANGED <<recorder, late, session, devq, todo, device, others>>

\* The agent itself refuses a frame without a session, whatever the application
\* has been told of it.
AgentChecks ==
    /\ micTask \in {"send", "dummy"}
    /\ micTask' = IF ~started THEN "complain"
                  ELSE IF micTask = "send" THEN "push" ELSE "pushDummy"
    /\ UNCHANGED <<recorder, late, session, devq, todo, device, others>>

\* Faulty variant of FrameSent: the task sends what it reads before it looks at
\* the device's wishes again.
FrameSentAndAgain ==
    /\ micTask = "push" /\ late' = IF mic = "START" THEN 0 ELSE late + 1
    /\ IF fifo > 0 THEN fifo' = fifo - 1 /\ UNCHANGED micTask
       ELSE micTask' = "read" /\ UNCHANGED fifo
    /\ UNCHANGED <<rec, event, session, devq, todo, device, others>>

\* The agent takes the frame, whatever the device has decided meanwhile.
FrameSent ==
    /\ micTask = "push" /\ micTask' = "read"
    /\ late' = IF mic = "START" THEN 0 ELSE late + 1
    /\ UNCHANGED <<recorder, session, devq, todo, device, others>>

DummySent ==
    /\ micTask = "pushDummy" /\ micTask' = "read"
    /\ UNCHANGED <<recorder, late, session, devq, todo, device, others>>

\* The agent has no memory, or its send queue no room for a second.
SendFails ==
    /\ micTask \in {"push", "pushDummy"} /\ micTask' = "complain"
    /\ UNCHANGED <<recorder, late, session, devq, todo, device, others>>

MicComplains ==
    /\ micTask = "complain" /\ micTask' = "read"
    /\ Enqueue("SLEEP")
    /\ UNCHANGED <<recorder, late, session, todo, device, others>>

-----------------------------------------------------------------------------
(* app_agent.c and the link: sessions begin and end, and the application is told *)

\* app_device_event_enqueue in the middle of something.
TaskEnqueues(t) ==
    /\ todo[t] # <<>> /\ Head(todo[t]) # "connect"
    /\ Enqueue(Head(todo[t])) /\ todo' = [todo EXCEPT ![t] = Tail(@)]
    /\ UNCHANGED <<recorder, micTask, late, session, device, others>>

\* esp_agent_start in app_agent_connect: it succeeds at once with a started agent;
\* a failure leaves the application's view DISCONNECTED, and what the caller does
\* after a success undone.
TaskConnects(t) ==
    /\ todo[t] # <<>> /\ Head(todo[t]) = "connect"
    /\ \/ /\ started' = TRUE /\ client' = TRUE
          /\ acks' = IF started THEN acks ELSE acks + 1
          /\ todo' = [todo EXCEPT ![t] = Tail(@)]
          /\ UNCHANGED active
       \/ /\ ~started /\ active' = FALSE
          /\ todo' = [todo EXCEPT ![t] = <<"STATE_CHANGED">>]
          /\ UNCHANGED <<started, client, acks>>
    /\ UNCHANGED <<recorder, micTask, late, down, devq, device, others>>

\* The link ends or fails to come back, or the session is stopped after an error.
\* The DISCONNECTED event is posted, or nobody posts it, or the event loop stays
\* full for a second and it is lost.
SessionEnds ==
    /\ client /\ others > 0 /\ others' = others - 1
    /\ started' = FALSE /\ down' \in {down, TRUE}
    /\ UNCHANGED <<recorder, micTask, late, client, acks, active, devq, todo, device>>

\* app_agent_default_event_handler: the new view is written, then the device is told.
Hears(view, tells) ==
    /\ todo["loop"] = <<>>
    /\ active' = view /\ todo' = [todo EXCEPT !["loop"] = tells]
    /\ UNCHANGED <<recorder, micTask, late, started, client, devq, device>>

\* START, for an acknowledgement that may be of a session that is over.
HearsStart ==
    /\ acks > 0 /\ acks' = acks - 1
    /\ Hears(TRUE, <<"STATE_CHANGED">>) /\ UNCHANGED <<down, others>>

HearsDisconnected ==
    /\ down /\ down' = FALSE
    /\ Hears(FALSE, <<"STATE_CHANGED", "SLEEP">>) /\ UNCHANGED <<acks, others>>

\* CONNECTED, also of a client that has reconnected by itself.
HearsConnected ==
    /\ client /\ others > 0 /\ others' = others - 1
    /\ Hears(FALSE, <<"STATE_CHANGED">>) /\ UNCHANGED <<acks, down>>

-----------------------------------------------------------------------------
(* app_device.c: the device task, as far as the microphone goes *)

Take(e) ==
    /\ todo["device"] = <<>> /\ devq # <<>> /\ Head(devq) = e
    /\ devq' = Tail(devq)
    /\ UNCHANGED <<recorder, micTask, started, client, acks, down, others>>

\* The device turns the microphone to s, and the count of late frames begins again.
Turn(s) == mic' = s /\ late' = IF s = "START" THEN 0 ELSE late

\* Ignored before the system is initialized; connects an agent that is not
\* active in the application's view.
DeviceWakeup ==
    /\ Take("WAKEUP")
    /\ IF initialized /\ active THEN Turn("START") ELSE UNCHANGED <<mic, late>>
    /\ IF initialized /\ ~active
       THEN pending' = TRUE /\ todo' = [todo EXCEPT !["device"] = Connecting]
       ELSE UNCHANGED <<pending, todo>>
    /\ UNCHANGED <<active, initialized>>

DeviceSleep ==
    /\ Take("SLEEP") /\ Turn("STOP")
    /\ UNCHANGED <<active, todo, pending, initialized>>

\* The microphone of a sleeping device, and only of one, is stopped.
DeviceSpeechStart ==
    /\ Take("SPEECH_START")
    /\ Turn(IF mic = "STOP" THEN "STOP" ELSE "PAUSE")
    /\ UNCHANGED <<active, todo, pending, initialized>>

DeviceStateChanged ==
    /\ Take("STATE_CHANGED")
    /\ IF active /\ pending
       THEN todo' = [todo EXCEPT !["device"] = <<"WAKEUP">>] /\ pending' = FALSE
       ELSE UNCHANGED <<todo, pending>>
    /\ UNCHANGED <<late, active, mic, initialized>>

DeviceInitialized ==
    /\ Take("SYSTEM_INITIALIZED") /\ initialized' = TRUE
    /\ UNCHANGED <<late, active, todo, mic, pending>>

\* The timer, the touch, the responses of the agent and the end of a playback.
OtherEnqueues ==
    /\ others > 0 /\ others' = others - 1
    /\ \E e \in {"WAKEUP", "SLEEP", "SPEECH_START"} : Enqueue(e)
    /\ UNCHANGED <<recorder, micTask, late, session, todo, device>>

-----------------------------------------------------------------------------
Recorder   == StartRecorder \/ Capture \/ EnqueueEvent \/ WriteFrame
MicTask    == MicReads \/ MicChooses \/ AgentChecks \/ FrameSent \/ DummySent \/ SendFails
                \/ MicComplains
DeviceTask == DeviceWakeup \/ DeviceSleep \/ DeviceSpeechStart \/ DeviceStateChanged
                \/ DeviceInitialized \/ TaskEnqueues("device") \/ TaskConnects("device")
EventLoop  == HearsStart \/ HearsDisconnected \/ HearsConnected \/ TaskEnqueues("loop")
Starter    == TaskEnqueues("starter") \/ TaskConnects("starter")

Next == Recorder \/ MicTask \/ DeviceTask \/ EventLoop \/ Starter \/ SessionEnds \/ OtherEnqueues

Spec == Init /\ [][Next]_vars

\* The three tasks of the ring are scheduled, and starting the agent ends (its
\* requests have time-outs).  No more is asked for a task that waits for room in
\* the device queue: that the others leave it some follows.  Of the event loop
\* nothing is asked: the application may never hear of the end of a session.
Fairness == WF_vars(Recorder) /\ WF_vars(MicTask) /\ WF_vars(DeviceTask)

FairSpec == Spec /\ Fairness

-----------------------------------------------------------------------------
(* Properties *)

TypeOK ==
    /\ rec \in {"off", "failed", "capture", "event", "write"}
    /\ event \in {"none", "WAKEUP", "SLEEP"}
    /\ fifo \in 0 .. FifoBlocks
    /\ micTask \in {"read", "choose", "send", "dummy", "push", "pushDummy", "complain"}
    /\ mic \in MicStates /\ late \in Nat
    /\ started \in BOOLEAN /\ client \in BOOLEAN /\ down \in BOOLEAN /\ active \in BOOLEAN
    /\ acks \in Nat
    /\ pending \in BOOLEAN /\ initialized \in BOOLEAN
    /\ devq \in Seq(DeviceEvents) /\ Len(devq) <= DeviceQueueSize
    /\ todo \in [Tasks -> Seq(Steps)]
    /\ others \in 0 .. OtherCount

\* app_device.c:206, "Send dummy audio data": what is said to a device that has
\* stopped listening reaches the agent for one frame at most, the one the
\* microphone task had in its hands, however many wait in the FIFO.
AtMostOneLateFrame == late <= 1

\* The device task waits for room in the queue only it empties (SleepTakesEffect
\* of DeviceFSM): nothing of the device goes on.
DeviceStuck == todo["device"] # <<>> /\ Head(todo["device"]) # "connect" /\ ~Room

\* The front end, which hears the wake word, is never held up for good by the
\* FIFO, by the microphone task's complaints or by its own events.
FrontEndGoesOn == rec \in {"event", "write"} ~> rec = "capture" \/ DeviceStuck

\* app_agent.c:52, "Stop microphone to prevent sending data while disconnected":
\* also when the event that says so comes late or never, so that the application
\* takes the agent for active and the device even turns the microphone on, a
\* microphone without a session is turned off by its own complaints of the frames
\* the agent refuses.
OrphanedMicStops ==
    mic # "STOP" /\ ~started ~> mic = "STOP" \/ started \/ DeviceStuck \/ rec = "failed"

=============================================================================
