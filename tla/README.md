# A TLA+ model of the ESP agents firmware

This directory models, model-checks and proves properties of the firmware in
`src/`: the `agent` component (a client of a conversational agent over a
websocket), the `setup` component (its credentials), the application code of the
voice examples (the device that is woken, listens, speaks and sleeps), the audio
on its way in and out, the local tools an agent may execute, and the Matter
controller of the `matter_controller` example with its device list. The code is C on FreeRTOS:
tasks, queues, software timers, two event loops and almost no locks, so most of
what can go wrong is the order in which steps of several tasks happen.

Contents: [the system](#the-system) · [modules](#modules) · [what is checked](#what-is-checked) ·
[bounds](#bounds-and-why-they-are-enough) · [fairness](#fairness) · [what is proved](#what-is-proved) ·
[disagreements](#disagreements-with-the-documentation) · [not modelled](#what-is-not-modelled) · [plan](#plan)

## The system

### Components

| Component | State it keeps | Operations | Correct when |
|---|---|---|---|
| agent session: `esp_agent.c`, `esp_agent_websocket.c`, `esp_agent_events.c`, `esp_agent_message_handlers.c` | agent id, refresh and access token, conversation id; the flags `started`, `connected` and the handshake state; send, message and event queue | public calls start, stop, new conversation, set agent id, set refresh token; the websocket client's handler; send, message and event tasks | the flags describe the connection there is; a started agent runs under its present credentials; every call returns; no task waits for ever |
| agent messages: `esp_agent_messages.c` | none | build and parse JSON, queue a message | a message is queued to a started agent only, within the queue's size |
| local tools: `esp_agent_tools.c` | a linked list of tools | register, unregister, look up; one task per request | a registered tool is found; every request is settled; no node is used after it was freed |
| authentication: `esp_agent_auth.c` | none | one HTTP exchange | (I/O) |
| device state machine: `app_device.c` | state, queue of 20 events, flags of start-up, pending wake-up and reminder, sleep timer | wake, sleep, touch, timer, speech, playback, reminder, state change | a listening device times out; a speaking one goes on; a wake-up is answered |
| application glue: `app_agent.c` | the application's view of the agent's state | handlers of the agent's events, connect, start task | the view follows the agent |
| application audio: `app_audio.c` | microphone and speaker state, download and playback flags | microphone task, recorder call-back, download task | the microphone is off without a session; the end of a playback is reported once all of it was played |
| setup: `agent_setup.c`, `setup_rainmaker.c`, `setup_console.c` | agent id and refresh token in memory and in NVS, `*_set` flags | init, setters, getters, START and update events | memory and NVS agree; START comes once all is there; an update reaches the agent |
| audio playback: `audio_playback.c` | a FIFO of five blocks, a pipeline with its task, `started` | start, write, pipeline events, restart task | `started` follows the pipeline |
| audio recorder: `audio_recorder.c` | a FIFO of eight frames, a pipeline with its task | start, read, events of the front end | the front end, which hears the wake word, goes on |
| touch, display, console, boards, audio common | little or none | driver I/O, parsing | — |
| common tools: `app_common_tools.c` | reminder timers | tool handlers | a reminder fires once |
| Matter controller service: `app_matter_controller*.cpp` | base URL, user token, group (persisted); access token, fabric, node id | parameter writes, the update, renewal every 58 minutes, the status report | nothing outlives what it was derived from |
| credentials issuer: `app_matter_controller_creds_issuer.cpp` | root certificate, key pair, operational certificate in storage | fetch or load, issue, store | the stored entries belong together |
| device manager: `app_matter_device_manager.cpp`, REST client: `controller_rest_apis.c`, tool: `app_controller_tool_cb.cpp` | the device list, its mutex, a queue of eight; the tools' copy | fetch in several requests, replace, clone, read out | the list is the group of one moment; an answer is one whole list |

### How they interact

* The application calls the agent (`esp_agent_start` and the others) from several
  tasks: the start task, the device task, the default event loop's task, the
  agent's own event task. No field of `esp_agent_t` is locked.
* The websocket client runs in its own task; its handler changes the flags,
  posts to the agent's event loop, puts text into the message queue, and puts the
  handshake into the send queue that the send task empties into the client.
* The agent's event loop calls the handlers of `app_agent.c`, which post to the
  device queue, read the conversation state and write the application's view.
* The device task takes events from its queue and is itself a producer: for it,
  the sleep timer, the touch driver, the recorder, the microphone task, the
  download task and reminders.
* The setup component posts START and agent id updates to the *default* event
  loop; their handlers create the start task and call the agent.
* The Matter controller's update runs in RainMaker's task, in the default event
  loop and in the esp_timer task, and waits for HTTP in the middle; each puts the
  device manager's work into a queue without a time-out.
* Speech from the server takes a shorter way (event loop, playback FIFO) than the
  start and the end of its response (message queue, event loop, device queue). The
  task of the playback pipeline empties the FIFO; a task of its own polls it and
  tells the device that the playback is complete.
* The recorder's task fills a FIFO that the microphone task empties, and both tell
  the device things through its queue.
* A tool request is looked up by the message task in a list the application
  changes, runs in a task of its own, and its response goes through the send queue.

### What makes it hard

Unlocked state shared by several tasks; flags read, then acted on after a
blocking call; three queues whose senders wait with different timeouts, some with
none; messages of one connection handled during the next; a device task that
waits for room in the queue only it empties; credentials that change while a
session runs; saves to flash that fail or are cut short; values that were derived
from a parameter which has changed since; lists in memory that one task walks while
another changes them. `PROJECT.json` lists each hazard at its
line with the property that covers it.

## Modules

| Module | Models | Checked by | Proved in |
|---|---|---|---|
| `AgentSession` | the session layer of the agent component | `MCAgentSession` | `AgentSessionProofs` |
| `DeviceFSM` | the application layer of the voice examples | `MCDeviceFSM` | `DeviceFSMProofs` |
| `AgentSetup` | the setup component and the agent's start task | `MCAgentSetup` | `AgentSetupProofs` |
| `MatterController` | the Matter controller service and its credentials issuer | `MCMatterController` | `MatterControllerProofs` |
| `PlaybackPromise` | what the speaker promises the device state machine | as a property of `SpeechPlayback` | `SpeechPlaybackProofs` |
| `SpeechPlayback` | a response on its way to the speaker, the pipeline and its restarts | `MCSpeechPlayback` | `SpeechPlaybackProofs` |
| `Microphone` | the user's voice on its way to the agent | itself | `MicrophoneProofs` |
| `LocalTools` | the tool list, tool requests and their responses, the end of the agent | `MCLocalTools` | `LocalToolsProofs` |
| `DeviceList` | the list of Matter devices, its refresh and the tool that answers it | itself | `DeviceListProofs` |

The MC modules only define the sets, the symmetry, the budgets and the state
constraint that the configurations use. Faulty variants of an operation (`...Unchecked`,
`...Keeping...`, `...OrNot` and the like) stand before it in the module; each changes it the
way a plausible bug would, and `PROJECT.json` names the property that then fails.

### AgentSession

A public call of `esp_agent_core.h` is a sequence of steps of a caller
(`pc[c]`, `op[c]`): `StopEntry`, waiting for the client task, `StopClear`;
`StartCall`, `AccessToken`, `Connect`, `MarkStarted`; the calls that restart the
agent chain the two (`AfterStop`, `Restart`, `Return`). Callers are any number of
applications and the event task, which stops the agent on an error event
(`esp_agent_events.c`). The websocket client task is the variable `ws` with one
action per event its handler sees (`WsConnect`, `WsSendHandshake`,
`WsPushHandshake`, `WsConfirm`, `WsAck`, `WsSpeech`, `WsError`, `WsLinkLost`,
`WsConnectFailed`, `WsFinish`); the client library itself is external and is
modelled from how the code uses it. `SendTask`, `MessageTask` and
`DispatchEvent` are the three consumers, `QueueCheck`/`QueuePush` a producer
that looks at `started` before it waits for room. An access token is identified
with the refresh token it was obtained with. Agent ids are those that differ in
their first 32 characters, all that `esp_agent_set_agent_id` compares. `greeted` is a
history variable.

### DeviceFSM

`state`, `systemInitialized`, `wakeupStartPending`, `reminderActive` are fields of
`g_device_data`; the device task's handlers are the actions of `DeviceTask`, one
per event. What a handler enqueues goes through `out[t]` of its task, because
`xQueueSend` with `portMAX_DELAY` may wait between any two enqueues. The producers
are the agent's event loop (`EventLoopTask`), the microphone and download tasks,
the esp_timer task, the recorder, the touch driver and the start task.
`app_agent_connect` has two steps (`ConnectBegin`, `ConnectEnd`), run by the
device or the start task. The agent component is reduced to a client, a flag, a
message queue and an event queue; `broken` is a history variable that says
whether a message or event was lost to a full queue (`"full"`) or came from an
earlier connection (`"stale"`). A wake-up the playback task enqueues and a sleep
the timer enqueues carry names of their own (`REWAKE`, `TIMEOUT`); the handlers
treat them alike.

### AgentSetup

`nvsAgent` and `nvsToken` survive `Reboot`; `agentId`, `refreshToken` and the flags
are `g_agent_setup_data`. A setter's call is two or three steps (`SaveAgentId`,
`InstallAgentId`, `PostAgentIdUpdate`; `InstallToken`, `SaveToken`), in the order of
the code, each save with its failure. `PostStart` is `start_task`, which polls;
the `Dispatch...` actions are the default event loop. The handler of an agent id
update reads the getter's pointer (`DispatchAgentIdUpdate`) and gives the agent what
it leads to (`HandlerSetsAgentId`, after which, with a RainMaker device, the loop's
task is gone); `app_agent_start_task` reads both pointers (`StarterBegin`) and uses
them later (`StarterSetsAgentId`, `StarterSetsToken`). A setter may free what is held
meanwhile (`dangling`), and a read of freed memory returns the former value or
`GARBAGE`. `outdated` is a history variable: the start task gave the agent an id that
had been replaced since it took the pointer.

### MatterController

One update is a sequence of steps of a task (`pc[t]`), one per part of
`matter_controller_handle_update` between two requests, with what the request was
given in `arg[t]`. RainMaker's task enters it after a write (`WriteBaseUrl`,
`WriteUserToken`, `WriteGroupId`, the commands), the event loop after `GotIp`, the
timer after `Renew`. A write whose report to the cloud fails, or for which there is
no memory, returns early (`WriteBaseUrlFails`, `WriteUserTokenFails`,
`WriteGroupIdFails`): no update runs, and what was derived from the former value
stays in the handle, which the history variable `stale` remembers. That RainMaker
stores a value before it reports it is how the code uses it
(`esp_rmaker_param_update_and_report`); the library is external. A write without
memory leaves the handle like a failed write of the empty string. Each request
succeeds or fails in a later action, so that writes, other updates and `Reboot` come between. The set-up of the Matter stack
takes its lock (`LockStack`), and inside it the credentials issuer loads or fetches
the root certificate, and loads the stored chain or issues one, stored in two
writes (`StoreKey`, `StoreNoc`). A fabric and a node id are identified with the
group they belong to, an access token with its user token; until the request
fills it the handle's access token is a buffer named by the task that allocated
it, and once freed `FREED`. An update also ends where the renewal timer cannot be
started (`Authorized`). `overlapped` is a history variable.

### SpeechPlayback and PlaybackPromise

`ServerStarts`, `ServerSpeaks` and `ServerEnds` are the server's side of a response.
Its start and end go through `inbox` (message queue), `evq` (event loop) and `devq`
(device queue), its speech only through `evq`: `OnSpeech` is `app_audio_play_speech`
with the checks of `audio_playback_write`, and `writing` says that the task is past
those checks and waits for a block (`WriteBlock`, `WriteTimesOut`). `drain` is where
`download_complete_task` is. The pipeline's own task plays (`PlayBlock`) and calls
the event handler (`PipelineRuns`, `PipelineFails`); `restarts` counts the tasks that
`audio_playback_pipeline_restart` runs in. The caller of `audio_playback_start` writes
`started` in a step of its own (`MarkStarted`). `active` is the application's view of
the agent's session: `SleepAsked` is the user, the timer, or the loss of the link,
which also clears it; a wake-up of an inactive agent is put off (`pending`) until the
agent starts (`AgentStarts`). That a client reconnects by itself after its
DISCONNECTED event was lost is left to `Microphone` and `DeviceFSM`.

`PlaybackPromise` is the speaker as `DeviceFSM` sees it: it accepts and plays
blocks, and a request for a report (`Ask`, `Serve`) is answered (`Report`) once all
that had been accepted when the speaker turned to it was played, unless nothing
will be played any more. The mapping takes `fifo`, the download bit, `drain` and
`GivenUp` (the pipeline failed and no restart is due); `due` is a history variable
of both. `PromiseKept` says that `SpeechPlayback` implements it, liveness included.

### Microphone

Three tasks in a ring. The pipeline's task records (`Capture`), enqueues what the
front end heard (`EnqueueEvent`) and fills the FIFO (`WriteFrame`); the microphone
task reads a frame, looks at the device's wish and at the application's view of the
agent (`MicReads`, `MicChooses`), offers the frame to the agent, which looks at its own
`started` flag (`AgentChecks`), and has it sent (`FrameSent`, `DummySent`, `SendFails`), or
complains by a sleep event (`MicComplains`). The device task takes events and enqueues
some for itself. None of these waits has a time-out: what a task still has to
enqueue, or to connect, is in `todo[t]`.

The session and the application's view of it are two variables. `started` is
`agent->started`; `SessionEnds` clears it and may post the DISCONNECTED event or lose it.
`active` is `app_agent_is_active`, which changes only where the code writes it: in the
handlers of the agent's events (`HearsStart`, `HearsDisconnected`, `HearsConnected`) and
in `app_agent_connect` (`TaskConnects`). So an application may take a dead session for
an active one for ever, and a late acknowledgement (`acks`) for a new one. The
device's handlers are reduced to what they do to the microphone and the queue.
`late` counts the frames sent since the device stopped listening.

### LocalTools

The list is one of nodes with a name, a next and a state (`new`, `live`, `freed`).
`esp_agent_register_local_tool` is `Call`, `Search` per node, `Link`, `Publish`;
`_unregister_local_tool` is `Call`, `Search`, `Unlink`, `Free`; the message task walks
with `WalkNext`. A request has a status of its own from `ServerRequests` to `sent` or
a reason it was given up for; `ReplyCheck` and `ReplyPush` are the two steps of queueing
a response. `SessionChanges` is the end of a session, with or without the purge of
the send queue by `esp_agent_stop`, or a new one. `DeinitStop` and `DeinitFree` are
`esp_agent_deinit`. A step on freed memory sets `corrupt` and ends the behaviour. `absent` and `overlapped` are history
variables of `FindsRegistered`.

### DeviceList

`mgr` is the device manager's task in its fetch: `FetchSize`, `FetchList`, one
`FetchMetadata` per device, any of which may fail, then `Publish` under the mutex.
The group changes in between (`GroupChanges`), and so do the strings of the handle
that the requests are made with (`HandleChanges`). A tool task frees the former
copy, clones the list under the mutex device by device, sets the static pointer
and walks whatever it points to by then. A copy is identified with the tool task
that made it. `groups` and `lists` are history variables.

## What is checked

| Run | Properties | Shows |
|---|---|---|
| `AgentSession` | `TypeOK`, `CredentialsCurrent`, `LinkFlagsTruthful` | over every reconfiguration, restart, failed token fetch, lost link and stop by the event task, a started agent between calls runs under its present agent id and token; `connected` and an awaited acknowledgement belong to an open connection that was sent its handshake |
| `AgentSessionLiveness` | `ApiCallsReturn`, `ClientTaskProgresses` | with every queue of size one every public call returns and the client task is never stuck in its handler |
| `DeviceFSM` | `TypeOK`, `ListeningTimesOut`, `MicStopsWithSession`, `PendingWakeAnswered` | every way to wake the device and to put it to sleep: the microphone is stopped after a lost session; a wake-up that waits for the agent is released once it starts; a listening device has its time-out armed or on the way |
| `DeviceFSMDialogue` | `ListeningTimesOut`, `SpeakingEnds` | wake words, touches, responses and reminders: the same of a device that also speaks; a speaking device, whose sleep timer is stopped, waits for something that will come |
| `DeviceFSM_SleepTakesEffect` | violation | see below |
| `AgentSetup` | `TypeOK`, `Persisted`, `UpdatesReachAgent` | without the RainMaker device: memory and NVS agree between calls, across failed saves and resets; once no update waits, the agent is not left with an old id |
| `AgentSetupLiveness` | `SetupCompletes`, `UpdateArrives` | without the RainMaker device and with an event queue of size one: START comes once all is there; an agent id that was put in place reaches the agent or is replaced |
| `MatterController` | `TypeOK`, `ChainMatches`, `HandleConsistent` | the stored certificate fits the stored key and the node id in use; no token or fabric id outlives the parameter it was obtained with, except where a write whose report failed left it |
| `SpeechPlayback` | `TypeOK`, `StartedFollowsPipeline`, `PromiseKept`, `ResponseFinishes` | the `started` flag follows the pipeline through failures and restarts; the speaker implements `PlaybackPromise`; a complete response leaves the device speaking no longer, whatever touches and later responses come between |
| `Microphone` | `TypeOK`, `AtMostOneLateFrame`, `FrontEndGoesOn`, `OrphanedMicStops` | one frame at most is sent after the device stopped listening; the front end is never held up for good; a microphone left on without a session turns itself off, also when the application never hears that it ended |
| `LocalTools` | `TypeOK`, `FindsRegistered`, `RequestsSettle` | a registered tool is found whatever else is registered and unregistered meanwhile; every request is settled, over full queues and sessions that end |
| `DeviceList` | `TypeOK`, `CopiesAreWhole`, `AnswersOneList`, `PublishesOneGroup`, `CallsReturn` | what is published is the group of one moment; what a tool keeps and answers is one whole published list; every caller and every tool returns |

Run one with `tlc -config <run>.cfg MC<module>` (`Microphone` and `DeviceList` are run
themselves). The other configurations reproduce the further disagreements below.

Some of these properties say less than one would wish, because the code keeps
less. `CredentialsCurrent` and `Persisted` are about one application, respectively
one setter: with two the code loses them (`AgentSetup_Persisted.cfg`).
`SpeakingEnds` and `MicStopsWithSession` exclude a broken stream of messages
(`broken = {}`): one that lost a message or event, or handled one of an earlier
connection. `UpdatesReachAgent` says that no old id stays once no update waits, and excuses an id
that only the start task can have given (`outdated`, the disagreement
`NewAgentIsUsed`); that updates do not wait for ever is `UpdateArrives`, which holds
without the RainMaker device only: with it the first update ends the event loop's
task, and every later one stays in the queue. `SetupCompletes` is limited alike.
`HandleConsistent` is about updates that ran one at a time, and excuses the one value
a failed report left behind, until it is dropped (`DerivedInvalidated` is the strict
form, which the code does not keep). `PendingWakeAnswered` speaks of the state in
which the agent started; an agent that starts before the wake-up is remembered is
`SessionIsSeen` below. `Persisted` allows a token that was dropped because it could
not be saved; that its flag stays raised is `StartHasCredentials` below. The type
invariants bound the queues and say nothing of what a full one loses.
`ResponseFinishes` ends where a restart of the pipeline failed, `FrontEndGoesOn` and
`OrphanedMicStops` where the device task waits for itself, `OrphanedMicStops` also where
no pipeline records and so no frame can be refused. `FindsRegistered` is about
changes of the list that never overlapped, and both `LocalTools` and `DeviceList` stop
where freed memory is used (see below). `AnswersOneList` says that an answer is *some* published
list, not the latest: of two overlapping tool tasks one may walk the copy the
other made earlier, and answer with a list that was replaced before its own call
began.

## Bounds and why they are enough

* *Queues*: 35, 10, 10 and 20 entries in the code, one or two in the models.
  What a full queue does (wait, time out, drop) happens at any size, and with
  size one it happens after one message instead of many. Two entries in the
  device queue are what it takes for two events to be handled in either order;
  `DeviceFSMDialogue` has one because `out` already holds up to two more events
  per task; a message queue of two is what `MicStopsAfterReconnect` needs. The FIFOs of `SpeechPlayback` and `Microphone` hold two blocks: one that is
  played or read while another waits, and a full one.
* *Values*: two agent ids, tokens, groups and keys, where a property compares a
  present with a former value; one where it does not. The modules only compare
  values for equality, hence the symmetry (safety runs only).
* *Callers*: one application and the event task in `AgentSession`; two setters in
  `AgentSetupLiveness`; three tasks of which `MaxOverlap` = 2 run an update at
  a time in `MatterController`. That `LinkFlagsTruthful`, `UpdatesReachAgent` and
  `ChainMatches` hold for any number is proved.
* *Inputs* of `DeviceFSM`: each run chooses those its properties are about (see
  `MCDeviceFSM`); together the runs fire every action.
* The state constraint `Unbroken` of `DeviceFSMDialogue` stops the exploration once a
  message or event was lost or came late. For `SpeakingEnds`, which assumes it,
  nothing is lost; `ListeningTimesOut` is checked up to that point (and beyond it in
  `DeviceFSM`). The constraint is on no temporal run.
* *How often*: the bounds in guards are `MaxOverlap` of `MatterController`, `Budget` of
  `SpeechPlayback` (two responses, three blocks, one act of the user, one failure of
  the pipeline) and of `LocalTools` (three calls, one change of the session),
  `NodeCount` and `RequestCount` = 2 there, `MaxFailures` = 1 of `MatterController` (one
  write whose report fails, between any others), `OtherCount` = 2 in `Microphone` (the
  end of a session and one more, or one event of a timer, a touch or a response:
  wake words, connections, complaints and what the handlers enqueue are not
  counted), `Changes` = 2 and the sets of
  callers and tool tasks in `DeviceList`: two changes of the group around one fetch,
  two refreshes, two tools at once after an earlier one. Each is enough for one
  fault in the middle of two overlapping operations; that the safety properties
  hold for any bounds is proved. (`DeviceList` also passes with a third device that
  has no metadata, in three minutes and 1.8 million states.)

Deadlock is checked except in the `DeviceFSM` and `Microphone` runs, where the system
really stops when the device task waits for room in its own queue
(`SleepTakesEffect`), and in `SpeechPlayback`, `LocalTools` and `DeviceList`, whose
behaviours end when their budget is spent (or at a use of freed memory).

## Fairness

* `AgentSession!Fairness`: weak fairness for each caller's next step, the client
  task, the three consumers and a sender's push: FreeRTOS schedules every ready
  task, and their blocking calls have time-outs or are woken. Strong fairness for
  the push of the handshake, which competes with other senders: a queue wakes the
  tasks that wait for it in turn. Nothing obliges an application to call, nor the
  server to answer or to hang up.
* `AgentSetup!Fairness`: the same, strong for the setters and `start_task`, which
  wait for room in the event queue.
* `DeviceFSM!Fairness` is used by `SleepTakesEffect` only: the firmware's tasks are
  scheduled, users and the server do as they like; the violation is a state in
  which the device task waits for itself, which no fairness resolves.
* `SpeechPlayback!Fairness`: each task, the pipeline's own included, takes its next
  step; nothing obliges the server, the user or a failure. That a pipeline asked to
  run reports RUNNING, unless it fails, is what the media library promises.
  `PlaybackPromise!FairSpec` asks for a report only of a speaker that is not broken.
* `Microphone!Fairness`: weak fairness of the three tasks; what the device task does
  includes `esp_agent_start`, whose requests have time-outs. A task that waits for room
  in the device queue is not promised any: that it gets some follows. Of the event
  loop nothing is asked: the application may never hear of the end of a session.
* `LocalTools!Fairness`: the message task, the send task and the tool tasks run; the
  tools return. `DeviceList!Fairness`: the device manager, its callers and the tool
  tasks run, and a request to the cloud ends (the HTTP client has time-outs). Both
  are cut short where freed memory is used. `ReplyPush` and `UpdateDeviceList` compete for
  a queue that only grows shorter while they wait; weak fairness is enough at
  these bounds.

## What is proved

Every theorem holds for all values of the constants allowed by the named
assumptions (the null pointer is no value, queue sizes are positive, the event
task is no application, the sets of tasks are those of the code). `tlapm
<Module>Proofs.tla` checks the proofs.

| Theorem | States | By |
|---|---|---|
| `TypeCorrect`, `SetupTypeCorrect`, `MatterTypeCorrect`, `SpeechTypeCorrect`, `MicTypeCorrect`, `ListTypeCorrect`, `DeviceTypeCorrect`, `ToolsTypeCorrect` | `[]TypeOK` | step by step; queue lemmas (`Post`, `Dispatch`, `UpdateDeviceList`) once; the latter ones as a part of their invariants |
| `LinkFlagsTheorem` | `[]LinkFlagsTruthful`, any number of applications and senders | `LinkInv` |
| `CredentialsTheorem` | `[]CredentialsCurrent`, one application | `CredInv` |
| `PersistedTheorem` | `[]Persisted`, one setter | `PersistedInv` |
| `UpdatesTheorem` | `[]UpdatesReachAgent`, any setters, with or without the RainMaker device | `UpdatesInv` |
| `ChainTheorem` | `[]ChainMatches`, any overlap of updates | `ChainInv` |
| `HandleTheorem` | `[]HandleConsistent`, any number of failed reports | `HandleInv` |
| `ListeningTheorem` | `[]ListeningTimesOut`, any inputs and queues, also when messages are lost | `DeviceInv` |
| `WakeTheorem` | `[]PendingWakeAnswered` | `DeviceInv` |
| `MicTheorem` | `[]MicStopsWithSession`, any inputs and queues | `StreamInv` |
| `SpeakingTheorem` | `[]SpeakingEnds`, any inputs and queues | `StreamInv` |
| `StartedTheorem` | `StartedFollowsPipeline` | `SpeechInv` |
| `PromiseTheorem` | `Promise!Spec`: the safety part of the refinement | `SpeechInv`, one lemma per mapped step |
| `LateFrameTheorem` | `[]AtMostOneLateFrame`, any FIFO and queue | `MicInv` |
| `OneGroupTheorem` | `[]PublishesOneGroup`, any devices and changes | `ListInv` |
| `CopiesTheorem` | `[]CopiesAreWhole`, any number of tool tasks | `ListInv` |
| `AnswersTheorem` | `[]AnswersOneList`, any lists and tool tasks | `WalkInv`, `PresentInv` |
| `FindsTheorem` | `FindsRegistered`, any tools, nodes, requests and calls | `CallInv`, `ListInv` of `LocalToolsProofs` |

None of these invariants is inductive as it stands; what each strengthening adds:

* `LinkInv`: between queueing the handshake and awaiting its acknowledgement
  (`ws = "confirming"`) the handshake was queued on this connection.
* `CredInv`: the access token is that of the refresh token; the event task only ever
  stops the agent; an application that starts it finds it stopped, and until it
  has reset a changed identity `started` alone means nothing.
* `PersistedInv`: what a call has stored and has yet to store at each of its steps.
* `UpdatesInv`: an agent with an old id has the update in a call, the queue or the
  handler; a handler whose pointer was freed has another update behind it; a pointer
  that was not freed leads to the current id.
* `ChainInv`: a task at a step inside the set-up holds the lock, so it is the only
  one; while it issues a chain none is stored; the node id it sent is the one in
  the handle; before the certificate is stored the key stored is its own.
* `HandleInv`: while no two updates ran at a time, the request under way carries the
  present user token or group, and the access token is theirs, freed, null or the
  buffer of the request under way. A value listed in `stale` is excused, and what is
  obtained with a stale access token belongs to the present group all the same.
* `DeviceInv` (the device alone, whatever its agent does): the microphone is off
  exactly while the device sleeps; a task that is about to enqueue something has
  nothing else to enqueue; the boot task has connected before the system counts as
  initialized, so only the device task can be inside `app_agent_connect` with a
  wake-up pending, and there it handles nothing.
* `StreamInv` (while `broken = {}`): the client that is down has left nothing behind
  its DISCONNECTED, and a connection is announced right behind the end of the one
  before; a device that is awake without a session has its sleep on the way;
  wherever the start of a response waits (message queue, event loop, the loop's
  hands, device queue), what ends the response is behind it, there or further back.
* `SpeechInv`: a restart is due only of a failed pipeline, and only one; before the
  caller of `audio_playback_start` has run the pipeline nothing of it moves; after the
  poll found the FIFO empty nothing is due any more.
* `MicInv`: once the device has stopped listening, a frame in the microphone task's
  hands is the only one that can still go, and after it was counted none is.
* `CallInv`, `ListInv` (of `LocalToolsProofs`, while the agent is up, no calls
  overlapped and no freed memory was used): nodes are numbered in the order of
  their allocation, and each new one becomes the head, so a listed node's next is
  the greatest listed node below it. That says the list reaches every
  registered tool without a recursive definition. A call has searched the nodes
  above the one it is at; a node on its way in or out is not listed, but a walk
  that stands on it still goes on at a listed one; the tool looked for is at or
  below the walk.
* `WalkInv`, `PresentInv` (of `DeviceListProofs`): an answer under construction holds the
  devices with metadata before the place the walk has reached, in the copy it
  walks, which belongs to a task that has finished copying. `AreNamed` states that as
  an order-preserving map onto their places, because a filter of a sequence is
  defined by recursion.
* `ListInv`: the list being fetched is the reverse of a group there was, in whole;
  whoever is at a step inside the critical section holds the mutex, so the published
  list stands still; the copy being made is the part of it already read; a copy
  that the pointer or a walk is at was made.

Every safety property of the passing runs is proved. Only model-checked are the
liveness properties (`ApiCallsReturn`, `ClientTaskProgresses`, `SetupCompletes`, `UpdateArrives`,
`ResponseFinishes`, `FrontEndGoesOn`, `OrphanedMicStops`, `RequestsSettle`, `CallsReturn`, and
the liveness of `PlaybackPromise` in `PromiseKept`): fairness and ENABLED are outside
the prover's reach. So are, by their nature, the violations. No module declares a RECURSIVE operator, and nothing proved
rests on induction over data.

## Disagreements with the documentation

One is a finding of `PROJECT.json` with a run of its own: `SleepTakesEffect`. The
device task enqueues for itself without a time-out (`app_device.c:387`); with its
queue full it waits for ever, and the device neither sleeps after 15 seconds nor
does anything else (`voice_chat/setup_guide.md:41`).

Further disagreements, each reproduced by the configuration
`<Module>_<Property>.cfg`, or with the property's name alone left in
`DeviceFSM_Waking.cfg` (`StartedHasSession`, `SessionIsSeen`) or `DeviceFSM_Talking.cfg`
(`SpeakingEndsAfterReconnect`, `WokenByUser`, `TimeoutIsCurrent`, `ResponseIsPlayed`):

| Property | What the code does |
|---|---|
| `AgentSession!HandshakeOnReconnect` | an acknowledgement of the previous connection, still in the message queue, marks the handshake of the next one done: none is sent (`esp_agent_websocket.c:430`) |
| `AgentSession!StopDisconnects` | `esp_agent_stop` during the connection attempt resets the flags; the client connects afterwards (`esp_agent_core.h:95`) |
| `AgentSession!NewConversationForgets` | a late acknowledgement restores the conversation id between the stop and the restart (`esp_agent_core.h:103`) |
| `AgentSession!StartHandshakes` | the transport opens before `started` is set: the handshake is refused and not retried (`esp_agent_core.h:85`) |
| `AgentSession!StartedClientRuns` | the attempt fails before `started` is set: the agent counts as started without a client |
| `AgentSession!RestartFailureReported` | `esp_agent_set_refresh_token` ignores that the restart failed (`esp_agent_core.h:134`) |
| `DeviceFSM!StartedHasSession` | an acknowledgement handled after the link was lost: the application believes in a session there is not |
| `DeviceFSM!SessionIsSeen` | `CONNECTING`, written late, hides `STARTED` |
| `DeviceFSM!MicStopsAfterReconnect` | an acknowledgement of an earlier connection passes for a session; an error then stops the agent during its next attempt to connect, no DISCONNECTED comes, and the microphone stays on (`app_agent.c:52`) |
| `DeviceFSM!SpeakingEndsAfterReconnect` | a speech start of an earlier connection leaves the device speaking |
| `DeviceFSM!WokenByUser` | the end of a playback wakes a sleeping device |
| `DeviceFSM!TimeoutIsCurrent` | a time-out behind a wake-up in the queue ends the new wake period |
| `DeviceFSM!ReminderChimes` | a reminder during a response that is cut off is never chimed |
| `DeviceFSM!ResponseIsPlayed` | the drain of one response drops the speech of the next |
| `AgentSetup!SetupCompletes` (with the RainMaker device) | the handler of an agent id update ends with `vTaskDelete(NULL)` (`setup_rainmaker.c:68`) and so deletes the default event loop's task: a START posted later is never delivered (`agent_setup.h:19`), nor any later update of the agent id: `PROPERTY UpdateArrives` in the same configuration fails alike (`agent_setup.h:84`) |
| `AgentSetup!StartHasCredentials` | a token that could not be saved stays flagged as set |
| `AgentSetup!NewAgentIsUsed` | the start task sets the id it read before the update, from freed memory |
| `AgentSetup!Persisted` (two setters) | memory keeps one agent id, NVS the other |
| `MatterController!DerivedInvalidated` | a report that fails returns from the write before the access token or the fabric id is dropped (`app_matter_controller.cpp:89`, `:133`, `:160`): the new user token stands beside the access token of the old one, the new group beside the old fabric, and no update runs (the comments at `:91`, `:135`) |
| `MatterController!NocBitReported` | after a reset between storing the chain and the report, the controller runs with a stored chain and reports that none is installed (`SPEC.md:69`) |
| `MatterController!ChainOfOneGroup` | the root certificate stored for one group is used for a chain in another |
| `SpeechPlayback!ResponseAlwaysFinishes` | the restart of the pipeline is tried once and its failure only logged: the device speaks for ever (`setup_guide.md:40`) |
| `SpeechPlayback!HeardFromTheStart` | speech overtakes the start of its response and is dropped (`setup_guide.md:37`) |
| `LocalTools!NothingFreedIsUsed` | a node is unregistered under the walk of the message task or of another call; the agent is freed under a tool task (`esp_agent_tools.h:76`, `esp_agent_core.h:78`) |
| `LocalTools!FindsWhatAnyRegistered` | two registrations at once: the later head forgets the other's node (`esp_agent_tools.h:66`) |
| `DeviceList!FailedFetchReported` | a list that cannot be parsed, also one that grew since its size was asked for, counts as an empty list and replaces the former (`controller_rest_apis.h:140`) |
| `DeviceList!NothingFreedIsUsed` | a token is freed while a fetch uses it; two tool tasks free or walk the same copy |

Two more need no run to see. `audio_recorder_start` returns ESP_OK also when the
pipeline could not be started (`audio_recorder.c:379`, `audio_recorder.h:64`; `StartRecorder`
may end in `failed`). `esp_agent_execute_tool` does not look at the result of `xTaskCreate`
(`esp_agent_tools.c:111`; the status `taskless` of a request).

`SPEC.md:51` of the Matter controller also describes the command UpdateNOC, which
the code accepts and does nothing for (`CommandUpdateNoc`).

## What is not modelled

* *Agent session*: failed allocations; the reassembly of fragments in
  `message_buffer` and its reset; the free and the copy of the conversation id are
  one step; `esp_agent_init`; text and transcript events.
* *Agent messages, authentication, REST client*: the text of requests and replies,
  TLS, HTTP. What a request is given and how it ends is modelled. The controller's
  own node, which the parser skips, is left out of the group.
* *Local tools*: parameters and results, and what a tool does.
* *Audio*: deinit; chimes and their player; volume; the wake and sleep state inside
  the front end; the drivers (`audio_common.c`).
* *Device*: display texts, the media of the chimes, volume, a failing start or
  end of the conversation state after a successful send. In `SpeechPlayback` and
  `Microphone` the device is reduced to what they depend on.
* *Common tools*: parsing of arguments; a failed allocation in a handler.
* *Touch*: the long press and its factory reset.
* *Setup*: provisioning, the factory reset, RainMaker parameters other than the
  credentials.
* *Matter controller*: a parameter's update is one step (the code frees, copies and
  assigns in it); the report of the node id;
  `control_device` and `set_emotion`, one call into a library each; the commands of the
  Thread border router.
* *Display, console, boards*: drivers, parsing and constants.

## Plan

1. *Done*: the modules and proofs above. Every safety property of a passing run is
   a theorem.
2. `AgentPromise`, an abstract specification of what the agent promises the
   application (a session is down, coming up or up; events tell of each change),
   and `AgentSession` shown to implement it, its safety part by proof.
   `DeviceFSM` uses an agent of this shape.
3. The fragments of a message in `message_buffer`, `esp_agent_init` with its
   failures, the long press against the timer of the factory reset, the volume
   (NVS, codec, RainMaker and memory, written by three tasks).
