-------------------------- MODULE SpeechPlayback --------------------------
(***************************************************************************)
(* A spoken response on its way to the speaker (audio_playback.c and the   *)
(* speaker's half of app_audio.c).  The start and the end of a response    *)
(* are text messages: message queue, agent's event loop, device queue.     *)
(* Its speech goes straight to the event loop, which writes it into a      *)
(* FIFO that the task of a media pipeline plays.  A task of its own waits  *)
(* for the FIFO to be empty and reports that the playback is complete.     *)
(* When the pipeline fails, its event handler has it restarted.            *)
(*                                                                         *)
(* A block of speech is not told from another: the FIFO is a number.  The  *)
(* queues of text messages and events are not filled here (DeviceFSM has   *)
(* that); the pipeline's library is external.                              *)
(***************************************************************************)
EXTENDS Naturals, Sequences

CONSTANTS
    FifoBlocks,  \* AUDIO_PLAYBACK_FIFO_BLOCK_COUNT, 5 in the code
    Budget       \* how many responses, blocks, acts of users and failures there are

ASSUME FifoAssumption == FifoBlocks \in Nat \ {0}
ASSUME BudgetAssumption ==
    Budget \in [{"responses", "blocks", "users", "failures"} -> Nat]

VARIABLES
    left,        \* bound: what remains of Budget
    streaming,   \* the server is between the start and the end of a response
    inbox, evq, devq,                \* message queue, event loop, device queue
    writing,     \* the event loop's task is in audio_playback_write, past its check
    active,      \* app_agent_is_active
    pending,     \* g_device_data.wakeup_start_pending
    state,       \* g_device_data.state
    speakerActive, playbackComplete, \* g_app_audio_data
    downloadBit, \* AUDIO_DOWNLOAD_COMPLETE_BIT
    drain,       \* where download_complete_task is
    due,         \* history: blocks to be played before its next report
    fifo,        \* blocks in audio_playback_t.fifo
    pipeline,    \* the pipeline and its task
    started,     \* audio_playback_t.started
    starter,     \* where app_audio_start is in audio_playback_start
    restarts     \* tasks that are to restart the pipeline

stream  == <<streaming, inbox>>
agent   == <<active, pending>>
device  == <<agent, state, speakerActive>>
report  == <<downloadBit, drain, due>>
player  == <<fifo, pipeline, started, starter, restarts>>
vars    == <<left, stream, evq, devq, writing, device, playbackComplete, report, player>>

Messages     == {"SPEECH_START", "SPEECH_END"}
AgentEvents  == Messages \cup {"SPEECH"}
DeviceEvents == Messages \cup {"PLAYBACK_COMPLETE", "WAKEUP", "SLEEP"}

\* Init is the application after app_audio_init, woken by its user.
Init ==
    /\ left = Budget
    /\ streaming = FALSE /\ inbox = <<>> /\ evq = <<>> /\ devq = <<>>
    /\ writing = FALSE
    /\ active = TRUE /\ pending = FALSE
    /\ state = "LISTENING" /\ speakerActive = FALSE /\ playbackComplete = FALSE
    /\ downloadBit = FALSE /\ drain = "wait" /\ due = 0
    /\ fifo = 0 /\ pipeline = "idle" /\ started = FALSE
    /\ starter = "start" /\ restarts = 0

Spend(what) == left[what] > 0 /\ left' = [left EXCEPT ![what] = @ - 1]

-----------------------------------------------------------------------------
(* The agent: the server's stream, the message task, the event loop's task *)

ServerStarts ==
    /\ ~streaming /\ Spend("responses")
    /\ streaming' = TRUE /\ inbox' = Append(inbox, "SPEECH_START")
    /\ UNCHANGED <<evq, devq, writing, device, playbackComplete, report, player>>

ServerSpeaks ==
    /\ streaming /\ Spend("blocks")
    /\ evq' = Append(evq, "SPEECH")
    /\ UNCHANGED <<stream, devq, writing, device, playbackComplete, report, player>>

ServerEnds ==
    /\ streaming
    /\ streaming' = FALSE /\ inbox' = Append(inbox, "SPEECH_END")
    /\ UNCHANGED <<left, evq, devq, writing, device, playbackComplete, report, player>>

MessageTask ==
    /\ inbox # <<>>
    /\ evq' = Append(evq, Head(inbox)) /\ inbox' = Tail(inbox)
    /\ UNCHANGED <<left, streaming, devq, writing, device, playbackComplete, report, player>>

\* The event loop's task takes an event, unless it is still writing.
LoopTakes(E) ==
    /\ ~writing /\ evq # <<>> /\ Head(evq) \in E
    /\ evq' = Tail(evq)

OnSpeechEvent ==
    /\ LoopTakes(Messages)
    /\ devq' = Append(devq, Head(evq))
    /\ UNCHANGED <<left, stream, writing, device, playbackComplete, report, player>>

\* app_audio_play_speech drops speech without an active speaker and after a
\* playback, audio_playback_write while the playback is not started.
OnSpeech ==
    /\ LoopTakes({"SPEECH"})
    /\ writing' = (speakerActive /\ ~playbackComplete /\ started)
    /\ UNCHANGED <<left, stream, devq, device, playbackComplete, report, player>>

\* Faulty variant of WriteBlock: the capacity of the FIFO is not checked.
WriteBlockUnchecked ==
    /\ writing /\ writing' = FALSE
    /\ fifo' = fifo + 1
    /\ UNCHANGED <<left, stream, evq, devq, device, playbackComplete, report, pipeline, started, starter, restarts>>

WriteBlock ==
    /\ writing /\ fifo < FifoBlocks
    /\ fifo' = fifo + 1 /\ writing' = FALSE
    /\ UNCHANGED <<left, stream, evq, devq, device, playbackComplete, report, pipeline, started, starter, restarts>>

\* No block of the FIFO becomes free within 100 ms: the speech is dropped.
WriteTimesOut ==
    /\ writing /\ fifo = FifoBlocks
    /\ writing' = FALSE
    /\ UNCHANGED <<left, stream, evq, devq, device, playbackComplete, report, player>>

-----------------------------------------------------------------------------
(* The device task *)

DeviceTakes(e) == devq # <<>> /\ Head(devq) = e

DeviceSpeechStart ==
    /\ DeviceTakes("SPEECH_START") /\ devq' = Tail(devq)
    /\ IF state = "IDLE"
       THEN UNCHANGED <<device, playbackComplete>>
       ELSE /\ state' = "SPEAKING" /\ speakerActive' = TRUE /\ playbackComplete' = FALSE
            /\ UNCHANGED agent
    /\ UNCHANGED <<left, stream, evq, writing, report, player>>

\* app_audio_speaker_download_complete, for a device that speaks.
DeviceSpeechEnd ==
    /\ DeviceTakes("SPEECH_END") /\ devq' = Tail(devq)
    /\ downloadBit' = (downloadBit \/ state = "SPEAKING")
    /\ UNCHANGED <<left, stream, evq, writing, device, playbackComplete, drain, due, player>>

DevicePlaybackComplete ==
    /\ DeviceTakes("PLAYBACK_COMPLETE")
    /\ devq' = Append(Tail(devq), "WAKEUP")
    /\ UNCHANGED <<left, stream, evq, writing, device, playbackComplete, report, player>>

\* Whatever the device is doing, it connects an agent that is not active.
DeviceWakeup ==
    /\ DeviceTakes("WAKEUP") /\ devq' = Tail(devq)
    /\ IF active
       THEN state' = "LISTENING" /\ speakerActive' = FALSE /\ UNCHANGED pending
       ELSE pending' = TRUE /\ UNCHANGED <<state, speakerActive>>
    /\ UNCHANGED <<active, left, stream, evq, writing, playbackComplete, report, player>>

\* The speaker stays as it is.
DeviceSleep ==
    /\ DeviceTakes("SLEEP") /\ devq' = Tail(devq)
    /\ state' = "IDLE"
    /\ UNCHANGED <<left, agent, speakerActive, stream, evq, writing, playbackComplete, report, player>>

\* A touch cuts the response short.
DeviceInterrupted ==
    /\ state = "SPEAKING" /\ Spend("users")
    /\ speakerActive' = FALSE
    /\ devq' = Append(devq, "SPEECH_END")
    /\ UNCHANGED <<agent, state, stream, evq, writing, playbackComplete, report, player>>

\* The user or the timer sends the device to sleep, or the application hears that
\* the link is lost, and does the same.
SleepAsked ==
    /\ Spend("users")
    /\ active' \in {active, FALSE} /\ devq' = Append(devq, "SLEEP")
    /\ UNCHANGED <<pending, state, speakerActive, stream, evq, writing, playbackComplete, report, player>>

\* The agent starts again, or never does: the device repeats the wake-up it had to
\* put off.
AgentStarts ==
    /\ ~active /\ pending
    /\ active' = TRUE /\ pending' = FALSE /\ devq' = Append(devq, "WAKEUP")
    /\ UNCHANGED <<left, state, speakerActive, stream, evq, writing, playbackComplete, report, player>>

-----------------------------------------------------------------------------
(* download_complete_task *)

TakeDownloadBit ==
    /\ downloadBit /\ drain = "wait"
    /\ downloadBit' = FALSE /\ drain' = "poll" /\ due' = fifo
    /\ UNCHANGED <<left, stream, evq, devq, writing, device, playbackComplete, player>>

\* Faulty variant of FifoIsEmpty: a block that is left is not waited for.
FifoIsAlmostEmpty ==
    /\ drain = "poll" /\ fifo <= 1
    /\ drain' = "settle"
    /\ UNCHANGED <<left, stream, evq, devq, writing, device, playbackComplete, downloadBit, due, player>>

\* The loop over audio_playback_remaining_bytes ends.
FifoIsEmpty ==
    /\ drain = "poll" /\ fifo = 0
    /\ drain' = "settle"
    /\ UNCHANGED <<left, stream, evq, devq, writing, device, playbackComplete, downloadBit, due, player>>

SetPlaybackComplete ==
    /\ drain = "settle"
    /\ drain' = "tell" /\ playbackComplete' = TRUE
    /\ UNCHANGED <<left, stream, evq, devq, writing, device, downloadBit, due, player>>

\* Faulty variant of ReportComplete: a device whose next response has begun is not told.
ReportCompleteUnlessSpeaking ==
    /\ drain = "tell" /\ drain' = "wait"
    /\ devq' = IF playbackComplete THEN Append(devq, "PLAYBACK_COMPLETE") ELSE devq
    /\ UNCHANGED <<left, stream, evq, writing, device, playbackComplete, downloadBit, due, player>>

ReportComplete ==
    /\ drain = "tell" /\ drain' = "wait"
    /\ devq' = Append(devq, "PLAYBACK_COMPLETE")
    /\ UNCHANGED <<left, stream, evq, writing, device, playbackComplete, downloadBit, due, player>>

-----------------------------------------------------------------------------
(* audio_playback.c *)

\* audio_playback_start, up to the run of the pipeline, which may be refused.
StartPipeline ==
    /\ starter = "start" /\ ~started
    /\ \/ pipeline' = "opening" /\ starter' = "mark"
       \/ starter' = "failed" /\ UNCHANGED pipeline
    /\ UNCHANGED <<left, stream, evq, devq, writing, device, playbackComplete, report, fifo, started, restarts>>

\* The caller sets the flag whatever the pipeline has reported meanwhile.
MarkStarted ==
    /\ starter = "mark" /\ starter' = "done"
    /\ started' = TRUE
    /\ UNCHANGED <<left, stream, evq, devq, writing, device, playbackComplete, report, fifo, pipeline, restarts>>

\* Faulty variant of PipelineRuns: RUNNING does not set the flag again.
PipelineRunsUnmarked ==
    /\ pipeline = "opening" /\ pipeline' = "running"
    /\ UNCHANGED <<left, stream, evq, devq, writing, device, playbackComplete, report, fifo, started, starter, restarts>>

\* audio_playback_event_handler, RUNNING.
PipelineRuns ==
    /\ pipeline = "opening" /\ pipeline' = "running"
    /\ started' = TRUE
    /\ UNCHANGED <<left, stream, evq, devq, writing, device, playbackComplete, report, fifo, starter, restarts>>

\* audio_playback_event_handler, ERROR or STOPPED: a pipeline that counts as
\* started is to be restarted, another is left alone.
PipelineFails ==
    /\ pipeline \in {"opening", "running"}
    /\ Spend("failures")
    /\ pipeline' = "failed"
    /\ started' = FALSE
    /\ restarts' = IF started THEN restarts + 1 ELSE restarts
    /\ UNCHANGED <<stream, evq, devq, writing, device, playbackComplete, report, fifo, starter>>

\* audio_playback_pipeline_restart: a failure is only logged.
RestartPipeline ==
    /\ restarts > 0 /\ restarts' = restarts - 1
    /\ \/ pipeline' = "opening"
       \/ UNCHANGED pipeline
    /\ UNCHANGED <<left, stream, evq, devq, writing, device, playbackComplete, report, fifo, started, starter>>

\* playback_inport_acquire_read hands the oldest block to the pipeline.
PlayBlock ==
    /\ pipeline = "running" /\ fifo > 0
    /\ fifo' = fifo - 1
    /\ due' = IF due = 0 THEN 0 ELSE due - 1
    /\ UNCHANGED <<left, stream, evq, devq, writing, device, playbackComplete, downloadBit, drain,
                   pipeline, started, starter, restarts>>

-----------------------------------------------------------------------------
Server       == ServerStarts \/ ServerSpeaks \/ ServerEnds
EventLoop    == OnSpeechEvent \/ OnSpeech \/ WriteBlock \/ WriteTimesOut
DeviceTask   == DeviceSpeechStart \/ DeviceSpeechEnd \/ DevicePlaybackComplete \/ DeviceWakeup
                  \/ DeviceSleep
DownloadTask == TakeDownloadBit \/ FifoIsEmpty \/ SetPlaybackComplete \/ ReportComplete
Starter      == StartPipeline \/ MarkStarted

Next ==
    \/ Server \/ MessageTask \/ EventLoop
    \/ DeviceTask \/ DeviceInterrupted \/ SleepAsked \/ AgentStarts
    \/ DownloadTask
    \/ Starter \/ PipelineRuns \/ PipelineFails \/ RestartPipeline \/ PlayBlock

Spec == Init /\ [][Next]_vars

\* Every task of the firmware is scheduled, the pipeline's own included.
Fairness ==
    /\ WF_vars(MessageTask) /\ WF_vars(EventLoop) /\ WF_vars(DeviceTask) /\ WF_vars(DownloadTask)
    /\ WF_vars(Starter) /\ WF_vars(PipelineRuns) /\ WF_vars(RestartPipeline) /\ WF_vars(PlayBlock)

FairSpec == Spec /\ Fairness

-----------------------------------------------------------------------------
(* Properties *)

QueuesOK ==
    /\ streaming \in BOOLEAN /\ inbox \in Seq(Messages)
    /\ evq \in Seq(AgentEvents) /\ devq \in Seq(DeviceEvents)

AppOK ==
    /\ left \in [{"responses", "blocks", "users", "failures"} -> Nat]
    /\ writing \in BOOLEAN
    /\ active \in BOOLEAN /\ pending \in BOOLEAN
    /\ state \in {"IDLE", "LISTENING", "SPEAKING"}
    /\ speakerActive \in BOOLEAN /\ playbackComplete \in BOOLEAN
    /\ downloadBit \in BOOLEAN /\ drain \in {"wait", "poll", "settle", "tell"}

PlayerOK ==
    /\ fifo \in 0 .. FifoBlocks /\ due \in 0 .. fifo
    /\ pipeline \in {"idle", "opening", "running", "failed"} /\ started \in BOOLEAN
    /\ starter \in {"start", "mark", "done", "failed"}
    /\ restarts \in {0, 1}

TypeOK == QueuesOK /\ AppOK /\ PlayerOK

\* A pipeline that runs takes speech, and one that takes speech runs.
FlagIsTrue ==
    /\ pipeline = "running" => started
    /\ started => pipeline \in {"opening", "running"}

\* The started flag follows the pipeline through its failures and restarts,
\* once the caller of audio_playback_start has made its own, unlocked, write.
StartedFollowsPipeline == [][starter = "done" /\ FlagIsTrue => FlagIsTrue']_vars

\* The pipeline failed while it did not count as started, or its restart failed:
\* nothing in the code runs it again.
GivenUp == pipeline = "failed" /\ restarts = 0

\* The speaker keeps its promise to the device: the end of a playback is
\* reported once everything accepted before was played, and it is reported,
\* whatever touches, later responses and failures of the pipeline come between.
Promise == INSTANCE PlaybackPromise
    WITH Capacity <- FifoBlocks, unplayed <- fifo, asked <- downloadBit,
         serving <- drain # "wait", due <- due, broken <- GivenUp

PromiseKept == Promise!FairSpec

\* voice_chat/setup_guide.md:40, "When response playback stops, you can ask your next
\* question": once the response it speaks is complete, the device stops
\* speaking, unless the pipeline was given up.
ResponseFinishes == state = "SPEAKING" /\ downloadBit ~> state # "SPEAKING" \/ GivenUp

-----------------------------------------------------------------------------
(* What the documentation says and the code does not do *)

\* voice_chat/setup_guide.md:40, also when a restart of the pipeline fails.
ResponseAlwaysFinishes == state = "SPEAKING" /\ downloadBit ~> state # "SPEAKING"

\* voice_chat/setup_guide.md:37, "it will respond": the event loop drops no
\* speech of a response whose start the device has yet to handle.
HeardFromTheStart ==
    [][\A i \in DOMAIN devq :
        /\ devq[i] = "SPEECH_START" /\ state # "IDLE" /\ started
        /\ evq # <<>> /\ Head(evq) = "SPEECH" /\ evq' = Tail(evq)
        => writing']_vars

=============================================================================
