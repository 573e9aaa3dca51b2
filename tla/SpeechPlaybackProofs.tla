----------------------- MODULE SpeechPlaybackProofs -----------------------
(***************************************************************************)
(* Proofs about SpeechPlayback for every value of its constants.           *)
(*                                                                         *)
(*  - SpeechTypeCorrect: TypeOK is an invariant, from SpeechInv.           *)
(*  - StartedTheorem: the started flag follows the pipeline.               *)
(*  - PromiseTheorem: every behaviour is one of PlaybackPromise!Spec; that *)
(*    the promised reports come is a liveness property, left to TLC.       *)
(***************************************************************************)
EXTENDS SpeechPlayback, TLAPS

USE FifoAssumption, BudgetAssumption

\* TypeOK is not inductive: that there is at most one task to restart the
\* pipeline rests on the pipeline having failed while there is one, and that a
\* playback is reported after what was due on the empty FIFO seen before.
SpeechInv ==
    /\ TypeOK
    /\ starter = "start" => pipeline = "idle" /\ ~started
    /\ restarts # 0 => pipeline = "failed"
    /\ drain \in {"settle", "tell"} => due = 0

-----------------------------------------------------------------------------
LEMMA SpeechInit == Init => SpeechInv
<1> SUFFICES ASSUME Init PROVE SpeechInv
  OBVIOUS
<1> USE DEF Init
<1>1. QueuesOK
  <2>1. <<>> \in Seq(Messages)
    OBVIOUS
  <2>2. <<>> \in Seq(AgentEvents) /\ <<>> \in Seq(DeviceEvents)
    OBVIOUS
  <2> QED BY <2>1, <2>2 DEF QueuesOK
<1>2. AppOK
  BY DEF AppOK
<1>3. PlayerOK
  <2>1. 0 \in 0 .. FifoBlocks /\ 0 \in 0 .. 0
    OBVIOUS
  <2> QED BY <2>1 DEF PlayerOK
<1>4. (starter = "start" => pipeline = "idle" /\ ~started) /\ restarts = 0 /\ drain = "wait"
  OBVIOUS
<1> QED BY <1>1, <1>2, <1>3, <1>4 DEF SpeechInv, TypeOK

\* Spending what is left of the budget keeps its type.
LEMMA SpendTyped ==
    ASSUME AppOK, NEW what \in {"responses", "blocks", "users", "failures"}, Spend(what)
    PROVE  left' \in [{"responses", "blocks", "users", "failures"} -> Nat]
  BY DEF AppOK, Spend

\* A queue of messages or events takes one more and gives its head.
LEMMA QueueTyped ==
    ASSUME NEW S, NEW q \in Seq(S)
    PROVE  /\ \A e \in S : Append(q, e) \in Seq(S)
           /\ q # <<>> => Head(q) \in S /\ Tail(q) \in Seq(S)
  OBVIOUS

\* What the server, the message task and the event loop do to the queues.
LEMMA AgentQueues ==
    ASSUME QueuesOK, Server \/ MessageTask \/ OnSpeechEvent \/ OnSpeech
    PROVE  QueuesOK'
<1> USE DEF QueuesOK
<1>1. "SPEECH_START" \in Messages /\ "SPEECH_END" \in Messages /\ "SPEECH" \in AgentEvents
  BY DEF Messages, AgentEvents
<1>2. CASE Server
  <2>1. inbox' \in Seq(Messages)
    <3>1. Append(inbox, "SPEECH_START") \in Seq(Messages) /\ Append(inbox, "SPEECH_END") \in Seq(Messages)
      BY <1>1, QueueTyped
    <3> QED BY <1>2, <3>1 DEF Server, ServerStarts, ServerSpeaks, ServerEnds, stream
  <2>2. evq' \in Seq(AgentEvents)
    BY <1>1, <1>2, QueueTyped DEF Server, ServerStarts, ServerSpeaks, ServerEnds
  <2> QED BY <1>2, <2>1, <2>2 DEF Server, ServerStarts, ServerSpeaks, ServerEnds, stream
<1>3. CASE MessageTask
  <2>1. Head(inbox) \in AgentEvents /\ Tail(inbox) \in Seq(Messages)
    BY <1>3, QueueTyped DEF MessageTask, AgentEvents
  <2>2. Append(evq, Head(inbox)) \in Seq(AgentEvents)
    BY <2>1, QueueTyped
  <2> QED BY <1>3, <2>1, <2>2 DEF MessageTask
<1>4. CASE OnSpeechEvent
  <2>1. Head(evq) \in DeviceEvents /\ Tail(evq) \in Seq(AgentEvents)
    BY <1>4, QueueTyped DEF OnSpeechEvent, LoopTakes, DeviceEvents
  <2>2. Append(devq, Head(evq)) \in Seq(DeviceEvents)
    BY <2>1, QueueTyped
  <2> QED BY <1>4, <2>1, <2>2 DEF OnSpeechEvent, LoopTakes, stream
<1>5. CASE OnSpeech
  <2>1. Tail(evq) \in Seq(AgentEvents)
    BY <1>5, QueueTyped DEF OnSpeech, LoopTakes
  <2> QED BY <1>5, <2>1 DEF OnSpeech, LoopTakes, stream
<1> QED BY <1>2, <1>3, <1>4, <1>5

\* What the device task, the users and the download task do to the device's queue.
LEMMA DeviceQueue ==
    ASSUME QueuesOK, DeviceTask \/ DeviceInterrupted \/ SleepAsked \/ AgentStarts \/ DownloadTask
    PROVE  QueuesOK'
<1> USE DEF QueuesOK
<1>1. /\ "SPEECH_END" \in DeviceEvents /\ "PLAYBACK_COMPLETE" \in DeviceEvents /\ "WAKEUP" \in DeviceEvents
      /\ "SLEEP" \in DeviceEvents
  BY DEF Messages, DeviceEvents
<1>2. CASE DeviceTask
  <2>1. Tail(devq) \in Seq(DeviceEvents)
    BY <1>2, QueueTyped DEF DeviceTask, DeviceTakes, DeviceSpeechStart, DeviceSpeechEnd,
                            DevicePlaybackComplete, DeviceWakeup, DeviceSleep
  <2>2. Append(Tail(devq), "WAKEUP") \in Seq(DeviceEvents)
    BY <1>1, <2>1, QueueTyped
  <2> QED BY <1>2, <2>1, <2>2 DEF DeviceTask, DeviceSpeechStart, DeviceSpeechEnd,
                                  DevicePlaybackComplete, DeviceWakeup, DeviceSleep, stream
<1>3. CASE DeviceInterrupted \/ SleepAsked \/ AgentStarts
  <2>1. /\ Append(devq, "SPEECH_END") \in Seq(DeviceEvents)
        /\ Append(devq, "SLEEP") \in Seq(DeviceEvents)
        /\ Append(devq, "WAKEUP") \in Seq(DeviceEvents)
    BY <1>1, QueueTyped
  <2> QED BY <1>3, <2>1 DEF DeviceInterrupted, SleepAsked, AgentStarts, stream
<1>4. CASE DownloadTask
  <2>1. Append(devq, "PLAYBACK_COMPLETE") \in Seq(DeviceEvents)
    BY <1>1, QueueTyped
  <2> QED BY <1>4, <2>1 DEF DownloadTask, TakeDownloadBit, FifoIsEmpty, SetPlaybackComplete,
                            ReportComplete, stream
<1> QED BY <1>2, <1>3, <1>4

\* The agent, the device task and the users leave the player alone.
LEMMA UpstreamStep ==
    ASSUME SpeechInv,
           Server \/ MessageTask \/ OnSpeechEvent \/ OnSpeech \/ WriteTimesOut
             \/ DeviceTask \/ DeviceInterrupted \/ SleepAsked \/ AgentStarts
    PROVE  SpeechInv'
<1> USE DEF SpeechInv, TypeOK
<1>1. PlayerOK' /\ UNCHANGED <<starter, pipeline, started, restarts, drain, due>>
  BY DEF PlayerOK, Server, ServerStarts, ServerSpeaks, ServerEnds, MessageTask, OnSpeechEvent, OnSpeech,
         WriteTimesOut, DeviceTask, DeviceSpeechStart, DeviceSpeechEnd, DevicePlaybackComplete,
         DeviceWakeup, DeviceSleep, DeviceInterrupted, SleepAsked, AgentStarts, player, report
<1>2. QueuesOK'
  <2>1. CASE WriteTimesOut
    BY <2>1 DEF WriteTimesOut, QueuesOK, stream
  <2> QED BY <2>1, AgentQueues, DeviceQueue
<1>3. AppOK'
  <2>1. CASE Server \/ DeviceInterrupted \/ SleepAsked \/ AgentStarts
    <3>1. left' \in [{"responses", "blocks", "users", "failures"} -> Nat]
      BY <2>1, SpendTyped DEF Server, ServerStarts, ServerSpeaks, ServerEnds, DeviceInterrupted,
                              SleepAsked, AgentStarts, AppOK
    <3>2. active' \in BOOLEAN /\ pending' \in BOOLEAN
      BY <2>1, Zenon DEF Server, ServerStarts, ServerSpeaks, ServerEnds, DeviceInterrupted,
                         SleepAsked, AgentStarts, AppOK, device, agent
    <3> QED BY <2>1, <3>1, <3>2 DEF Server, ServerStarts, ServerSpeaks, ServerEnds, DeviceInterrupted,
                              SleepAsked, AgentStarts, AppOK, device, agent, report
  <2>2. CASE MessageTask \/ OnSpeechEvent \/ OnSpeech \/ WriteTimesOut
    BY <2>2 DEF MessageTask, OnSpeechEvent, OnSpeech, WriteTimesOut, AppOK, agent, device, report
  <2>3. CASE DeviceTask
    <3>1. CASE DeviceSpeechStart
      BY <3>1 DEF DeviceSpeechStart, AppOK, device, agent, report
    <3>2. CASE DeviceSpeechEnd
      BY <3>2 DEF DeviceSpeechEnd, AppOK, device, agent
    <3>3. CASE DevicePlaybackComplete
      BY <3>3 DEF DevicePlaybackComplete, AppOK, device, agent, report
    <3>4. CASE DeviceWakeup
      BY <3>4 DEF DeviceWakeup, AppOK, report
    <3>5. CASE DeviceSleep
      BY <3>5 DEF DeviceSleep, AppOK, agent, report
    <3> QED BY <2>3, <3>1, <3>2, <3>3, <3>4, <3>5 DEF DeviceTask
  <2> QED BY <2>1, <2>2, <2>3
<1> QED BY <1>1, <1>2, <1>3

\* Every step keeps the invariant.
LEMMA SpeechStep == SpeechInv /\ [Next]_vars => SpeechInv'
<1> SUFFICES ASSUME SpeechInv, [Next]_vars PROVE SpeechInv'
  OBVIOUS
<1> USE DEF SpeechInv, TypeOK, stream, agent, device, report, player
<1>1. CASE Server \/ MessageTask \/ OnSpeechEvent \/ OnSpeech \/ WriteTimesOut
             \/ DeviceTask \/ DeviceInterrupted \/ SleepAsked \/ AgentStarts
  BY <1>1, UpstreamStep
<1>2. CASE DownloadTask
  <2>1. PlayerOK' /\ (drain' \in {"settle", "tell"} => due' = 0)
    BY <1>2 DEF DownloadTask, TakeDownloadBit, FifoIsEmpty, SetPlaybackComplete, ReportComplete, PlayerOK
  <2>2. AppOK'
    BY <1>2 DEF DownloadTask, TakeDownloadBit, FifoIsEmpty, SetPlaybackComplete, ReportComplete, AppOK
  <2>3. UNCHANGED <<starter, pipeline, started, restarts>>
    BY <1>2 DEF DownloadTask, TakeDownloadBit, FifoIsEmpty, SetPlaybackComplete, ReportComplete
  <2> QED BY <1>2, <2>1, <2>2, <2>3, DeviceQueue
<1>3. CASE WriteBlock \/ PlayBlock
  <2>1. QueuesOK' /\ AppOK'
    BY <1>3 DEF WriteBlock, PlayBlock, QueuesOK, AppOK
  <2>2. PlayerOK'
    BY <1>3 DEF WriteBlock, PlayBlock, PlayerOK
  <2>3. UNCHANGED <<starter, pipeline, started, restarts, drain>> /\ (due = 0 => due' = 0)
    BY <1>3 DEF WriteBlock, PlayBlock
  <2> QED BY <2>1, <2>2, <2>3
<1>4. CASE Starter \/ PipelineRuns \/ PipelineFails \/ RestartPipeline
  <2>1. QueuesOK' /\ UNCHANGED <<fifo, due, drain>>
    BY <1>4 DEF Starter, StartPipeline, MarkStarted, PipelineRuns, PipelineFails, RestartPipeline, QueuesOK
  <2>2. AppOK'
    BY <1>4, SpendTyped DEF Starter, StartPipeline, MarkStarted, PipelineRuns, PipelineFails,
                            RestartPipeline, AppOK
  <2>3. PlayerOK' /\ (starter' = "start" => pipeline' = "idle" /\ ~started')
                  /\ (restarts' # 0 => pipeline' = "failed")
    <3>1. CASE Starter
      BY <2>1, <3>1 DEF Starter, StartPipeline, MarkStarted, PlayerOK
    <3>2. CASE PipelineRuns
      BY <2>1, <3>2 DEF PipelineRuns, PlayerOK
    <3>3. CASE PipelineFails
      <4>1. restarts = 0
        BY <3>3 DEF PipelineFails
      <4>2. restarts' \in {0, 1} /\ pipeline' = "failed" /\ started' = FALSE /\ starter' = starter
        BY <3>3, <4>1 DEF PipelineFails
      <4>3. starter # "start"
        BY <3>3 DEF PipelineFails
      <4> QED BY <2>1, <4>2, <4>3 DEF PlayerOK
    <3>4. CASE RestartPipeline
      BY <2>1, <3>4 DEF RestartPipeline, PlayerOK
    <3> QED BY <1>4, <3>1, <3>2, <3>3, <3>4
  <2> QED BY <2>1, <2>2, <2>3
<1>5. CASE UNCHANGED vars
  BY <1>5 DEF vars, QueuesOK, AppOK, PlayerOK
<1> QED
  BY <1>1, <1>2, <1>3, <1>4, <1>5 DEF Next, EventLoop

LEMMA SpeechInvariant == Spec => []SpeechInv
  BY SpeechInit, SpeechStep, PTL DEF Spec

\* Every variable keeps its type: the FIFO its size, no report is due more than
\* the FIFO holds, and there is at most one task to restart the pipeline.
THEOREM SpeechTypeCorrect == Spec => []TypeOK
<1>1. SpeechInv => TypeOK
  BY DEF SpeechInv
<1> QED BY <1>1, SpeechInvariant, PTL

-----------------------------------------------------------------------------
\* Once audio_playback_start has returned, no failure or restart makes the
\* started flag lie about the pipeline, if it did not before.
THEOREM StartedTheorem == Spec => StartedFollowsPipeline
<1>1. SpeechInv /\ [Next]_vars => [starter = "done" /\ FlagIsTrue => FlagIsTrue']_vars
  <2> SUFFICES ASSUME SpeechInv, Next, starter = "done", FlagIsTrue PROVE FlagIsTrue'
    OBVIOUS
  <2> USE DEF FlagIsTrue
  <2>1. CASE Starter
    BY <2>1 DEF Starter, StartPipeline, MarkStarted
  <2>2. CASE PipelineRuns \/ PipelineFails
    BY <2>2 DEF PipelineRuns, PipelineFails
  <2>3. CASE RestartPipeline
    BY <2>3 DEF RestartPipeline, SpeechInv
  <2>4. CASE PlayBlock \/ WriteBlock
    BY <2>4 DEF PlayBlock, WriteBlock
  <2>5. CASE DownloadTask
    BY <2>5 DEF DownloadTask, TakeDownloadBit, FifoIsEmpty, SetPlaybackComplete, ReportComplete, player
  <2>6. CASE Server \/ MessageTask \/ OnSpeechEvent \/ OnSpeech \/ WriteTimesOut
    <3>1. UNCHANGED <<pipeline, started, starter>>
      BY <2>6 DEF player, Server, ServerStarts, ServerSpeaks, ServerEnds, MessageTask, OnSpeechEvent,
                  OnSpeech, WriteTimesOut
    <3> QED BY <3>1
  <2>7. CASE DeviceTask \/ DeviceInterrupted \/ SleepAsked \/ AgentStarts
    <3>1. UNCHANGED <<pipeline, started, starter>>
      BY <2>7 DEF player, DeviceTask, DeviceSpeechStart, DeviceSpeechEnd, DevicePlaybackComplete,
                  DeviceWakeup, DeviceSleep, DeviceInterrupted, SleepAsked, AgentStarts
    <3> QED BY <3>1
  <2> QED BY <2>1, <2>2, <2>3, <2>4, <2>5, <2>6, <2>7 DEF Next, EventLoop
<1> QED BY <1>1, SpeechInvariant, PTL DEF Spec, StartedFollowsPipeline

-----------------------------------------------------------------------------
(* Refinement *)

\* Every step is one of the promise's, or leaves its variables alone.
LEMMA PromiseStep == SpeechInv /\ [Next]_vars => [Promise!Next]_Promise!vars
<1> SUFFICES ASSUME SpeechInv, [Next]_vars PROVE [Promise!Next]_Promise!vars
  OBVIOUS
<1> USE DEF Promise!Next, Promise!vars, GivenUp
<1>1. CASE Server \/ MessageTask \/ OnSpeechEvent \/ OnSpeech \/ WriteTimesOut
             \/ DeviceSpeechStart \/ DevicePlaybackComplete \/ DeviceWakeup \/ DeviceSleep
             \/ DeviceInterrupted \/ SleepAsked \/ AgentStarts
  BY <1>1 DEF player, report, Server, ServerStarts, ServerSpeaks, ServerEnds, MessageTask, OnSpeechEvent,
              OnSpeech, WriteTimesOut, DeviceSpeechStart, DevicePlaybackComplete, DeviceWakeup, DeviceSleep,
              DeviceInterrupted, SleepAsked, AgentStarts
<1>2. CASE WriteBlock
  BY <1>2 DEF WriteBlock, report, Promise!Accept
<1>3. CASE DeviceSpeechEnd
  <2>1. CASE state = "SPEAKING"
    BY <1>3, <2>1 DEF DeviceSpeechEnd, player, Promise!Ask
  <2>2. CASE state # "SPEAKING"
    BY <1>3, <2>2 DEF DeviceSpeechEnd, player, SpeechInv, TypeOK, AppOK
  <2> QED BY <2>1, <2>2
<1>4. CASE TakeDownloadBit
  BY <1>4 DEF TakeDownloadBit, player, Promise!Serve
<1>5. CASE FifoIsEmpty \/ SetPlaybackComplete
  BY <1>5 DEF FifoIsEmpty, SetPlaybackComplete, player
<1>6. CASE ReportComplete
  BY <1>6 DEF ReportComplete, player, SpeechInv, Promise!Report
<1>7. CASE Starter \/ PipelineRuns
  BY <1>7 DEF Starter, StartPipeline, MarkStarted, PipelineRuns, report, SpeechInv
<1>8. CASE PipelineFails \/ RestartPipeline
  <2>1. UNCHANGED <<fifo, downloadBit, drain, due>>
    BY <1>8 DEF PipelineFails, RestartPipeline, report
  <2>2. GivenUp => GivenUp'
    BY <1>8 DEF PipelineFails, RestartPipeline
  <2> QED BY <2>1, <2>2 DEF Promise!Break
<1>9. CASE PlayBlock
  BY <1>9 DEF PlayBlock, Promise!Play
<1>10. CASE UNCHANGED vars
  BY <1>10 DEF vars, report, player
<1> QED
  BY <1>1, <1>2, <1>3, <1>4, <1>5, <1>6, <1>7, <1>8, <1>9, <1>10 DEF Next, EventLoop, DeviceTask, DownloadTask

\* The speaker implements what it promises the device: it never reports the end
\* of a playback before everything it had accepted when it turned to the
\* request was played, however many responses, touches and failures there are.
THEOREM PromiseTheorem == Spec => Promise!Spec
<1>1. Init => Promise!Init
  BY DEF Init, Promise!Init, GivenUp
<1> QED BY <1>1, SpeechInvariant, PromiseStep, PTL DEF Spec, Promise!Spec

=============================================================================
