------------------------- MODULE MicrophoneProofs -------------------------
(***************************************************************************)
(* Proofs about Microphone, for every size of the FIFO and of the device   *)
(* queue: the types, and the bound on late frames.                         *)
(***************************************************************************)
EXTENDS Microphone, TLAPS

\* The front end has an event in its hands while it enqueues one, and only real
\* events are kept; a frame in the hands of the microphone task is the first
\* late one when the device stops listening now.
EventKnown == rec = "event" => event \in {"WAKEUP", "SLEEP"}

LateInv ==
    /\ late \in {0, 1}
    /\ mic = "START" \/ micTask \in {"send", "push"} => late = 0

MicInv == TypeOK /\ EventKnown /\ LateInv

-----------------------------------------------------------------------------
(* Sequences *)

\* What fits is appended: the queue keeps its type and its size.
LEMMA EnqueueLemma ==
    ASSUME devq \in Seq(DeviceEvents), Len(devq) <= DeviceQueueSize,
           NEW e \in DeviceEvents, Enqueue(e)
    PROVE  devq' \in Seq(DeviceEvents) /\ Len(devq') <= DeviceQueueSize
BY SizeAssumption DEF Enqueue, Room

\* What is taken is out of the queue.
LEMMA TakeLemma ==
    ASSUME devq \in Seq(DeviceEvents), Len(devq) <= DeviceQueueSize, NEW e, Take(e)
    PROVE  devq' \in Seq(DeviceEvents) /\ Len(devq') <= DeviceQueueSize
BY SizeAssumption DEF Take

\* What a task has yet to do is done from the front.
LEMMA TailLemma ==
    ASSUME NEW s \in Seq(Steps), s # <<>>
    PROVE  Head(s) \in Steps /\ Tail(s) \in Seq(Steps)
OBVIOUS

\* What the tasks begin to do.
LEMMA TodoLemma ==
    /\ <<>> \in Seq(Steps)
    /\ Connecting \in Seq(Steps)
    /\ Connecting \o <<"SYSTEM_INITIALIZED">> \in Seq(Steps)
    /\ <<"WAKEUP">> \in Seq(Steps)
    /\ <<"STATE_CHANGED">> \in Seq(Steps)
    /\ <<"STATE_CHANGED", "SLEEP">> \in Seq(Steps)
<1>1. /\ <<"STATE_CHANGED", "connect">> \in Seq(Steps)
      /\ <<"SYSTEM_INITIALIZED">> \in Seq(Steps)
  BY DEF Steps, DeviceEvents
<1>2. Connecting \in Seq(Steps)
  BY <1>1 DEF Connecting
<1>3. Connecting \o <<"SYSTEM_INITIALIZED">> \in Seq(Steps)
  BY <1>1, <1>2
<1> QED
  BY <1>2, <1>3 DEF Steps, DeviceEvents

-----------------------------------------------------------------------------
(* The invariant *)

LEMMA MicInit == Init => MicInv
<1> SUFFICES ASSUME Init PROVE MicInv
  OBVIOUS
<1>1. TypeOK
  <2>1. fifo \in 0 .. FifoBlocks /\ others \in 0 .. OtherCount
    BY SizeAssumption, CountAssumption DEF Init
  <2>2. devq \in Seq(DeviceEvents) /\ Len(devq) <= DeviceQueueSize
    BY SizeAssumption DEF Init
  <2>3. todo \in [Tasks -> Seq(Steps)]
    BY TodoLemma DEF Init
  <2> QED
    BY <2>1, <2>2, <2>3 DEF Init, TypeOK, MicStates
<1>2. EventKnown /\ LateInv
  BY DEF Init, EventKnown, LateInv
<1> QED
  BY <1>1, <1>2 DEF MicInv

\* The pipeline's task.
LEMMA RecorderStep == ASSUME MicInv, Recorder PROVE MicInv'
<1> USE DEF MicInv, EventKnown, LateInv
<1>1. CASE StartRecorder
  BY <1>1 DEF StartRecorder, TypeOK, session, device
<1>2. CASE Capture
  BY <1>2 DEF Capture, TypeOK, session, device
<1>3. CASE EnqueueEvent
  <2>1. event \in DeviceEvents
    BY <1>3 DEF EnqueueEvent, DeviceEvents
  <2>2. devq' \in Seq(DeviceEvents) /\ Len(devq') <= DeviceQueueSize
    BY <1>3, <2>1, EnqueueLemma DEF EnqueueEvent, TypeOK
  <2> QED
    BY <1>3, <2>2 DEF EnqueueEvent, TypeOK, session, device
<1>4. CASE WriteFrame
  BY <1>4, SizeAssumption DEF WriteFrame, TypeOK, session, device
<1> QED
  BY <1>1, <1>2, <1>3, <1>4 DEF Recorder

\* The microphone task.
LEMMA MicTaskStep == ASSUME MicInv, MicTask PROVE MicInv'
<1> USE DEF MicInv, EventKnown, LateInv
<1>1. CASE MicReads
  BY <1>1, SizeAssumption DEF MicReads, TypeOK, session, device
<1>2. CASE MicChooses
  BY <1>2 DEF MicChooses, TypeOK, MicStates, recorder, session, device
<1>3. CASE AgentChecks
  BY <1>3 DEF AgentChecks, TypeOK, recorder, session, device
<1>4. CASE FrameSent
  BY <1>4 DEF FrameSent, TypeOK, recorder, session, device
<1>5. CASE DummySent \/ SendFails
  BY <1>5 DEF DummySent, SendFails, TypeOK, recorder, session, device
<1>6. CASE MicComplains
  <2>1. devq' \in Seq(DeviceEvents) /\ Len(devq') <= DeviceQueueSize
    BY <1>6, EnqueueLemma DEF MicComplains, TypeOK, DeviceEvents
  <2> QED
    BY <1>6, <2>1 DEF MicComplains, TypeOK, recorder, session, device
<1> QED
  BY <1>1, <1>2, <1>3, <1>4, <1>5, <1>6 DEF MicTask

\* Any task that goes on with what it was doing.
LEMMA TaskStep ==
    ASSUME MicInv, NEW t \in Tasks, TaskEnqueues(t) \/ TaskConnects(t)
    PROVE  MicInv'
<1> USE DEF MicInv, EventKnown, LateInv
<1>1. todo[t] \in Seq(Steps) /\ todo[t] # <<>>
  BY DEF TypeOK, TaskEnqueues, TaskConnects
<1>2. Head(todo[t]) \in Steps /\ Tail(todo[t]) \in Seq(Steps)
  BY <1>1, TailLemma
<1>3. CASE TaskEnqueues(t)
  <2>1. Head(todo[t]) \in DeviceEvents
    BY <1>2, <1>3 DEF TaskEnqueues, Steps
  <2>2. devq' \in Seq(DeviceEvents) /\ Len(devq') <= DeviceQueueSize
    BY <1>3, <2>1, EnqueueLemma DEF TaskEnqueues, TypeOK
  <2>3. todo' \in [Tasks -> Seq(Steps)]
    BY <1>2, <1>3 DEF TaskEnqueues, TypeOK
  <2> QED
    BY <1>3, <2>2, <2>3 DEF TaskEnqueues, TypeOK, recorder, session, device
<1>4. CASE TaskConnects(t)
  <2>1. todo' \in [Tasks -> Seq(Steps)]
    BY <1>2, <1>4, TodoLemma DEF TaskConnects, TypeOK
  <2>2. started' \in BOOLEAN /\ client' \in BOOLEAN /\ active' \in BOOLEAN
    BY <1>4, Zenon DEF TaskConnects, TypeOK
  <2>3. acks' = acks \/ acks' = acks + 1
    BY <1>4, Zenon DEF TaskConnects
  <2>4. acks' \in Nat
    BY <2>3 DEF TypeOK
  <2> QED
    BY <1>4, <2>1, <2>2, <2>4 DEF TaskConnects, TypeOK, recorder, device
<1> QED
  BY <1>3, <1>4

\* The device task.
LEMMA DeviceTaskStep == ASSUME MicInv, DeviceTask PROVE MicInv'
<1> USE DEF MicInv, EventKnown, LateInv
<1>1. ASSUME NEW e, Take(e)
      PROVE  devq' \in Seq(DeviceEvents) /\ Len(devq') <= DeviceQueueSize
  BY <1>1, TakeLemma DEF TypeOK
<1>2. CASE DeviceWakeup
  <2>1. todo' \in [Tasks -> Seq(Steps)]
    BY <1>2, TodoLemma DEF DeviceWakeup, TypeOK
  <2>2. devq' \in Seq(DeviceEvents) /\ Len(devq') <= DeviceQueueSize
    BY <1>2, <1>1 DEF DeviceWakeup
  <2>3. \/ mic' = "START" /\ late' = 0
        \/ mic' = mic /\ late' = late
    BY <1>2 DEF DeviceWakeup, Turn
  <2>4. pending' \in BOOLEAN
    BY <1>2 DEF DeviceWakeup, TypeOK
  <2> QED
    BY <1>2, <2>1, <2>2, <2>3, <2>4 DEF DeviceWakeup, Take, TypeOK, MicStates, recorder
<1>3. CASE DeviceSleep
  <2>1. devq' \in Seq(DeviceEvents) /\ Len(devq') <= DeviceQueueSize
    BY <1>3, <1>1 DEF DeviceSleep
  <2>2. mic' \in MicStates \ {"START"} /\ late' = late
    BY <1>3 DEF DeviceSleep, Turn, MicStates
  <2> QED
    BY <1>3, <2>1, <2>2 DEF DeviceSleep, Take, TypeOK, recorder
<1>4. CASE DeviceSpeechStart
  <2>1. devq' \in Seq(DeviceEvents) /\ Len(devq') <= DeviceQueueSize
    BY <1>4, <1>1 DEF DeviceSpeechStart
  <2>2. mic' \in MicStates \ {"START"} /\ late' = late
    BY <1>4 DEF DeviceSpeechStart, Turn, MicStates
  <2> QED
    BY <1>4, <2>1, <2>2 DEF DeviceSpeechStart, Take, TypeOK, recorder
<1>5. CASE DeviceStateChanged
  <2>1. devq' \in Seq(DeviceEvents) /\ Len(devq') <= DeviceQueueSize
    BY <1>5, <1>1 DEF DeviceStateChanged
  <2>2. todo' \in [Tasks -> Seq(Steps)] /\ pending' \in BOOLEAN
    BY <1>5, TodoLemma DEF DeviceStateChanged, TypeOK
  <2> QED
    BY <1>5, <2>1, <2>2 DEF DeviceStateChanged, Take, TypeOK, recorder
<1>6. CASE DeviceInitialized
  <2>1. devq' \in Seq(DeviceEvents) /\ Len(devq') <= DeviceQueueSize
    BY <1>6, <1>1 DEF DeviceInitialized
  <2> QED
    BY <1>6, <2>1 DEF DeviceInitialized, Take, TypeOK, recorder
<1> QED
  BY <1>2, <1>3, <1>4, <1>5, <1>6, TaskStep DEF DeviceTask, Tasks

\* What the application hears of the agent.
LEMMA HearsStep ==
    ASSUME MicInv, HearsStart \/ HearsDisconnected \/ HearsConnected
    PROVE  MicInv'
<1> USE DEF MicInv, EventKnown, LateInv
<1>1. ASSUME NEW view \in BOOLEAN, NEW tells \in Seq(Steps), Hears(view, tells)
      PROVE  active' \in BOOLEAN /\ todo' \in [Tasks -> Seq(Steps)]
  BY <1>1 DEF Hears, TypeOK
<1>2. active' \in BOOLEAN /\ todo' \in [Tasks -> Seq(Steps)]
  BY <1>1, TodoLemma DEF HearsStart, HearsDisconnected, HearsConnected
<1>3. down' \in BOOLEAN
  BY Zenon DEF HearsStart, HearsDisconnected, HearsConnected, TypeOK
<1>4. \/ acks > 0 /\ acks' = acks - 1 /\ others' = others
      \/ acks' = acks /\ others' = others
      \/ acks' = acks /\ others > 0 /\ others' = others - 1
  BY DEF HearsStart, HearsDisconnected, HearsConnected
<1>5. acks' \in Nat /\ others' \in 0 .. OtherCount
  BY <1>4, CountAssumption DEF TypeOK
<1> QED
  BY <1>2, <1>3, <1>5 DEF HearsStart, HearsDisconnected, HearsConnected, Hears, TypeOK,
                          recorder, device

\* Everything else.
LEMMA OtherStep == ASSUME MicInv, OtherEnqueues \/ SessionEnds PROVE MicInv'
<1> USE DEF MicInv, EventKnown, LateInv
<1>1. CASE OtherEnqueues
  <2>1. devq' \in Seq(DeviceEvents) /\ Len(devq') <= DeviceQueueSize
    BY <1>1, EnqueueLemma DEF OtherEnqueues, TypeOK, DeviceEvents
  <2> QED
    BY <1>1, <2>1, CountAssumption DEF OtherEnqueues, TypeOK, recorder, session, device
<1>2. CASE SessionEnds
  <2>1. started' \in BOOLEAN /\ down' \in BOOLEAN
    BY <1>2, Zenon DEF SessionEnds, TypeOK
  <2>2. others' \in 0 .. OtherCount
    BY <1>2, CountAssumption DEF SessionEnds, TypeOK
  <2> QED
    BY <1>2, <2>1, <2>2 DEF SessionEnds, TypeOK, recorder, device
<1> QED
  BY <1>1, <1>2

LEMMA MicStep == MicInv /\ [Next]_vars => MicInv'
<1> SUFFICES ASSUME MicInv, [Next]_vars PROVE MicInv'
  OBVIOUS
<1>1. CASE UNCHANGED vars
  BY <1>1 DEF vars, recorder, session, device, MicInv, TypeOK, EventKnown, LateInv
<1>2. CASE EventLoop
  BY <1>2, HearsStep, TaskStep DEF EventLoop, Tasks
<1>3. CASE Starter
  BY <1>3, TaskStep DEF Starter, Tasks
<1> QED
  BY <1>1, <1>2, <1>3, RecorderStep, MicTaskStep, DeviceTaskStep, OtherStep DEF Next

\* What the tasks of the microphone share keeps its type, and no queue exceeds
\* its size, whatever their sizes.
THEOREM MicTypeCorrect == Spec => []TypeOK
<1>1. MicInv => TypeOK
  BY DEF MicInv
<1> QED
  BY <1>1, MicInit, MicStep, PTL DEF Spec

\* At most one frame of a device that has stopped listening reaches the agent,
\* whatever the size of the FIFO and however many frames wait in it.
THEOREM LateFrameTheorem == Spec => []AtMostOneLateFrame
<1>1. MicInv => AtMostOneLateFrame
  BY DEF MicInv, LateInv, AtMostOneLateFrame
<1> QED
  BY <1>1, MicInit, MicStep, PTL DEF Spec

=============================================================================
