-------------------------- MODULE DeviceFSMProofs --------------------------
(***************************************************************************)
(* Proofs about DeviceFSM, for every choice of inputs and every size of    *)
(* the queues: the types, and that the device never waits for nothing: a   *)
(* listening device for its time-out, a speaking one for the end of its    *)
(* response, a delayed wake-up for the agent, a microphone without a       *)
(* session for its sleep.                                                  *)
(***************************************************************************)
EXTENDS DeviceFSM, TLAPS

USE QueueAssumption DEF QueueAssumption

\* A task whose next step enqueues something has nothing else to enqueue.
BusyInv ==
    /\ \A t \in Connectors : connect[t] = "begin" => Silent(t)
    /\ draining => Silent("download")

\* The microphone is off exactly while the device sleeps; it sleeps until the
\* system is initialized, and the boot task has connected by then.
ModeInv ==
    /\ state = "IDLE" <=> mic = "STOP"
    /\ state # "IDLE" => systemInitialized
    /\ systemInitialized \/ Pending({"SYSTEM_INITIALIZED"}) => connect["starter"] = "none"

\* A delayed wake-up: between the write of CONNECTING and the end of
\* app_agent_connect the device task handles nothing, so a start seen then is
\* still to be told.
WakeInv ==
    wakeupStartPending /\ appState = "STARTED" =>
        Pending({"STATE_CHANGED"}) \/ connect["device"] = "begin"

DeviceInv == TypeOK /\ BusyInv /\ ModeInv /\ WakeInv /\ ListeningTimesOut

\* A connection is announced right behind the end of the one before, or first
\* in the queue of an application that does not believe in a session.
Linked(q, s) ==
    \A i \in DOMAIN q : q[i] = "CONNECTED" => IF i = 1 THEN s # "STARTED" ELSE q[i - 1] = "DISCONNECTED"

\* Behind every start of a response in q there is an element of E.
Closes(q, E) == \A i \in DOMAIN q : q[i] = "SPEECH_START" => \E j \in DOMAIN q : j > i /\ q[j] \in E

\* The agent's stream, unbroken: a connection leaves nothing behind its end.
LinkInv ==
    /\ ~ClientUp => inbox = <<>> /\ (evq # <<>> => evq[Len(evq)] = "DISCONNECTED")
    /\ ~ClientUp /\ appState = "STARTED" => Holds(evq, {"DISCONNECTED"})
    /\ Linked(evq, appState)

\* The device will be put to sleep.
SleepComes == Pending(SleepEvents) \/ Holds(evq, {"DISCONNECTED"})

\* A device that is awake believes in its session, or is put to sleep.
AwakeInv == state # "IDLE" /\ (appState # "STARTED" \/ connect["device"] # "none") => SleepComes

\* What ends a response that has been announced, of what the agent still has.
EndFromServer == speech \/ Holds(inbox, {"SPEECH_END"})
EndFromAgent  == EndFromServer \/ Holds(evq, {"SPEECH_END", "DISCONNECTED"})

\* What moves a speaking device on.
Endings == {"SPEECH_END", "PLAYBACK_COMPLETE"} \cup WakeEvents \cup SleepEvents

\* Wherever the start of a response is on its way, its end is behind it.
ResponseInv ==
    /\ speech \/ Closes(inbox, {"SPEECH_END"})
    /\ EndFromServer \/ Closes(evq, {"SPEECH_END", "DISCONNECTED"})
    /\ Holds(out["loop"], {"SPEECH_START"}) => EndFromAgent
    /\ EndFromAgent \/ Holds(out["loop"], Endings) \/ Closes(queue, Endings)
    /\ \A t \in Tasks \ {"loop"} : ~Holds(out[t], {"SPEECH_START"})

StreamInv == broken = {} => LinkInv /\ AwakeInv /\ ResponseInv /\ (state = "SPEAKING" => ResponseEnds)

IInv == DeviceInv /\ StreamInv

-----------------------------------------------------------------------------
(* Queues *)

\* A queue takes one more element at its end.
LEMMA AppendLemma ==
    ASSUME NEW S, NEW q \in Seq(S), NEW e \in S
    PROVE  /\ Append(q, e) \in Seq(S) /\ Len(Append(q, e)) = Len(q) + 1 /\ Append(q, e) # <<>>
           /\ \A E : Holds(Append(q, e), E) <=> Holds(q, E) \/ e \in E
<1> DEFINE r == Append(q, e)
<1>1. /\ r \in Seq(S) /\ Len(r) = Len(q) + 1 /\ Len(q) \in Nat /\ r[Len(q) + 1] = e
      /\ DOMAIN q = 1 .. Len(q) /\ DOMAIN r = 1 .. Len(q) + 1 /\ \A i \in DOMAIN q : r[i] = q[i]
  OBVIOUS
<1> HIDE DEF r
<1>2. ASSUME NEW E PROVE Holds(r, E) <=> Holds(q, E) \/ e \in E
  <2>1. \A i \in DOMAIN r : i \in DOMAIN q \/ i = Len(q) + 1
    BY <1>1
  <2>2. DOMAIN q \subseteq DOMAIN r /\ Len(q) + 1 \in DOMAIN r
    BY <1>1
  <2> QED
    BY <1>1, <2>1, <2>2 DEF Holds
<1>3. r # <<>>
  BY <1>1
<1> QED
  BY <1>1, <1>2, <1>3 DEF r

\* A queue gives its first element.
LEMMA TailLemma ==
    ASSUME NEW S, NEW q \in Seq(S), q # <<>>
    PROVE  /\ Head(q) \in S /\ Tail(q) \in Seq(S) /\ Len(Tail(q)) = Len(q) - 1
           /\ \A E : Holds(q, E) <=> Head(q) \in E \/ Holds(Tail(q), E)
<1> DEFINE r == Tail(q)
<1>1. /\ Head(q) \in S /\ r \in Seq(S) /\ Len(r) = Len(q) - 1 /\ Len(q) \in Nat /\ Len(q) # 0
      /\ DOMAIN q = 1 .. Len(q) /\ DOMAIN r = 1 .. Len(q) - 1 /\ Head(q) = q[1]
      /\ \A i \in DOMAIN r : r[i] = q[i + 1]
  OBVIOUS
<1> HIDE DEF r
<1>2. 1 \in DOMAIN q /\ \A i \in DOMAIN r : i + 1 \in DOMAIN q
  BY <1>1
<1>3. \A j \in DOMAIN q : j = 1 \/ (j - 1 \in DOMAIN r /\ r[j - 1] = q[j])
  <2> TAKE j \in DOMAIN q
  <2>1. j = 1 \/ j - 1 \in DOMAIN r
    BY <1>1
  <2>2. j - 1 \in DOMAIN r => r[j - 1] = q[(j - 1) + 1] /\ (j - 1) + 1 = j
    BY <1>1
  <2> QED
    BY <2>1, <2>2
<1>4. ASSUME NEW E PROVE Holds(q, E) <=> Head(q) \in E \/ Holds(r, E)
  BY <1>1, <1>2, <1>3 DEF Holds
<1> QED
  BY <1>1, <1>4 DEF r

\* Every response keeps what is behind its start, when an element is added
LEMMA ClosesAppend ==
    ASSUME NEW S, NEW q \in Seq(S), NEW E, NEW e \in S, e # "SPEECH_START", e \in E \/ Closes(q, E)
    PROVE  Closes(Append(q, e), E)
<1> DEFINE r == Append(q, e)
<1>1. /\ Len(q) \in Nat /\ DOMAIN q = 1 .. Len(q) /\ DOMAIN r = 1 .. Len(q) + 1
      /\ r[Len(q) + 1] = e /\ \A i \in DOMAIN q : r[i] = q[i]
  OBVIOUS
<1> HIDE DEF r
<1>2. ASSUME NEW i \in DOMAIN r, r[i] = "SPEECH_START" PROVE \E j \in DOMAIN r : j > i /\ r[j] \in E
  <2>1. i \in DOMAIN q /\ q[i] = "SPEECH_START"
    BY <1>1, <1>2
  <2>2. CASE e \in E
    BY <1>1, <2>1, <2>2
  <2>3. CASE Closes(q, E)
    <3>1. PICK j \in DOMAIN q : j > i /\ q[j] \in E
      BY <2>1, <2>3 DEF Closes
    <3> QED
      BY <1>1, <3>1
  <2> QED
    BY <2>2, <2>3
<1> QED
  BY <1>2 DEF Closes, r

\* or taken.
LEMMA ClosesTail ==
    ASSUME NEW S, NEW q \in Seq(S), NEW E, q # <<>>, Closes(q, E)
    PROVE  Closes(Tail(q), E) /\ (Head(q) = "SPEECH_START" => Holds(Tail(q), E))
<1> DEFINE r == Tail(q)
<1>1. /\ Len(q) \in Nat /\ DOMAIN q = 1 .. Len(q) /\ DOMAIN r = 1 .. Len(q) - 1 /\ Head(q) = q[1] /\ Len(q) # 0
      /\ \A i \in DOMAIN r : r[i] = q[i + 1]
  OBVIOUS
<1> HIDE DEF r
<1>2. ASSUME NEW i \in 0 .. Len(q) - 1, q[i + 1] = "SPEECH_START" PROVE \E j \in DOMAIN r : j > i /\ r[j] \in E
  <2>1. i + 1 \in DOMAIN q
    BY <1>1
  <2>2. PICK j \in DOMAIN q : j > i + 1 /\ q[j] \in E
    BY <1>2, <2>1 DEF Closes
  <2>3. j - 1 \in DOMAIN r /\ j - 1 > i /\ (j - 1) + 1 = j
    BY <1>1, <2>2
  <2> QED
    BY <1>1, <2>2, <2>3
<1>3. Closes(r, E)
  BY <1>1, <1>2 DEF Closes
<1>4. q[0 + 1] = "SPEECH_START" => Holds(r, E)
  BY <1>1, <1>2 DEF Holds
<1> QED
  BY <1>1, <1>3, <1>4 DEF r

\* Connections stay linked when an event is added, or taken and handled.
LEMMA LinkedLemma ==
    ASSUME NEW q \in Seq(AgentEvents), NEW s, Linked(q, s)
    PROVE  /\ \A e \in AgentEvents :
                \/ e # "CONNECTED"
                \/ q = <<>> /\ s # "STARTED"
                \/ q # <<>> /\ q[Len(q)] = "DISCONNECTED"
                => Linked(Append(q, e), s)
           /\ q # <<>> => \A u : (Head(q) = "DISCONNECTED" => u # "STARTED") => Linked(Tail(q), u)
           /\ q # <<>> /\ Head(q) = "CONNECTED" => s # "STARTED"
<1>1. Len(q) \in Nat /\ DOMAIN q = 1 .. Len(q) /\ (q = <<>> <=> Len(q) = 0)
  OBVIOUS
<1>2. ASSUME NEW e \in AgentEvents,
             \/ e # "CONNECTED"
             \/ q = <<>> /\ s # "STARTED"
             \/ q # <<>> /\ q[Len(q)] = "DISCONNECTED"
      PROVE  Linked(Append(q, e), s)
  <2> DEFINE r == Append(q, e)
  <2>1. DOMAIN r = 1 .. Len(q) + 1 /\ r[Len(q) + 1] = e /\ \A i \in DOMAIN q : r[i] = q[i]
    BY <1>1
  <2> HIDE DEF r
  <2>2. ASSUME NEW i \in DOMAIN r, r[i] = "CONNECTED"
        PROVE  IF i = 1 THEN s # "STARTED" ELSE r[i - 1] = "DISCONNECTED"
    <3>1. CASE i \in DOMAIN q
      <4>1. IF i = 1 THEN s # "STARTED" ELSE q[i - 1] = "DISCONNECTED"
        BY <2>1, <2>2, <3>1 DEF Linked
      <4>2. i # 1 => i - 1 \in DOMAIN q
        BY <1>1, <3>1
      <4> QED
        BY <2>1, <4>1, <4>2
    <3>2. CASE i = Len(q) + 1
      <4>1. i # 1 => q # <<>> /\ i - 1 = Len(q) /\ Len(q) \in DOMAIN q
        BY <1>1, <3>2
      <4>2. i = 1 => q = <<>>
        BY <1>1, <3>2
      <4> QED
        BY <1>2, <2>1, <2>2, <3>2, <4>1, <4>2
    <3> QED
      BY <1>1, <2>1, <3>1, <3>2
  <2> QED
    BY <2>2 DEF Linked, r
<1>3. ASSUME q # <<>>, NEW u, Head(q) = "DISCONNECTED" => u # "STARTED"
      PROVE  Linked(Tail(q), u)
  <2> DEFINE r == Tail(q)
  <2>1. /\ DOMAIN r = 1 .. Len(q) - 1 /\ Head(q) = q[1]
        /\ \A i \in DOMAIN r : r[i] = q[i + 1]
    BY <1>1, <1>3
  <2> HIDE DEF r
  <2>2. ASSUME NEW i \in DOMAIN r, r[i] = "CONNECTED"
        PROVE  IF i = 1 THEN u # "STARTED" ELSE r[i - 1] = "DISCONNECTED"
    <3>1. i + 1 \in DOMAIN q /\ i + 1 # 1 /\ (i + 1) - 1 = i /\ q[i + 1] = "CONNECTED"
      BY <1>1, <2>1, <2>2
    <3>2. q[i] = "DISCONNECTED"
      BY <3>1 DEF Linked
    <3>3. i # 1 => i - 1 \in DOMAIN r /\ (i - 1) + 1 = i
      BY <1>1, <2>1
    <3> QED
      BY <1>3, <2>1, <3>2, <3>3
  <2> QED
    BY <2>2 DEF Linked, r
<1>4. ASSUME q # <<>>, Head(q) = "CONNECTED" PROVE s # "STARTED"
  <2>1. 1 \in DOMAIN q /\ q[1] = "CONNECTED"
    BY <1>1, <1>4
  <2> QED
    BY <2>1 DEF Linked
<1> QED
  BY <1>2, <1>3, <1>4

\* The last element of a queue.
LEMMA LastLemma ==
    ASSUME NEW S, NEW q \in Seq(S)
    PROVE  /\ \A e \in S : Append(q, e)[Len(Append(q, e))] = e
           /\ q # <<>> => /\ \A E : q[Len(q)] \in E => Holds(q, E)
                          /\ Tail(q) # <<>> => Tail(q)[Len(Tail(q))] = q[Len(q)]
                          /\ Tail(q) = <<>> => q[Len(q)] = Head(q)
<1>1. Len(q) \in Nat /\ DOMAIN q = 1 .. Len(q) /\ (q = <<>> <=> Len(q) = 0)
  OBVIOUS
<1>2. ASSUME NEW e \in S PROVE Append(q, e)[Len(Append(q, e))] = e
  OBVIOUS
<1>3. ASSUME q # <<>>
      PROVE  /\ \A E : q[Len(q)] \in E => Holds(q, E)
             /\ Tail(q) # <<>> => Tail(q)[Len(Tail(q))] = q[Len(q)]
             /\ Tail(q) = <<>> => q[Len(q)] = Head(q)
  <2>1. Len(q) \in DOMAIN q
    BY <1>1, <1>3
  <2> DEFINE r == Tail(q)
  <2>2. /\ r \in Seq(S) /\ Len(r) = Len(q) - 1 /\ Head(q) = q[1]
        /\ \A i \in 1 .. Len(q) - 1 : r[i] = q[i + 1]
    BY <1>3
  <2> HIDE DEF r
  <2>3. ASSUME r # <<>> PROVE r[Len(r)] = q[Len(q)]
    <3>1. Len(r) # 0
      BY <2>2, <2>3
    <3>2. Len(q) - 1 \in 1 .. Len(q) - 1 /\ (Len(q) - 1) + 1 = Len(q)
      BY <1>1, <1>3, <2>2, <3>1
    <3>3. r[Len(q) - 1] = q[(Len(q) - 1) + 1]
      BY <2>2, <3>2
    <3> QED
      BY <2>2, <3>2, <3>3
  <2>4. ASSUME r = <<>> PROVE q[Len(q)] = Head(q)
    <3>1. Len(r) = 0
      BY <2>4
    <3>2. Len(q) = 1
      <4>1. Len(q) \in Nat /\ Len(q) - 1 = 0
        BY <1>1, <2>2, <3>1
      <4> QED
        BY <4>1
    <3> QED
      BY <2>2, <3>2
  <2> QED
    BY <2>1, <2>2, <2>3, <2>4 DEF Holds, r
<1> QED
  BY <1>2, <1>3

\* One device event, alone or in front of others.
LEMMA SayTyped ==
    ASSUME NEW d \in DeviceEvents
    PROVE  /\ <<d>> \in Seq(DeviceEvents) /\ Len(<<d>>) = 1 /\ <<d>> # <<>>
           /\ \A E : Holds(<<d>>, E) <=> d \in E
           /\ \A es \in Seq(DeviceEvents) :
                /\ <<d>> \o es \in Seq(DeviceEvents) /\ Len(<<d>> \o es) = Len(es) + 1
                /\ \A E : Holds(<<d>> \o es, E) <=> d \in E \/ Holds(es, E)
<1>1. <<d>> \in Seq(DeviceEvents) /\ Len(<<d>>) = 1 /\ <<d>>[1] = d
  OBVIOUS
<1>2. ASSUME NEW E PROVE Holds(<<d>>, E) <=> d \in E
  BY DEF Holds
<1>3. ASSUME NEW es \in Seq(DeviceEvents)
      PROVE  /\ <<d>> \o es \in Seq(DeviceEvents) /\ Len(<<d>> \o es) = Len(es) + 1
             /\ \A E : Holds(<<d>> \o es, E) <=> d \in E \/ Holds(es, E)
  <2> DEFINE r == <<d>> \o es
  <2>1. /\ r \in Seq(DeviceEvents) /\ Len(r) = Len(es) + 1 /\ Len(es) \in Nat /\ r[1] = d
        /\ \A i \in 1 .. Len(es) : r[i + 1] = es[i]
    BY <1>1
  <2> HIDE DEF r
  <2>2. DOMAIN r = 1 .. Len(es) + 1 /\ DOMAIN es = 1 .. Len(es)
    BY <2>1
  <2>3. \A j \in DOMAIN r : j = 1 \/ (j - 1 \in DOMAIN es /\ r[j] = es[j - 1])
    <3> TAKE j \in DOMAIN r
    <3>1. j = 1 \/ (j - 1 \in 1 .. Len(es) /\ (j - 1) + 1 = j)
      BY <2>1, <2>2
    <3> QED
      BY <2>1, <2>2, <3>1
  <2>4. ASSUME NEW E PROVE Holds(r, E) <=> d \in E \/ Holds(es, E)
    <3>1. 1 \in DOMAIN r /\ \A i \in DOMAIN es : i + 1 \in DOMAIN r /\ r[i + 1] = es[i]
      BY <2>1, <2>2
    <3> QED
      BY <2>1, <2>3, <3>1 DEF Holds
  <2> QED
    BY <2>1, <2>4 DEF r
<1>4. <<d>> # <<>>
  OBVIOUS
<1> QED
  BY <1>1, <1>2, <1>3, <1>4

\* An empty queue holds nothing.
LEMMA EmptyLemma == \A E : ~Holds(<<>>, E)
  BY DEF Holds

-----------------------------------------------------------------------------
(* The types *)

LEMMA InitTyped == Init => TypeOK
<1> SUFFICES ASSUME Init PROVE TypeOK
  OBVIOUS
<1>1. <<>> \in Seq(Messages) /\ <<>> \in Seq(AgentEvents) /\ <<>> \in Seq(DeviceEvents) /\ Len(<<>>) = 0
  OBVIOUS
<1>2. AgentOK
  <2>1. inbox \in Seq(Messages) /\ Len(inbox) <= InboxSize
    BY <1>1 DEF Init
  <2>2. evq \in Seq(AgentEvents) /\ Len(evq) <= EventQueueSize
    BY <1>1 DEF Init
  <2> QED
    BY <2>1, <2>2 DEF Init, AgentOK
<1>3. TasksOK
  BY <1>1 DEF Init, TasksOK, AppStates
<1>4. DeviceOK
  BY DEF Init, DeviceOK, DeviceStates, MicStates
<1> QED
  BY <1>2, <1>3, <1>4 DEF TypeOK

\* What esp_agent_post_event does to a queue of events; when the stream is not
\* broken by it, nothing was given up.
LEMMA PostLemma ==
    ASSUME NEW q \in Seq(AgentEvents), Len(q) <= EventQueueSize, NEW e \in AgentEvents,
           broken \subseteq {"full", "stale"}, Post(q, e)
    PROVE  /\ evq' \in Seq(AgentEvents) /\ Len(evq') <= EventQueueSize
           /\ broken' \subseteq {"full", "stale"}
           /\ broken' = {} => broken = {} /\ evq' = Append(q, e)
<1>1. Append(q, e) \in Seq(AgentEvents) /\ Len(Append(q, e)) = Len(q) + 1 /\ Len(q) \in Nat
  OBVIOUS
<1> QED
  BY <1>1 DEF Post, Broken

\* The same of the message queue.
LEMMA DeliverLemma ==
    ASSUME AgentOK, NEW m \in Messages, Deliver(m)
    PROVE  /\ inbox' \in Seq(Messages) /\ Len(inbox') <= InboxSize
           /\ broken' \subseteq {"full", "stale"} /\ evq' = evq
           /\ broken' = {} => broken = {} /\ inbox' = Append(inbox, m)
<1>1. inbox \in Seq(Messages) /\ Append(inbox, m) \in Seq(Messages) /\ Len(Append(inbox, m)) = Len(inbox) + 1
      /\ Len(inbox) \in Nat /\ Len(inbox) <= InboxSize
  BY DEF AgentOK
<1> QED
  BY <1>1 DEF Deliver, Broken, AgentOK

\* The end of the client task leaves its event, and is clean if no message waits.
LEMMA EndLemma ==
    ASSUME NEW q \in Seq(AgentEvents), Len(q) <= EventQueueSize,
           broken \subseteq {"full", "stale"}, ClientEnd(q)
    PROVE  /\ evq' \in Seq(AgentEvents) /\ Len(evq') <= EventQueueSize
           /\ broken' \subseteq {"full", "stale"}
           /\ broken' = {} => broken = {} /\ inbox = <<>> /\ evq' = Append(q, "DISCONNECTED")
<1>1. "DISCONNECTED" \in AgentEvents
  BY DEF AgentEvents
<1>2. Append(q, "DISCONNECTED") \in Seq(AgentEvents) /\ Len(Append(q, "DISCONNECTED")) = Len(q) + 1 /\ Len(q) \in Nat
  BY <1>1
<1> QED
  BY <1>2 DEF ClientEnd, Broken

\* The head of the event queue is taken.
LEMMA EventTyped ==
    ASSUME AgentOK, evq # <<>>
    PROVE  /\ Head(evq) \in AgentEvents /\ Tail(evq) \in Seq(AgentEvents)
           /\ Len(Tail(evq)) <= EventQueueSize /\ Len(evq) \in Nat /\ Len(Tail(evq)) = Len(evq) - 1
  BY DEF AgentOK

LEMMA AgentTyped ==
    ASSUME AgentOK, Agent \/ EventLoopTask
    PROVE  AgentOK'
<1> USE DEF AgentOK
<1>1. CASE ClientConnects
  <2>1. "CONNECTED" \in AgentEvents
    BY DEF AgentEvents
  <2> QED
    BY <1>1, <2>1, PostLemma DEF ClientConnects
<1>2. CASE ClientEnds
  BY <1>2, EndLemma DEF ClientEnds
<1>3. CASE ServerAcks
  BY <1>3, DeliverLemma DEF ServerAcks, Messages
<1>4. CASE ServerSpeaks
  BY <1>4, DeliverLemma DEF ServerSpeaks, Messages
<1>5. CASE ServerError
  BY <1>5, DeliverLemma DEF ServerError, Messages, session
<1>6. CASE MessageTask
  <2>1. Head(inbox) \in Messages /\ Tail(inbox) \in Seq(Messages) /\ Len(Tail(inbox)) <= InboxSize
    BY <1>6 DEF MessageTask
  <2>2. (IF Head(inbox) = "ACK" THEN "START" ELSE Head(inbox)) \in AgentEvents
    BY <2>1 DEF Messages, AgentEvents
  <2> QED
    BY <1>6, <2>1, <2>2, PostLemma DEF MessageTask, session
<1>7. CASE OnConnected \/ OnDisconnected \/ OnStart \/ OnSpeech
  BY <1>7, EventTyped DEF OnConnected, OnDisconnected, OnStart, OnSpeech, HandleAgentEvent, session
<1>8. CASE OnError
  <2>1. CASE agentStarted /\ ClientUp
    BY <1>8, <2>1, EventTyped, EndLemma DEF OnError, HandleAgentEvent
  <2>2. CASE ~(agentStarted /\ ClientUp)
    BY <1>8, <2>2, EventTyped DEF OnError, HandleAgentEvent
  <2> QED
    BY <2>1, <2>2
<1> QED
  BY <1>1, <1>2, <1>3, <1>4, <1>5, <1>6, <1>7, <1>8 DEF Agent, EventLoopTask

\* The other steps of the tasks change nothing of the agent but the client.
LEMMA AgentKept ==
    ASSUME DeviceTask \/ Producers \/ (\E t \in Connectors : ConnectBegin(t) \/ ConnectEnd(t)) \/ (\E t \in Tasks : Enqueue(t))
    PROVE  /\ UNCHANGED <<speech, agentQs>>
           /\ \/ UNCHANGED <<client, agentStarted>>
              \/ client = "stopped" /\ client' = "connecting" /\ agentStarted' = TRUE
              \/ UNCHANGED client /\ agentStarted /\ agentStarted'
<1>1. CASE DeviceTask
  BY <1>1 DEF DeviceTask, SystemInitialized, SpeechStart, SpeechEnd, SpeechPlaybackComplete, Wakeup, Sleep,
              Interrupt, AgentStateChanged, Reminder, ReminderComplete, session
<1>2. CASE Producers
  BY <1>2 DEF Producers, MicSendFails, DownloadTaskWakes, PlaybackDrains, SleepTimerFires, ReminderTimerFires,
              ReminderExpires, Recorder, Touch, session
<1>3. ASSUME NEW t \in Connectors, ConnectBegin(t) PROVE UNCHANGED <<session, agentQs>>
  BY <1>3 DEF ConnectBegin
<1>4. CASE \E t \in Connectors : ConnectEnd(t)
  BY <1>4 DEF ConnectEnd
<1>5. ASSUME NEW t \in Tasks, Enqueue(t) PROVE UNCHANGED <<session, agentQs>>
  BY <1>5 DEF Enqueue
<1> QED
  BY <1>1, <1>2, <1>3, <1>4, <1>5 DEF session

-----------------------------------------------------------------------------
(* What the tasks have to tell the device *)

\* Task t goes on to enqueue es.
LEMMA SayLemma ==
    ASSUME TasksOK, NEW t \in Tasks, NEW es \in Seq(DeviceEvents), Len(es) <= 2, Say(t, es)
    PROVE  /\ out' \in [Tasks -> Seq(DeviceEvents)] /\ \A u \in Tasks : Len(out'[u]) <= 2
           /\ out'[t] = es /\ \A u \in Tasks \ {t} : out'[u] = out[u]
  BY DEF TasksOK, Say

\* The events new are on the way after the step, and the events gone no longer
\* need to be.
Tells(gone, new) ==
    \A E : /\ Pending(E) => Pending(E)' \/ gone \cap E # {}
           /\ new \cap E # {} => Pending(E)'
           /\ Pending(E)' => Pending(E) \/ new \cap E # {}

\* The consequences for the events that the invariant speaks of.
LEMMA TellsLemma ==
    ASSUME NEW gone, NEW new, Tells(gone, new)
    PROVE  /\ Pending({"SYSTEM_INITIALIZED"})' => Pending({"SYSTEM_INITIALIZED"}) \/ "SYSTEM_INITIALIZED" \in new
           /\ Pending({"STATE_CHANGED"}) => Pending({"STATE_CHANGED"})' \/ "STATE_CHANGED" \in gone
           /\ "STATE_CHANGED" \in new => Pending({"STATE_CHANGED"})'
           /\ Pending(SleepEvents) => Pending(SleepEvents)' \/ "SLEEP" \in gone \/ "TIMEOUT" \in gone
           /\ "SLEEP" \in new \/ "TIMEOUT" \in new => Pending(SleepEvents)'
           /\ Pending(Endings) => Pending(Endings)' \/ \E e \in Endings : e \in gone
           /\ \A e \in Endings : e \in new => Pending(Endings)'
<1>1. ASSUME NEW E
      PROVE  /\ Pending(E) => Pending(E)' \/ \E e \in E : e \in gone
             /\ \A e \in E : e \in new => Pending(E)'
             /\ Pending(E)' => Pending(E) \/ \E e \in E : e \in new
  BY DEF Tells
<1>2. SleepEvents = {"SLEEP", "TIMEOUT"}
  BY DEF SleepEvents
<1>3. ASSUME NEW d
      PROVE  /\ Pending({d}) => Pending({d})' \/ d \in gone
             /\ d \in new => Pending({d})'
             /\ Pending({d})' => Pending({d}) \/ d \in new
  BY <1>1
<1>4. /\ Pending(SleepEvents) => Pending(SleepEvents)' \/ \E e \in SleepEvents : e \in gone
      /\ \A e \in SleepEvents : e \in new => Pending(SleepEvents)'
  BY <1>1
<1>5. /\ Pending(Endings) => Pending(Endings)' \/ \E e \in Endings : e \in gone
      /\ \A e \in Endings : e \in new => Pending(Endings)'
  BY <1>1
<1> QED
  BY <1>2, <1>3, <1>4, <1>5

LEMMA NothingTold ==
    ASSUME UNCHANGED <<queue, out>>
    PROVE  Tells({}, {})
  BY DEF Tells, Pending, Holds

\* A task that had nothing to enqueue has something now.
LEMMA TaskTells ==
    ASSUME TasksOK, UNCHANGED queue, NEW t \in Tasks, Silent(t), NEW es \in Seq(DeviceEvents), Len(es) <= 2,
           Say(t, es), NEW new, \A E : Holds(es, E) <=> new \cap E # {}
    PROVE  Tells({}, new)
<1>1. out[t] = <<>> /\ out'[t] = es /\ \A u \in Tasks \ {t} : out'[u] = out[u]
  BY SayLemma DEF Silent
<1>2. ASSUME NEW E
      PROVE (\E u \in Tasks : Holds(out'[u], E)) <=> (\E u \in Tasks : Holds(out[u], E)) \/ Holds(es, E)
  BY <1>1, EmptyLemma
<1> QED
  BY <1>2 DEF Tells, Pending, Holds

\* The device task takes an event.
LEMMA TakeLemma ==
    ASSUME TasksOK, NEW F, Take(F)
    PROVE  /\ connect["device"] = "none" /\ Silent("device")
           /\ queue \in Seq(DeviceEvents) /\ queue # <<>> /\ Head(queue) \in F /\ queue' = Tail(queue)
           /\ queue' \in Seq(DeviceEvents) /\ Len(queue') <= DeviceQueueSize
           /\ \A E : Holds(queue, E) <=> Head(queue) \in E \/ Holds(queue', E)
<1>1. queue \in Seq(DeviceEvents) /\ queue # <<>> /\ queue' = Tail(queue) /\ Len(queue) <= DeviceQueueSize
  BY DEF TasksOK, Take
<1>2. Len(queue) \in Nat /\ Len(queue') = Len(queue) - 1
  BY <1>1
<1> QED
  BY <1>1, <1>2, TailLemma DEF Take, DeviceBusy

LEMMA TakeTells ==
    ASSUME TasksOK, NEW d, Take({d}), UNCHANGED out
    PROVE  Tells({d}, {})
<1>1. \A E : Holds(queue, E) <=> d \in E \/ Holds(queue', E)
  BY TakeLemma
<1>2. \A E : (\E u \in Tasks : Holds(out[u], E)) <=> (\E u \in Tasks : Holds(out'[u], E))
  OBVIOUS
<1> QED
  BY <1>1, <1>2 DEF Tells, Pending, Holds

\* It goes on to enqueue an event.
LEMMA TakeAndTell ==
    ASSUME TasksOK, NEW d, Take({d}), NEW e \in DeviceEvents, Say("device", <<e>>)
    PROVE  Tells({d}, {e})
<1>1. \A E : Holds(queue, E) <=> d \in E \/ Holds(queue', E)
  BY TakeLemma
<1>2. <<e>> \in Seq(DeviceEvents) /\ Len(<<e>>) = 1 /\ \A E : Holds(<<e>>, E) <=> e \in E
  BY SayTyped
<1>3. "device" \in Tasks
  BY DEF Tasks
<1>4. out["device"] = <<>> /\ out'["device"] = <<e>> /\ \A u \in Tasks \ {"device"} : out'[u] = out[u]
  <2>1. out["device"] = <<>>
    BY TakeLemma DEF Silent
  <2>2. Len(<<e>>) <= 2
    BY <1>2
  <2> QED
    BY <1>2, <1>3, <2>1, <2>2, SayLemma
<1>5. ASSUME NEW E
      PROVE (\E u \in Tasks : Holds(out'[u], E)) <=> (\E u \in Tasks : Holds(out[u], E)) \/ e \in E
  BY <1>2, <1>3, <1>4, EmptyLemma
<1> QED
  BY <1>1, <1>5 DEF Tells, Pending, Holds

LEMMA EnqueueLemma ==
    ASSUME TasksOK, NEW t \in Tasks, Enqueue(t)
    PROVE  /\ TasksOK' /\ Tells({}, {})
           /\ out[t] \in Seq(DeviceEvents) /\ out[t] # <<>> /\ queue \in Seq(DeviceEvents)
           /\ Head(out[t]) \in DeviceEvents /\ queue' = Append(queue, Head(out[t]))
           /\ out'[t] = Tail(out[t]) /\ \A u \in Tasks \ {t} : out'[u] = out[u]
<1>1. out[t] \in Seq(DeviceEvents) /\ out[t] # <<>> /\ Len(out[t]) <= 2 /\ queue \in Seq(DeviceEvents)
  BY DEF TasksOK, Enqueue
<1>2. Head(out[t]) \in DeviceEvents /\ Tail(out[t]) \in Seq(DeviceEvents) /\ Len(Tail(out[t])) <= 2
  <2>1. Len(out[t]) \in Nat /\ Len(Tail(out[t])) = Len(out[t]) - 1
    BY <1>1
  <2> QED
    BY <1>1, <2>1, TailLemma
<1>3. queue' = Append(queue, Head(out[t])) /\ Len(queue) < DeviceQueueSize /\ Say(t, Tail(out[t]))
  BY DEF Enqueue
<1>4. /\ out' \in [Tasks -> Seq(DeviceEvents)] /\ \A u \in Tasks : Len(out'[u]) <= 2
      /\ out'[t] = Tail(out[t]) /\ \A u \in Tasks \ {t} : out'[u] = out[u]
  BY <1>2, <1>3, SayLemma
<1>5. queue' \in Seq(DeviceEvents) /\ Len(queue') <= DeviceQueueSize
      /\ \A E : Holds(queue', E) <=> Holds(queue, E) \/ Head(out[t]) \in E
  <2>1. Len(queue) \in Nat /\ queue' \in Seq(DeviceEvents) /\ Len(queue') = Len(queue) + 1
    BY <1>1, <1>2, <1>3, AppendLemma
  <2> QED
    BY <1>1, <1>2, <1>3, <2>1, AppendLemma
<1>6. \A E : Holds(out[t], E) <=> Head(out[t]) \in E \/ Holds(out'[t], E)
  BY <1>1, <1>4, TailLemma
<1>7. ASSUME NEW E PROVE Pending(E)' <=> Pending(E)
  <2>1. Pending(E)' <=> Holds(queue', E) \/ \E u \in Tasks : Holds(out'[u], E)
    BY DEF Pending, Holds
  <2> QED
    BY <1>4, <1>5, <1>6, <2>1 DEF Pending
<1>8. TasksOK'
  BY <1>4, <1>5 DEF Enqueue, TasksOK
<1> QED
  BY <1>1, <1>2, <1>3, <1>4, <1>7, <1>8 DEF Tells

\* Nobody but t has more to enqueue.
Alone(t) == \A u \in Tasks \ {t} : out'[u] = out[u]

LEMMA SaysOne ==
    ASSUME TasksOK, UNCHANGED queue, NEW t \in Tasks, Silent(t), NEW e \in DeviceEvents, Say(t, <<e>>)
    PROVE  /\ out' \in [Tasks -> Seq(DeviceEvents)] /\ \A u \in Tasks : Len(out'[u]) <= 2
           /\ Alone(t) /\ out'[t] = <<e>> /\ Tells({}, {e})
<1>1. <<e>> \in Seq(DeviceEvents) /\ Len(<<e>>) <= 2 /\ \A E : Holds(<<e>>, E) <=> {e} \cap E # {}
  BY SayTyped
<1>2. Tells({}, {e})
  BY <1>1, TaskTells
<1> QED
  BY <1>1, <1>2, SayLemma DEF Alone

\* The application's state changes, and the device is told, of a sleep as well.
LEMMA StateTold ==
    ASSUME TasksOK, UNCHANGED queue, NEW t \in Tasks, Silent(t), NEW s
    PROVE  /\ UpdateState(t, s, <<>>) =>
                /\ out' \in [Tasks -> Seq(DeviceEvents)] /\ \A u \in Tasks : Len(out'[u]) <= 2
                /\ Alone(t) /\ Tells({}, {"STATE_CHANGED"})
                /\ \A E : Holds(out'[t], E) <=> "STATE_CHANGED" \in E
           /\ UpdateState(t, s, <<"SLEEP">>) =>
                /\ out' \in [Tasks -> Seq(DeviceEvents)] /\ \A u \in Tasks : Len(out'[u]) <= 2
                /\ Alone(t) /\ Tells({}, {"STATE_CHANGED", "SLEEP"})
                /\ \A E : Holds(out'[t], E) <=> "STATE_CHANGED" \in E \/ "SLEEP" \in E
<1>1. "STATE_CHANGED" \in DeviceEvents /\ "SLEEP" \in DeviceEvents /\ <<>> \in Seq(DeviceEvents) /\ Len(<<>>) = 0
  BY DEF DeviceEvents, SleepEvents
<1> DEFINE one == <<"STATE_CHANGED">> \o <<>>  two == <<"STATE_CHANGED">> \o <<"SLEEP">>
<1>2. one \in Seq(DeviceEvents) /\ Len(one) <= 2 /\ \A E : Holds(one, E) <=> "STATE_CHANGED" \in E
  BY <1>1, SayTyped, EmptyLemma
<1>3. two \in Seq(DeviceEvents) /\ Len(two) <= 2 /\ \A E : Holds(two, E) <=> "STATE_CHANGED" \in E \/ "SLEEP" \in E
  <2>1. <<"SLEEP">> \in Seq(DeviceEvents) /\ Len(<<"SLEEP">>) = 1 /\ \A E : Holds(<<"SLEEP">>, E) <=> "SLEEP" \in E
    BY <1>1, SayTyped
  <2>2. two \in Seq(DeviceEvents) /\ Len(two) = 2
    BY <1>1, <2>1, SayTyped
  <2>3. \A E : Holds(two, E) <=> "STATE_CHANGED" \in E \/ Holds(<<"SLEEP">>, E)
    BY <1>1, <2>1, SayTyped
  <2> QED
    BY <2>1, <2>2, <2>3
<1>4. ASSUME Say(t, one) PROVE Tells({}, {"STATE_CHANGED"})
  <2>1. \A E : Holds(one, E) <=> {"STATE_CHANGED"} \cap E # {}
    BY <1>2
  <2> QED
    BY <1>2, <1>4, <2>1, TaskTells
<1>5. ASSUME Say(t, two) PROVE Tells({}, {"STATE_CHANGED", "SLEEP"})
  <2>1. \A E : Holds(two, E) <=> {"STATE_CHANGED", "SLEEP"} \cap E # {}
    BY <1>3
  <2> QED
    BY <1>3, <1>5, <2>1, TaskTells
<1>6. (UpdateState(t, s, <<>>) => Say(t, one)) /\ (UpdateState(t, s, <<"SLEEP">>) => Say(t, two))
  BY DEF UpdateState
<1> HIDE DEF one, two
<1>7. ASSUME Say(t, one)
      PROVE  /\ out'[t] = one /\ Alone(t) /\ out' \in [Tasks -> Seq(DeviceEvents)]
             /\ \A u \in Tasks : Len(out'[u]) <= 2
  BY <1>2, <1>7, SayLemma DEF Alone
<1>8. ASSUME Say(t, two)
      PROVE  /\ out'[t] = two /\ Alone(t) /\ out' \in [Tasks -> Seq(DeviceEvents)]
             /\ \A u \in Tasks : Len(out'[u]) <= 2
  BY <1>3, <1>8, SayLemma DEF Alone
<1> QED
  BY <1>2, <1>3, <1>4, <1>5, <1>6, <1>7, <1>8

LEMMA LoopTells ==
    ASSUME TypeOK, OnConnected \/ OnStart \/ OnDisconnected \/ OnSpeech
    PROVE  /\ TasksOK' /\ Alone("loop") /\ Silent("loop")
           /\ OnConnected \/ OnStart => Tells({}, {"STATE_CHANGED"}) /\ \A E : Holds(out'["loop"], E) <=> "STATE_CHANGED" \in E
           /\ OnDisconnected => /\ Tells({}, {"STATE_CHANGED", "SLEEP"})
                                /\ \A E : Holds(out'["loop"], E) <=> "STATE_CHANGED" \in E \/ "SLEEP" \in E
           /\ OnSpeech => /\ Head(evq) \in {"SPEECH_START", "SPEECH_END"} /\ Tells({}, {Head(evq)})
                          /\ \A E : Holds(out'["loop"], E) <=> Head(evq) \in E
<1> USE DEF TypeOK
<1>1. "loop" \in Tasks /\ "SPEECH_START" \in DeviceEvents /\ "SPEECH_END" \in DeviceEvents
  BY DEF Tasks, DeviceEvents
<1>2. Silent("loop")
  BY DEF OnConnected, OnStart, OnDisconnected, OnSpeech, HandleAgentEvent
<1>3. UNCHANGED <<queue, connect>> /\ appState' \in AppStates
  BY DEF OnConnected, OnStart, OnDisconnected, OnSpeech, UpdateState, TasksOK, AppStates
<1>4. CASE OnConnected \/ OnStart
  <2>1. \E s : UpdateState("loop", s, <<>>)
    BY <1>4 DEF OnConnected, OnStart
  <2>2. ~OnDisconnected /\ ~OnSpeech
    BY <1>4 DEF OnConnected, OnStart, OnDisconnected, OnSpeech, HandleAgentEvent
  <2> QED
    BY <1>1, <1>2, <1>3, <2>1, <2>2, StateTold DEF TasksOK
<1>5. CASE OnDisconnected
  <2>1. UpdateState("loop", "DISCONNECTED", <<"SLEEP">>)
    BY <1>5 DEF OnDisconnected
  <2>2. ~OnConnected /\ ~OnStart /\ ~OnSpeech
    BY <1>5 DEF OnConnected, OnStart, OnDisconnected, OnSpeech, HandleAgentEvent
  <2> QED
    BY <1>1, <1>2, <1>3, <2>1, <2>2, StateTold DEF TasksOK
<1>6. CASE OnSpeech
  <2>1. Head(evq) \in {"SPEECH_START", "SPEECH_END"} /\ Say("loop", <<Head(evq)>>)
    BY <1>6 DEF OnSpeech, HandleAgentEvent
  <2>2. ~OnConnected /\ ~OnStart /\ ~OnDisconnected
    BY <1>6 DEF OnConnected, OnStart, OnDisconnected, OnSpeech, HandleAgentEvent
  <2>3. Head(evq) \in DeviceEvents /\ \A E : Holds(<<Head(evq)>>, E) <=> Head(evq) \in E
    BY <1>1, <2>1, SayTyped
  <2> QED
    BY <1>1, <1>2, <1>3, <2>1, <2>2, <2>3, SaysOne DEF TasksOK
<1> QED
  BY <1>4, <1>5, <1>6

\* Steps of the agent that only its own queues see.
LEMMA AgentTells ==
    ASSUME Agent \/ OnError
    PROVE  UNCHANGED <<appState, queue, out, connect, device, timers, audio>> /\ Tells({}, {})
<1>1. UNCHANGED <<appState, queue, out, connect, device, timers, audio>>
  BY DEF Agent, ClientConnects, ClientEnds, ServerAcks, ServerSpeaks, ServerError, MessageTask, OnError
<1> QED
  BY <1>1, NothingTold

LEMMA ConnectTells ==
    ASSUME TasksOK, BusyInv, NEW t \in Connectors, ConnectBegin(t) \/ ConnectEnd(t)
    PROVE  /\ TasksOK' /\ Alone(t) /\ t \in Tasks /\ Silent(t) /\ UNCHANGED <<queue, device, timers, audio>>
           /\ connect[t] # "none" /\ connect'[t] # "begin" /\ \A u \in Connectors \ {t} : connect'[u] = connect[u]
           /\ ConnectBegin(t) => /\ connect[t] = "begin" /\ connect'[t] = "starting" /\ appState' = "CONNECTING"
                                 /\ Tells({}, {"STATE_CHANGED"})
           /\ ConnectEnd(t) =>
                /\ connect[t] = "starting" /\ connect'[t] = "none"
                /\ \/ appState' = appState /\ t = "device" /\ Tells({}, {})
                   \/ appState' = appState /\ t = "starter" /\ Tells({}, {"SYSTEM_INITIALIZED"})
                   \/ appState' = "DISCONNECTED" /\ Tells({}, {"STATE_CHANGED"})
           /\ ~Holds(out'[t], {"SPEECH_START"})
<1>1. t \in Tasks /\ t \in {"device", "starter"} /\ "SYSTEM_INITIALIZED" \in DeviceEvents
  BY DEF Tasks, Connectors, DeviceEvents
<1>2. Silent(t) /\ UNCHANGED <<queue, device, timers, audio>>
  BY DEF ConnectBegin, ConnectEnd, BusyInv
<1>3. CASE ConnectBegin(t)
  <2>1. UpdateState(t, "CONNECTING", <<>>) /\ appState' = "CONNECTING" /\ connect[t] = "begin"
        /\ connect' = [connect EXCEPT ![t] = "starting"]
    BY <1>3 DEF ConnectBegin, UpdateState
  <2>2. /\ connect' \in [Connectors -> {"none", "begin", "starting"}] /\ connect'[t] = "starting"
        /\ \A u \in Connectors \ {t} : connect'[u] = connect[u]
    BY <2>1 DEF TasksOK
  <2> QED
    BY <1>1, <1>2, <1>3, <2>1, <2>2, StateTold DEF TasksOK, AppStates, ConnectEnd
<1>4. CASE ConnectEnd(t)
  <2>1. connect[t] = "starting" /\ connect' = [connect EXCEPT ![t] = "none"]
    BY <1>4 DEF ConnectEnd
  <2>2. /\ connect' \in [Connectors -> {"none", "begin", "starting"}] /\ connect'[t] = "none"
        /\ \A u \in Connectors \ {t} : connect'[u] = connect[u]
    BY <2>1 DEF TasksOK
  <2>3. \/ Say("starter", <<"SYSTEM_INITIALIZED">>) /\ t = "starter" /\ appState' = appState
        \/ UNCHANGED out /\ t = "device" /\ appState' = appState
        \/ UpdateState(t, "DISCONNECTED", <<>>) /\ appState' = "DISCONNECTED"
    BY <1>1, <1>4 DEF ConnectEnd, UpdateState
  <2>4. CASE Say("starter", <<"SYSTEM_INITIALIZED">>) /\ t = "starter" /\ appState' = appState
    <3>1. ~Holds(<<"SYSTEM_INITIALIZED">>, {"SPEECH_START"})
      BY <1>1, SayTyped
    <3>2. /\ out' \in [Tasks -> Seq(DeviceEvents)] /\ \A u \in Tasks : Len(out'[u]) <= 2
          /\ Alone(t) /\ out'[t] = <<"SYSTEM_INITIALIZED">> /\ Tells({}, {"SYSTEM_INITIALIZED"})
      BY <1>1, <1>2, <2>4, SaysOne
    <3> QED
      BY <1>1, <1>2, <2>1, <2>2, <2>4, <3>1, <3>2 DEF TasksOK, ConnectBegin
  <2>5. CASE UNCHANGED out /\ t = "device" /\ appState' = appState
    BY <1>1, <1>2, <2>1, <2>2, <2>5, NothingTold, EmptyLemma DEF TasksOK, Alone, Silent, ConnectBegin
  <2>6. CASE UpdateState(t, "DISCONNECTED", <<>>) /\ appState' = "DISCONNECTED"
    BY <1>1, <1>2, <2>1, <2>2, <2>6, StateTold DEF TasksOK, AppStates, ConnectBegin
  <2> QED
    BY <2>3, <2>4, <2>5, <2>6
<1> QED
  BY <1>3, <1>4

\* The other tasks of the application tell the device one event at a time.
LEMMA ProducersTell ==
    ASSUME TasksOK, BusyInv, Producers
    PROVE  /\ TasksOK' /\ UNCHANGED <<appState, connect, device, mic>>
           /\ \A t \in {"loop", "device", "starter"} : out'[t] = out[t]
           /\ \A t \in Tasks : out'[t] = out[t] \/ ~Holds(out'[t], {"SPEECH_START"})
           /\ \E new \in SUBSET (DeviceEvents \ {"SPEECH_START", "SYSTEM_INITIALIZED"}) : Tells({}, new)
           /\ SleepTimerFires => Tells({}, {"TIMEOUT"})
           /\ PlaybackDrains => Tells({}, {"PLAYBACK_COMPLETE"})
           /\ draining' => out'["download"] = <<>>
           /\ queue' = queue \/ queue' = Append(queue, "INTERRUPT")
<1> DEFINE Others == DeviceEvents \ {"SPEECH_START", "SYSTEM_INITIALIZED"}
<1>1. /\ UNCHANGED <<appState, connect, device, mic>>
      /\ (queue' = queue \/ (Touch /\ queue' = Append(queue, "INTERRUPT")))
  BY DEF Producers, MicSendFails, DownloadTaskWakes, PlaybackDrains, SleepTimerFires, ReminderTimerFires,
         ReminderExpires, Recorder, Touch, audio
<1>2. {"SLEEP", "PLAYBACK_COMPLETE", "TIMEOUT", "REMINDER_COMPLETE", "REMINDER", "WAKEUP", "INTERRUPT"} \subseteq Others
  BY DEF DeviceEvents, SleepEvents, WakeEvents
<1>3. ASSUME NEW t \in {"mic", "download", "timer", "recorder"}, NEW e \in Others, Silent(t), Say(t, <<e>>), UNCHANGED queue
      PROVE  /\ out' \in [Tasks -> Seq(DeviceEvents)] /\ \A u \in Tasks : Len(out'[u]) <= 2
             /\ Alone(t) /\ out'[t] = <<e>> /\ Tells({}, {e}) /\ ~Holds(out'[t], {"SPEECH_START"})
  <2>1. t \in Tasks /\ e \in DeviceEvents /\ e # "SPEECH_START"
    BY DEF Tasks
  <2>2. /\ out' \in [Tasks -> Seq(DeviceEvents)] /\ \A u \in Tasks : Len(out'[u]) <= 2
        /\ Alone(t) /\ out'[t] = <<e>> /\ Tells({}, {e})
    BY <1>3, <2>1, SaysOne
  <2> QED
    BY <2>1, <2>2, SayTyped
<1>4. ASSUME NEW t \in {"mic", "download", "timer", "recorder"}, NEW e \in Others, Silent(t), Say(t, <<e>>), UNCHANGED queue,
             draining' => t # "download" /\ draining,
             SleepTimerFires => e = "TIMEOUT", PlaybackDrains => e = "PLAYBACK_COMPLETE"
      PROVE  /\ TasksOK' /\ \A u \in {"loop", "device", "starter"} : out'[u] = out[u]
             /\ \A u \in Tasks : out'[u] = out[u] \/ ~Holds(out'[u], {"SPEECH_START"})
             /\ \E new \in SUBSET Others : Tells({}, new)
             /\ SleepTimerFires => Tells({}, {"TIMEOUT"})
             /\ PlaybackDrains => Tells({}, {"PLAYBACK_COMPLETE"})
             /\ draining' => out'["download"] = <<>>
  <2>1. /\ out' \in [Tasks -> Seq(DeviceEvents)] /\ \A u \in Tasks : Len(out'[u]) <= 2
        /\ Alone(t) /\ Tells({}, {e}) /\ ~Holds(out'[t], {"SPEECH_START"})
    BY <1>3, <1>4
  <2>2. TasksOK'
    BY <1>1, <1>4, <2>1 DEF TasksOK
  <2>3. {"loop", "device", "starter", "download"} \subseteq Tasks
    BY DEF Tasks
  <2>4. draining' => out'["download"] = <<>>
    BY <1>4, <2>1, <2>3 DEF BusyInv, Alone, Silent
  <2>5. {e} \in SUBSET Others
    OBVIOUS
  <2> QED
    BY <1>4, <2>1, <2>2, <2>3, <2>4, <2>5 DEF Alone
<1>5. CASE MicSendFails
  <2>1. ~SleepTimerFires /\ ~PlaybackDrains /\ draining' = draining
    BY <1>5 DEF MicSendFails, SleepTimerFires, PlaybackDrains, timers, audio
  <2> QED
    BY <1>1, <1>2, <1>4, <1>5, <2>1 DEF MicSendFails
<1>6. CASE PlaybackDrains
  <2>1. ~SleepTimerFires /\ ~draining' /\ Silent("download")
    BY <1>6 DEF SleepTimerFires, PlaybackDrains, BusyInv, audio
  <2> QED
    BY <1>1, <1>2, <1>4, <1>6, <2>1 DEF PlaybackDrains
<1>7. CASE SleepTimerFires
  <2>1. ~PlaybackDrains /\ draining' = draining
    BY <1>7 DEF SleepTimerFires, PlaybackDrains, audio
  <2> QED
    BY <1>1, <1>2, <1>4, <1>7, <2>1 DEF SleepTimerFires
<1>8. CASE ReminderTimerFires \/ ReminderExpires \/ Recorder
  <2>1. ~PlaybackDrains /\ ~SleepTimerFires /\ draining' = draining
    BY <1>8 DEF ReminderTimerFires, ReminderExpires, Recorder, SleepTimerFires, PlaybackDrains, audio, timers
  <2> QED
    BY <1>1, <1>2, <1>4, <1>8, <2>1 DEF ReminderTimerFires, ReminderExpires, Recorder
<1>9. CASE DownloadTaskWakes
  <2>1. UNCHANGED <<queue, out>> /\ Silent("download") /\ ~SleepTimerFires /\ ~PlaybackDrains
    BY <1>9 DEF DownloadTaskWakes, SleepTimerFires, PlaybackDrains, timers
  <2>2. Tells({}, {}) /\ {} \in SUBSET Others
    BY <2>1, NothingTold
  <2> QED
    BY <1>1, <2>1, <2>2 DEF TasksOK, Silent
<1>10. CASE Touch
  <2>1. /\ UNCHANGED <<out, draining>> /\ ~SleepTimerFires /\ ~PlaybackDrains
        /\ queue' = Append(queue, "INTERRUPT") /\ Len(queue) < DeviceQueueSize
    BY <1>10 DEF Touch, SleepTimerFires, PlaybackDrains, audio, timers
  <2>2. queue \in Seq(DeviceEvents) /\ "INTERRUPT" \in DeviceEvents /\ Len(queue) \in Nat
    BY <1>2 DEF TasksOK
  <2>3. queue' \in Seq(DeviceEvents) /\ Len(queue') = Len(queue) + 1
        /\ \A E : Holds(queue', E) <=> Holds(queue, E) \/ "INTERRUPT" \in E
    BY <2>1, <2>2, AppendLemma
  <2>4. \A E : Pending(E)' <=> Holds(queue', E) \/ \E u \in Tasks : Holds(out[u], E)
    BY <2>1 DEF Pending, Holds
  <2>5. Tells({}, {"INTERRUPT"}) /\ {"INTERRUPT"} \in SUBSET Others
    BY <1>2, <2>3, <2>4 DEF Tells, Pending
  <2>6. TasksOK'
    BY <1>1, <2>1, <2>2, <2>3 DEF TasksOK
  <2> QED
    BY <1>1, <2>1, <2>5, <2>6 DEF BusyInv, Silent
<1> QED
  BY <1>1, <1>5, <1>6, <1>7, <1>8, <1>9, <1>10 DEF Producers

LEMMA DeviceTells ==
    ASSUME TypeOK, DeviceTask
    PROVE  /\ TasksOK' /\ Alone("device") /\ connect["device"] = "none"
           /\ appState' = appState /\ Silent("device") /\ queue' = Tail(queue) /\ queue # <<>>
           /\ connect'["starter"] = connect["starter"]
           /\ connect'["device"] # "none" => WakeupConnects /\ connect'["device"] = "begin" /\ out'["device"] = <<>>
           /\ ~Holds(out'["device"], {"SPEECH_START"})
           /\ SystemInitialized => Tells({"SYSTEM_INITIALIZED"}, {})
           /\ SpeechStart => Head(queue) = "SPEECH_START" /\ Tells({"SPEECH_START"}, {})
           /\ SpeechEnd => Tells({"SPEECH_END"}, {})
           /\ SpeechPlaybackComplete => Tells({"PLAYBACK_COMPLETE"}, {"REWAKE"})
           /\ Wakeup => \E e \in WakeEvents : Tells({e}, {})
           /\ Sleep => \E e \in SleepEvents : Tells({e}, {})
           /\ Interrupt => \E e \in {"SLEEP", "SPEECH_END", "WAKEUP"} :
                              (state = "SPEAKING" => e = "SPEECH_END") /\ Tells({"INTERRUPT"}, {e})
           /\ AgentStateChanged => Tells({"STATE_CHANGED"}, {}) \/ Tells({"STATE_CHANGED"}, {"WAKEUP"})
           /\ Reminder => Tells({"REMINDER"}, {})
           /\ ReminderComplete => Tells({"REMINDER_COMPLETE"}, {})
<1> DEFINE Says == {"REWAKE", "SLEEP", "SPEECH_END", "WAKEUP"}
<1> USE DEF SystemInitialized, SpeechStart, SpeechEnd, SpeechPlaybackComplete, Wakeup, Sleep, Interrupt,
            AgentStateChanged, Reminder, ReminderComplete
<1>0. TasksOK /\ state \in {"IDLE", "LISTENING", "SPEAKING"}
  BY DEF TypeOK, DeviceOK, DeviceStates
<1> USE <1>0
<1>1. (\E F : Take(F)) /\ appState' = appState
  BY DEF DeviceTask
<1>2. /\ queue' = Tail(queue) /\ queue # <<>> /\ connect["device"] = "none" /\ Silent("device")
      /\ queue' \in Seq(DeviceEvents) /\ Len(queue') <= DeviceQueueSize
  BY <1>1, TakeLemma
<1>3. Says \subseteq DeviceEvents /\ "device" \in Tasks /\ "SPEECH_START" \notin Says
  BY DEF DeviceEvents, WakeEvents, SleepEvents, Tasks
<1>4. UNCHANGED out \/ \E e \in Says : Say("device", <<e>>)
  <2>1. CASE Interrupt
    <3>1. \/ state = "IDLE" /\ Say("device", <<"WAKEUP">>)
          \/ state = "LISTENING" /\ Say("device", <<"SLEEP">>)
          \/ state = "SPEAKING" /\ Say("device", <<"SPEECH_END">>)
      BY <2>1
    <3> QED
      BY <3>1
  <2>2. CASE ~Interrupt
    BY <2>2 DEF DeviceTask
  <2> QED
    BY <2>1, <2>2
<1>5. /\ out' \in [Tasks -> Seq(DeviceEvents)] /\ \A u \in Tasks : Len(out'[u]) <= 2
      /\ Alone("device") /\ ~Holds(out'["device"], {"SPEECH_START"})
  <2>1. CASE UNCHANGED out
    BY <1>2, <1>3, <2>1, EmptyLemma DEF TasksOK, Alone, Silent
  <2>2. ASSUME NEW e \in Says, Say("device", <<e>>)
        PROVE  /\ out' \in [Tasks -> Seq(DeviceEvents)] /\ \A u \in Tasks : Len(out'[u]) <= 2
               /\ Alone("device") /\ ~Holds(out'["device"], {"SPEECH_START"})
    <3>1. <<e>> \in Seq(DeviceEvents) /\ Len(<<e>>) <= 2 /\ ~Holds(<<e>>, {"SPEECH_START"})
      BY <1>3, SayTyped
    <3> QED
      BY <1>3, <2>2, <3>1, SayLemma DEF Alone
  <2> QED
    BY <1>4, <2>1, <2>2
<1>6. /\ connect' \in [Connectors -> {"none", "begin", "starting"}] /\ connect'["starter"] = connect["starter"]
      /\ connect'["device"] # "none" => WakeupConnects /\ connect'["device"] = "begin" /\ UNCHANGED out
  <2>1. UNCHANGED connect \/ (WakeupConnects /\ UNCHANGED out)
    BY DEF DeviceTask, WakeupIgnored, WakeupListens
  <2>2. WakeupConnects => connect' = [connect EXCEPT !["device"] = "begin"]
    BY DEF WakeupConnects
  <2>3. {"device", "starter"} = Connectors
    BY DEF Connectors
  <2> QED
    BY <1>2, <2>1, <2>2, <2>3 DEF TasksOK
<1>7. TasksOK' /\ (connect'["device"] # "none" => out'["device"] = <<>>)
  BY <1>1, <1>2, <1>3, <1>5, <1>6 DEF TasksOK, Silent
<1>8. ASSUME NEW F, Take(F), UNCHANGED out PROVE \E e \in F : Tells({e}, {})
  <2>1. Take({Head(queue)}) /\ Head(queue) \in F
    BY <1>8 DEF Take
  <2> QED
    BY <1>8, <2>1, TakeTells
<1>9. SystemInitialized => Tells({"SYSTEM_INITIALIZED"}, {})
  BY TakeTells
<1>10. SpeechStart => Head(queue) = "SPEECH_START" /\ Tells({"SPEECH_START"}, {})
  BY TakeTells DEF Take
<1>11. SpeechEnd => Tells({"SPEECH_END"}, {})
  BY TakeTells
<1>12. SpeechPlaybackComplete => Tells({"PLAYBACK_COMPLETE"}, {"REWAKE"})
  BY <1>3, TakeAndTell
<1>13. (Wakeup => \E e \in WakeEvents : Tells({e}, {})) /\ (Sleep => \E e \in SleepEvents : Tells({e}, {}))
  BY <1>8
<1>14. ASSUME Interrupt
       PROVE  \E e \in {"SLEEP", "SPEECH_END", "WAKEUP"} : (state = "SPEAKING" => e = "SPEECH_END") /\ Tells({"INTERRUPT"}, {e})
  <2>1. \/ state = "IDLE" /\ Say("device", <<"WAKEUP">>)
        \/ state = "LISTENING" /\ Say("device", <<"SLEEP">>)
        \/ state = "SPEAKING" /\ Say("device", <<"SPEECH_END">>)
    BY <1>14
  <2> QED
    BY <1>3, <1>14, <2>1, TakeAndTell
<1>15. AgentStateChanged => Tells({"STATE_CHANGED"}, {}) \/ Tells({"STATE_CHANGED"}, {"WAKEUP"})
  BY <1>3, TakeTells, TakeAndTell
<1>16. (Reminder => Tells({"REMINDER"}, {})) /\ (ReminderComplete => Tells({"REMINDER_COMPLETE"}, {}))
  BY TakeTells
<1> QED
  BY <1>1, <1>2, <1>5, <1>6, <1>7, <1>9, <1>10, <1>11, <1>12, <1>13, <1>14, <1>15, <1>16

-----------------------------------------------------------------------------
(* The device's part of the invariant *)

LEMMA DeviceTyped ==
    ASSUME DeviceOK, Next
    PROVE  DeviceOK'
<1> USE DEF DeviceOK, DeviceStates, MicStates, device, timers, audio
<1>1. CASE Agent \/ OnError
  BY <1>1, AgentTells
<1>2. CASE OnConnected \/ OnDisconnected \/ OnStart \/ OnSpeech
  BY <1>2 DEF OnConnected, OnDisconnected, OnStart, OnSpeech
<1>3. CASE \E t \in Connectors : ConnectBegin(t) \/ ConnectEnd(t)
  BY <1>3 DEF ConnectBegin, ConnectEnd
<1>4. CASE \E t \in Tasks : Enqueue(t)
  BY <1>4 DEF Enqueue
<1>5. CASE MicSendFails \/ ReminderExpires \/ Recorder \/ Touch
  <2>1. UNCHANGED <<device, timers, audio>>
    BY <1>5 DEF MicSendFails, ReminderExpires, Recorder, Touch
  <2> QED
    BY <2>1
<1>6. CASE DownloadTaskWakes
  BY <1>6 DEF DownloadTaskWakes
<1>7. CASE PlaybackDrains
  BY <1>7 DEF PlaybackDrains
<1>8. CASE SleepTimerFires \/ ReminderTimerFires
  BY <1>8 DEF SleepTimerFires, ReminderTimerFires
<1>9. CASE SystemInitialized \/ SpeechStart
  BY <1>9 DEF SystemInitialized, SpeechStart
<1>10. CASE SpeechEnd
  <2>1. downloadComplete' \in BOOLEAN
    BY <1>10 DEF SpeechEnd
  <2> QED
    BY <1>10, <2>1 DEF SpeechEnd
<1>11. CASE SpeechPlaybackComplete
  <2>1. reminderTimer' \in BOOLEAN
    BY <1>11 DEF SpeechPlaybackComplete
  <2> QED
    BY <1>11, <2>1 DEF SpeechPlaybackComplete
<1>12. CASE Wakeup
  BY <1>12 DEF Wakeup, WakeupIgnored, WakeupConnects, WakeupListens
<1>13. CASE Sleep
  BY <1>13 DEF Sleep
<1>14. CASE AgentStateChanged
  BY <1>14 DEF AgentStateChanged
<1>15. CASE ReminderComplete
  BY <1>15 DEF ReminderComplete
<1>16. CASE Interrupt
  <2>1. speaker' \in BOOLEAN
    BY <1>16 DEF Interrupt
  <2> QED
    BY <1>16, <2>1 DEF Interrupt
<1>17. CASE Reminder
  <2>1. reminderTimer' \in BOOLEAN
    BY <1>17 DEF Reminder
  <2> QED
    BY <1>17, <2>1 DEF Reminder
<1> QED
  BY <1>1, <1>2, <1>3, <1>4, <1>5, <1>6, <1>7, <1>8, <1>9, <1>10, <1>11, <1>12, <1>13, <1>14, <1>15, <1>16, <1>17
     DEF Next, EventLoopTask, DeviceTask, Producers

LEMMA TypeStep ==
    ASSUME TypeOK, BusyInv, Next
    PROVE  TypeOK'
<1>1. AgentOK'
  <2>1. CASE Agent \/ EventLoopTask
    BY <2>1, AgentTyped DEF TypeOK
  <2>2. CASE ~(Agent \/ EventLoopTask)
    BY <2>2, AgentKept DEF Next, TypeOK, AgentOK, agentQs
  <2> QED
    BY <2>1, <2>2
<1>2. TasksOK'
  <2>1. CASE Agent \/ OnError
    BY <2>1, AgentTells DEF TypeOK, TasksOK
  <2>2. CASE OnConnected \/ OnDisconnected \/ OnStart \/ OnSpeech
    BY <2>2, LoopTells
  <2>3. CASE Producers \/ DeviceTask
    BY <2>3, ProducersTell, DeviceTells DEF TypeOK
  <2>4. CASE (\E t \in Connectors : ConnectBegin(t) \/ ConnectEnd(t)) \/ (\E t \in Tasks : Enqueue(t))
    BY <2>4, ConnectTells, EnqueueLemma DEF TypeOK
  <2> QED
    BY <2>1, <2>2, <2>3, <2>4 DEF Next, EventLoopTask
<1> QED
  BY <1>1, <1>2, DeviceTyped DEF TypeOK

LEMMA DeviceInit == Init => DeviceInv
<1> SUFFICES ASSUME Init PROVE DeviceInv
  OBVIOUS
<1>1. \A E : ~Pending(E)
  BY EmptyLemma DEF Init, Pending
<1>2. BusyInv
  BY DEF Init, BusyInv, Silent, Connectors, Tasks
<1>3. ModeInv /\ WakeInv /\ ListeningTimesOut
  BY <1>1 DEF Init, ModeInv, WakeInv, ListeningTimesOut
<1> QED
  BY <1>2, <1>3, InitTyped DEF DeviceInv

LEMMA LoopStep ==
    ASSUME DeviceInv, EventLoopTask \/ Agent
    PROVE  BusyInv' /\ ModeInv' /\ WakeInv' /\ ListeningTimesOut'
<1> USE DEF DeviceInv
<1>1. CASE Agent \/ OnError
  <2>1. UNCHANGED <<appState, queue, out, connect, device, timers, audio>>
    BY <1>1, AgentTells
  <2>2. \A E : Pending(E)' <=> Pending(E)
    BY <2>1 DEF Pending, Holds
  <2> QED
    BY <2>1, <2>2 DEF BusyInv, ModeInv, WakeInv, ListeningTimesOut, Silent, device, timers, audio
<1>2. CASE OnConnected \/ OnStart \/ OnDisconnected \/ OnSpeech
  <2>1. UNCHANGED <<connect, device, timers, audio>>
    BY <1>2 DEF OnConnected, OnStart, OnDisconnected, OnSpeech
  <2>2. Alone("loop") /\ "loop" \notin Connectors /\ "download" \in Tasks /\ Connectors \subseteq Tasks
    BY <1>2, LoopTells DEF Connectors, Tasks
  <2>3. BusyInv'
    BY <2>1, <2>2 DEF BusyInv, Silent, Alone, audio
  <2>4. PICK new : /\ Tells({}, new) /\ "SYSTEM_INITIALIZED" \notin new
                   /\ ~OnSpeech => "STATE_CHANGED" \in new
    <3>1. CASE OnConnected \/ OnStart
      BY <3>1, LoopTells
    <3>2. CASE OnDisconnected
      BY <3>2, LoopTells
    <3>3. CASE OnSpeech
      BY <3>3, LoopTells
    <3> QED
      BY <1>2, <3>1, <3>2, <3>3
  <2>5. ModeInv'
    BY <2>1, <2>4, TellsLemma DEF ModeInv, device, audio
  <2>6. ListeningTimesOut'
    BY <2>1, <2>4, TellsLemma DEF ListeningTimesOut, device, timers
  <2>7. WakeInv'
    <3>1. OnSpeech => appState' = appState
      BY DEF OnSpeech
    <3> QED
      BY <2>1, <2>4, <3>1, TellsLemma DEF WakeInv, device
  <2> QED
    BY <2>3, <2>5, <2>6, <2>7
<1> QED
  BY <1>1, <1>2 DEF EventLoopTask

LEMMA ConnectStep ==
    ASSUME DeviceInv, (\E t \in Connectors : ConnectBegin(t) \/ ConnectEnd(t)) \/ (\E t \in Tasks : Enqueue(t))
    PROVE  BusyInv' /\ ModeInv' /\ WakeInv' /\ ListeningTimesOut'
<1> USE DEF DeviceInv
<1>1. ASSUME NEW t \in Connectors, ConnectBegin(t) \/ ConnectEnd(t)
      PROVE  BusyInv' /\ ModeInv' /\ WakeInv' /\ ListeningTimesOut'
  <2>1. /\ UNCHANGED <<queue, device, timers, audio>> /\ Alone(t) /\ connect[t] # "none" /\ connect'[t] # "begin"
        /\ \A u \in Connectors \ {t} : connect'[u] = connect[u]
    BY <1>1, ConnectTells DEF TypeOK
  <2>2. "download" \in Tasks /\ "download" \notin Connectors /\ Connectors = {"device", "starter"} /\ Connectors \subseteq Tasks
    BY DEF Tasks, Connectors
  <2>3. BusyInv'
    BY <2>1, <2>2 DEF BusyInv, Silent, Alone, audio
  <2>4. CASE ConnectBegin(t)
    <3>1. appState' = "CONNECTING" /\ Tells({}, {"STATE_CHANGED"})
      BY <2>4, ConnectTells DEF TypeOK
    <3> QED
      BY <2>1, <2>2, <2>3, <3>1, TellsLemma DEF ModeInv, WakeInv, ListeningTimesOut, device, timers, audio
  <2>5. CASE ConnectEnd(t)
    <3>1. /\ connect[t] = "starting" /\ connect'[t] = "none"
          /\ \/ appState' = appState /\ t = "device" /\ Tells({}, {})
             \/ appState' = appState /\ t = "starter" /\ Tells({}, {"SYSTEM_INITIALIZED"})
             \/ appState' = "DISCONNECTED" /\ Tells({}, {"STATE_CHANGED"})
      BY <2>5, ConnectTells DEF TypeOK
    <3>2. ModeInv' /\ ListeningTimesOut'
      BY <2>1, <2>2, <3>1, TellsLemma DEF ModeInv, ListeningTimesOut, device, timers, audio
    <3>3. WakeInv'
      BY <2>1, <2>2, <3>1, TellsLemma DEF WakeInv, device
    <3> QED
      BY <2>3, <3>2, <3>3
  <2> QED
    BY <1>1, <2>4, <2>5
<1>2. ASSUME NEW t \in Tasks, Enqueue(t)
      PROVE  BusyInv' /\ ModeInv' /\ WakeInv' /\ ListeningTimesOut'
  <2>1. UNCHANGED <<appState, connect, device, timers, audio>>
    BY <1>2 DEF Enqueue
  <2>2. Tells({}, {}) /\ out[t] # <<>> /\ \A u \in Tasks \ {t} : out'[u] = out[u]
    BY <1>2, EnqueueLemma DEF TypeOK
  <2>3. \A E : Pending(E)' <=> Pending(E)
    BY <2>2 DEF Tells
  <2>4. "download" \in Tasks /\ Connectors \subseteq Tasks
    BY DEF Tasks, Connectors
  <2>5. BusyInv'
    BY <2>1, <2>2, <2>4 DEF BusyInv, Silent, audio
  <2> QED
    BY <2>1, <2>3, <2>5 DEF ModeInv, WakeInv, ListeningTimesOut, device, timers, audio
<1> QED
  BY <1>1, <1>2

LEMMA ProducerStep ==
    ASSUME DeviceInv, Producers
    PROVE  BusyInv' /\ ModeInv' /\ WakeInv' /\ ListeningTimesOut'
<1> USE DEF DeviceInv
<1>1. /\ UNCHANGED <<appState, connect, device, mic>> /\ (draining' => out'["download"] = <<>>)
      /\ \A t \in {"loop", "device", "starter"} : out'[t] = out[t]
      /\ SleepTimerFires => Tells({}, {"TIMEOUT"})
  BY ProducersTell DEF TypeOK
<1>2. PICK new \in SUBSET (DeviceEvents \ {"SPEECH_START", "SYSTEM_INITIALIZED"}) : Tells({}, new)
  BY ProducersTell DEF TypeOK
<1>3. sleepTimer' = sleepTimer \/ SleepTimerFires
  BY DEF Producers, MicSendFails, DownloadTaskWakes, PlaybackDrains, SleepTimerFires, ReminderTimerFires,
         ReminderExpires, Recorder, Touch, timers
<1>4. BusyInv'
  BY <1>1 DEF BusyInv, Silent, Connectors
<1>5. ModeInv' /\ WakeInv'
  BY <1>1, <1>2, TellsLemma DEF ModeInv, WakeInv, device
<1>6. ListeningTimesOut'
  BY <1>1, <1>2, <1>3, TellsLemma DEF ListeningTimesOut, device
<1> QED
  BY <1>4, <1>5, <1>6

LEMMA DeviceStep ==
    ASSUME DeviceInv, DeviceTask
    PROVE  BusyInv' /\ ModeInv' /\ WakeInv' /\ ListeningTimesOut'
<1> USE DEF DeviceInv
<1>1. /\ Alone("device") /\ connect["device"] = "none" /\ appState' = appState
      /\ connect'["starter"] = connect["starter"]
      /\ connect'["device"] # "none" => WakeupConnects /\ connect'["device"] = "begin" /\ out'["device"] = <<>>
  BY DeviceTells
<1>2. "download" \in Tasks /\ "starter" \in Tasks /\ Connectors = {"device", "starter"} /\ "device" \notin {"download", "starter"}
  BY DEF Tasks, Connectors
<1>3. draining' = draining
  BY DEF DeviceTask, SystemInitialized, SpeechStart, SpeechEnd, SpeechPlaybackComplete, Wakeup, Sleep, Interrupt,
         AgentStateChanged, Reminder, ReminderComplete, audio
<1>4. BusyInv'
  BY <1>1, <1>2, <1>3 DEF BusyInv, Silent, Alone
<1>5. state \in {"IDLE", "LISTENING", "SPEAKING"}
  BY DEF TypeOK, DeviceOK, DeviceStates
<1> USE DEF ModeInv, WakeInv, ListeningTimesOut, device, timers, audio
<1>6. CASE SystemInitialized
  <2>1. Tells({"SYSTEM_INITIALIZED"}, {}) /\ Take({"SYSTEM_INITIALIZED"})
    BY <1>6, DeviceTells DEF SystemInitialized
  <2>2. Pending({"SYSTEM_INITIALIZED"})
    BY <2>1, TakeLemma DEF Pending, TypeOK
  <2> QED
    BY <1>1, <1>4, <1>6, <2>1, <2>2, TellsLemma DEF SystemInitialized
<1>7. CASE SpeechStart
  <2>1. Tells({"SPEECH_START"}, {})
    BY <1>7, DeviceTells
  <2> QED
    BY <1>1, <1>4, <1>7, <2>1, TellsLemma DEF SpeechStart
<1>8. CASE SpeechEnd
  <2>1. Tells({"SPEECH_END"}, {})
    BY <1>8, DeviceTells
  <2> QED
    BY <1>1, <1>4, <1>8, <2>1, TellsLemma DEF SpeechEnd
<1>9. CASE SpeechPlaybackComplete
  <2>1. Tells({"PLAYBACK_COMPLETE"}, {"REWAKE"})
    BY <1>9, DeviceTells
  <2> QED
    BY <1>1, <1>4, <1>9, <2>1, TellsLemma DEF SpeechPlaybackComplete
<1>10. CASE Wakeup
  <2>1. PICK e \in WakeEvents : Tells({e}, {})
    BY <1>10, DeviceTells
  <2>2. /\ Pending({"SYSTEM_INITIALIZED"})' => Pending({"SYSTEM_INITIALIZED"})
        /\ Pending({"STATE_CHANGED"}) => Pending({"STATE_CHANGED"})'
        /\ Pending(SleepEvents) => Pending(SleepEvents)'
    BY <2>1, TellsLemma DEF WakeEvents
  <2>3. UNCHANGED <<systemInitialized, reminderActive, reminderTimer>>
    BY <1>10 DEF Wakeup
  <2>4. CASE WakeupIgnored
    BY <1>1, <1>4, <2>2, <2>3, <2>4 DEF WakeupIgnored
  <2>5. CASE WakeupConnects
    BY <1>1, <1>4, <1>2, <2>2, <2>3, <2>5 DEF WakeupConnects
  <2>6. CASE WakeupListens
    BY <1>1, <1>4, <2>2, <2>3, <2>6 DEF WakeupListens
  <2> QED
    BY <1>4, <1>10, <2>4, <2>5, <2>6 DEF Wakeup
<1>11. CASE Sleep
  <2>1. PICK e \in SleepEvents : Tells({e}, {})
    BY <1>11, DeviceTells
  <2>2. /\ Pending({"SYSTEM_INITIALIZED"})' => Pending({"SYSTEM_INITIALIZED"})
        /\ Pending({"STATE_CHANGED"}) => Pending({"STATE_CHANGED"})'
    BY <2>1, TellsLemma DEF SleepEvents
  <2> QED
    BY <1>1, <1>4, <1>11, <2>2 DEF Sleep
<1>12. CASE Interrupt
  <2>1. PICK e \in {"SLEEP", "SPEECH_END", "WAKEUP"} : Tells({"INTERRUPT"}, {e})
    BY <1>12, DeviceTells
  <2>2. /\ Pending({"SYSTEM_INITIALIZED"})' => Pending({"SYSTEM_INITIALIZED"})
        /\ Pending({"STATE_CHANGED"}) => Pending({"STATE_CHANGED"})'
        /\ Pending(SleepEvents) => Pending(SleepEvents)'
    BY <2>1, TellsLemma
  <2> QED
    BY <1>1, <1>4, <1>12, <2>2 DEF Interrupt
<1>13. CASE AgentStateChanged
  <2>1. PICK new \in {{}, {"WAKEUP"}} : Tells({"STATE_CHANGED"}, new)
    BY <1>13, DeviceTells
  <2>2. /\ Pending({"SYSTEM_INITIALIZED"})' => Pending({"SYSTEM_INITIALIZED"})
        /\ Pending(SleepEvents) => Pending(SleepEvents)'
    BY <2>1, TellsLemma
  <2> QED
    BY <1>1, <1>4, <1>13, <2>2 DEF AgentStateChanged
<1>14. CASE Reminder \/ ReminderComplete
  <2>1. PICK e \in {"REMINDER", "REMINDER_COMPLETE"} : Tells({e}, {})
    BY <1>14, DeviceTells
  <2>2. /\ Pending({"SYSTEM_INITIALIZED"})' => Pending({"SYSTEM_INITIALIZED"})
        /\ Pending({"STATE_CHANGED"}) => Pending({"STATE_CHANGED"})'
        /\ Pending(SleepEvents) => Pending(SleepEvents)'
    BY <2>1, TellsLemma
  <2> QED
    BY <1>1, <1>4, <1>14, <2>2 DEF Reminder, ReminderComplete
<1> QED
  BY <1>4, <1>6, <1>7, <1>8, <1>9, <1>10, <1>11, <1>12, <1>13, <1>14 DEF DeviceTask

LEMMA DeviceInvStep == DeviceInv /\ [Next]_vars => DeviceInv'
<1> SUFFICES ASSUME DeviceInv, [Next]_vars PROVE DeviceInv'
  OBVIOUS
<1>1. CASE Next
  BY <1>1, TypeStep, LoopStep, ConnectStep, ProducerStep, DeviceStep DEF DeviceInv, Next
<1>2. CASE UNCHANGED vars
  BY <1>2 DEF vars, session, agentQs, device, timers, audio, DeviceInv, TypeOK, AgentOK, TasksOK, DeviceOK,
              BusyInv, ModeInv, WakeInv, ListeningTimesOut, Pending, Holds, Silent
<1> QED
  BY <1>1, <1>2

\* Every variable keeps its type, and every queue its size.
THEOREM DeviceTypeCorrect == Spec => []TypeOK
<1>1. DeviceInv => TypeOK
  BY DEF DeviceInv
<1> QED
  BY <1>1, DeviceInit, DeviceInvStep, PTL DEF Spec

\* Whatever the order of wake-ups, time-outs, touches and responses, a listening
\* device has its sleep timer armed or its sleep on the way, also when the
\* agent's stream of messages is broken.
THEOREM ListeningTheorem == Spec => []ListeningTimesOut
<1>1. DeviceInv => ListeningTimesOut
  BY DEF DeviceInv
<1> QED
  BY <1>1, DeviceInit, DeviceInvStep, PTL DEF Spec

\* A wake-up that had to wait for the agent is released by its start, also when
\* the start is handled in the middle of app_agent_connect.
THEOREM WakeTheorem == Spec => []PendingWakeAnswered
<1>1. DeviceInv => PendingWakeAnswered
  BY DEF DeviceInv, WakeInv, PendingWakeAnswered
<1> QED
  BY <1>1, DeviceInit, DeviceInvStep, PTL DEF Spec

-----------------------------------------------------------------------------
(* The agent's stream *)

\* The steps of the agent that leave its stream unbroken give nothing up.
LEMMA AgentSteps ==
    ASSUME AgentOK, Agent \/ OnError, broken' = {}
    PROVE  /\ broken = {}
           /\ \/ /\ client = "connecting" /\ client' = "connected" /\ UNCHANGED <<speech, inbox>>
                 /\ evq' = Append(evq, "CONNECTED")
              \/ /\ client' = "stopped" /\ speech' = FALSE /\ inbox = <<>> /\ inbox' = <<>>
                 /\ \/ evq' = Append(evq, "DISCONNECTED")
                    \/ evq # <<>> /\ Head(evq) = "ERROR" /\ evq' = Append(Tail(evq), "DISCONNECTED")
              \/ /\ ClientUp /\ ClientUp' /\ UNCHANGED evq
                 /\ \/ UNCHANGED speech /\ \E m \in {"ACK", "ERROR"} : inbox' = Append(inbox, m)
                    \/ speech /\ ~speech' /\ inbox' = Append(inbox, "SPEECH_END")
                    \/ ~speech /\ speech' /\ inbox' = Append(inbox, "SPEECH_START")
              \/ /\ UNCHANGED <<client, speech>> /\ inbox # <<>> /\ inbox' = Tail(inbox)
                 /\ \/ Head(inbox) \in {"SPEECH_START", "SPEECH_END"} /\ evq' = Append(evq, Head(inbox))
                    \/ Head(inbox) \in {"ACK", "ERROR"} /\ \E e \in {"START", "ERROR"} : evq' = Append(evq, e)
              \/ UNCHANGED <<client, speech, inbox>> /\ evq # <<>> /\ Head(evq) = "ERROR" /\ evq' = Tail(evq)
<1> USE DEF AgentOK
<1>1. {"CONNECTED", "DISCONNECTED", "START", "ERROR", "SPEECH_START", "SPEECH_END"} = AgentEvents
      /\ Messages = {"ACK", "SPEECH_START", "SPEECH_END", "ERROR"}
  BY DEF AgentEvents, Messages
<1>2. CASE ClientConnects
  BY <1>1, <1>2, PostLemma DEF ClientConnects
<1>3. CASE ClientEnds
  BY <1>3, EndLemma DEF ClientEnds
<1>4. CASE ServerAcks
  <2>1. broken = {} /\ UNCHANGED <<evq, speech>> /\ inbox' = Append(inbox, "ACK")
    BY <1>1, <1>4, DeliverLemma DEF ServerAcks
  <2> QED
    BY <1>4, <2>1 DEF ServerAcks, ClientUp
<1>5. CASE ServerSpeaks
  <2>1. broken = {} /\ UNCHANGED <<evq, client>> /\ inbox' = Append(inbox, IF speech THEN "SPEECH_END" ELSE "SPEECH_START")
    BY <1>1, <1>5, DeliverLemma DEF ServerSpeaks
  <2> QED
    BY <1>5, <2>1 DEF ServerSpeaks, ClientUp
<1>6. CASE ServerError
  <2>1. broken = {} /\ UNCHANGED <<evq, client, speech>> /\ inbox' = Append(inbox, "ERROR")
    BY <1>1, <1>6, DeliverLemma DEF ServerError, session
  <2> QED
    BY <1>6, <2>1 DEF ServerError, ClientUp
<1>7. CASE MessageTask
  <2>1. inbox # <<>> /\ inbox' = Tail(inbox) /\ UNCHANGED <<client, speech>>
        /\ Post(evq, IF Head(inbox) = "ACK" THEN "START" ELSE Head(inbox))
    BY <1>7 DEF MessageTask, session
  <2>2. Head(inbox) \in Messages
    BY <2>1
  <2>3. broken = {} /\ evq' = Append(evq, IF Head(inbox) = "ACK" THEN "START" ELSE Head(inbox))
    BY <1>1, <2>1, <2>2, PostLemma
  <2> QED
    BY <1>1, <2>1, <2>2, <2>3
<1>8. CASE OnError
  <2>1. evq # <<>> /\ Head(evq) = "ERROR" /\ inbox' = inbox
    BY <1>8 DEF OnError, HandleAgentEvent
  <2>2. CASE agentStarted /\ ClientUp
    <3>1. client' = "stopped" /\ speech' = FALSE /\ ClientEnd(Tail(evq))
      BY <1>8, <2>2 DEF OnError
    <3>2. broken = {} /\ inbox = <<>> /\ evq' = Append(Tail(evq), "DISCONNECTED")
      BY <2>1, <3>1, EventTyped, EndLemma
    <3> QED
      BY <2>1, <3>1, <3>2
  <2>3. CASE ~(agentStarted /\ ClientUp)
    BY <1>8, <2>1, <2>3 DEF OnError
  <2> QED
    BY <2>2, <2>3
<1> QED
  BY <1>2, <1>3, <1>4, <1>5, <1>6, <1>7, <1>8 DEF Agent

\* What the event loop does with the other events.
LEMMA LoopSteps ==
    ASSUME OnConnected \/ OnDisconnected \/ OnStart \/ OnSpeech
    PROVE  /\ UNCHANGED <<client, agentStarted, speech, inbox, broken, queue, connect, device, timers, audio>>
           /\ evq # <<>> /\ evq' = Tail(evq)
           /\ \/ OnConnected /\ Head(evq) = "CONNECTED" /\ appState' = "CONNECTED"
              \/ OnDisconnected /\ Head(evq) = "DISCONNECTED" /\ appState' = "DISCONNECTED"
              \/ OnStart /\ Head(evq) = "START" /\ appState' = "STARTED"
              \/ OnSpeech /\ Head(evq) \in {"SPEECH_START", "SPEECH_END"} /\ appState' = appState
<1>1. CASE OnConnected
  BY <1>1 DEF OnConnected, HandleAgentEvent, UpdateState, session
<1>2. CASE OnDisconnected
  BY <1>2 DEF OnDisconnected, HandleAgentEvent, UpdateState, session
<1>3. CASE OnStart
  BY <1>3 DEF OnStart, HandleAgentEvent, UpdateState, session
<1>4. CASE OnSpeech
  BY <1>4 DEF OnSpeech, HandleAgentEvent, session
<1> QED
  BY <1>1, <1>2, <1>3, <1>4

LEMMA LinkStep ==
    ASSUME DeviceInv, StreamInv, Next, broken' = {}
    PROVE  broken = {} /\ LinkInv'
<1>0. inbox \in Seq(Messages) /\ evq \in Seq(AgentEvents) /\ (evq # <<>> => Tail(evq) \in Seq(AgentEvents))
  BY DEF DeviceInv, TypeOK, AgentOK
<1>1. {"CONNECTED", "DISCONNECTED", "START", "ERROR", "SPEECH_START", "SPEECH_END"} = AgentEvents
  BY DEF AgentEvents
<1>2. CASE Agent \/ OnError
  <2>1. broken = {} /\ LinkInv /\ appState' = appState
    BY <1>2, AgentSteps, AgentTells DEF StreamInv, DeviceInv, TypeOK
  <2>2. ~ClientUp => inbox = <<>> /\ (evq # <<>> => evq[Len(evq)] = "DISCONNECTED")
    BY <2>1 DEF LinkInv
  <2>3. (~ClientUp /\ appState = "STARTED" => Holds(evq, {"DISCONNECTED"})) /\ Linked(evq, appState)
    BY <2>1 DEF LinkInv
  <2>4. CASE client = "connecting" /\ client' = "connected" /\ evq' = Append(evq, "CONNECTED")
    <3>1. ~ClientUp /\ ClientUp'
      BY <2>4 DEF ClientUp
    <3>2. evq = <<>> => appState # "STARTED"
      BY <2>3, <3>1, EmptyLemma
    <3>3. Linked(evq', appState)
      BY <1>0, <1>1, <2>2, <2>3, <2>4, <3>1, <3>2, LinkedLemma
    <3> QED
      BY <2>1, <3>1, <3>3 DEF LinkInv
  <2>5. ASSUME NEW q \in Seq(AgentEvents), Linked(q, appState), evq' = Append(q, "DISCONNECTED"), inbox' = <<>>
        PROVE  LinkInv'
    <3>1. Linked(evq', appState) /\ evq'[Len(evq')] = "DISCONNECTED" /\ Holds(evq', {"DISCONNECTED"})
      BY <1>1, <2>5, LinkedLemma, LastLemma, AppendLemma
    <3> QED
      BY <2>1, <2>5, <3>1 DEF LinkInv
  <2>6. evq # <<>> /\ Head(evq) = "ERROR" => Linked(Tail(evq), appState)
    BY <1>0, <2>3, LinkedLemma
  <2>7. CASE ClientUp /\ ClientUp' /\ UNCHANGED evq
    BY <2>1, <2>3, <2>7 DEF LinkInv
  <2>8. CASE UNCHANGED client /\ inbox # <<>> /\ \E e \in AgentEvents \ {"CONNECTED"} : evq' = Append(evq, e)
    <3>1. Linked(evq', appState)
      BY <1>0, <2>3, <2>8, LinkedLemma
    <3>2. ClientUp /\ ClientUp'
      BY <2>2, <2>8 DEF ClientUp
    <3> QED
      BY <2>1, <3>1, <3>2 DEF LinkInv
  <2>9. CASE UNCHANGED <<client, inbox>> /\ evq # <<>> /\ Head(evq) = "ERROR" /\ evq' = Tail(evq)
    <3>1. ClientUp' <=> ClientUp
      BY <2>9 DEF ClientUp
    <3>2. evq' # <<>> => evq'[Len(evq')] = evq[Len(evq)]
      BY <1>0, <2>9, LastLemma
    <3>3. Holds(evq, {"DISCONNECTED"}) => Holds(evq', {"DISCONNECTED"})
      BY <1>0, <2>9, TailLemma
    <3>4. Linked(evq', appState)
      BY <2>6, <2>9
    <3> QED
      BY <2>1, <2>2, <2>3, <2>9, <3>1, <3>2, <3>3, <3>4 DEF LinkInv
  <2> QED
    BY <1>0, <1>1, <1>2, <2>1, <2>3, <2>4, <2>5, <2>6, <2>7, <2>8, <2>9, AgentSteps DEF DeviceInv, TypeOK
<1>3. CASE OnConnected \/ OnDisconnected \/ OnStart \/ OnSpeech
  <2>1. UNCHANGED <<client, inbox, broken>> /\ evq # <<>> /\ evq' = Tail(evq)
    BY <1>3, LoopSteps
  <2>2. /\ broken = {} /\ Linked(evq, appState)
        /\ ~ClientUp => inbox = <<>> /\ evq[Len(evq)] = "DISCONNECTED"
        /\ ~ClientUp /\ appState = "STARTED" => Holds(evq, {"DISCONNECTED"})
    BY <2>1 DEF StreamInv, LinkInv
  <2>3. ClientUp' <=> ClientUp
    BY <2>1 DEF ClientUp
  <2>4. evq' # <<>> => evq'[Len(evq')] = evq[Len(evq)]
    BY <1>0, <2>1, LastLemma
  <2>5. Head(evq) # "DISCONNECTED" /\ Holds(evq, {"DISCONNECTED"}) => Holds(evq', {"DISCONNECTED"})
    BY <1>0, <2>1, TailLemma
  <2>6. Linked(evq', appState')
    <3>1. Head(evq) = "DISCONNECTED" => appState' # "STARTED"
      BY <1>3, LoopSteps
    <3> QED
      BY <1>0, <2>1, <2>2, <3>1, LinkedLemma
  <2>7. ~ClientUp /\ appState' = "STARTED" => Holds(evq', {"DISCONNECTED"})
    <3>1. evq[Len(evq)] = "DISCONNECTED" => Holds(evq, {"DISCONNECTED"})
      BY <1>0, <2>1, LastLemma
    <3>2. appState' = "STARTED" => Head(evq) # "DISCONNECTED"
      BY <1>3, LoopSteps
    <3> QED
      BY <2>2, <2>5, <3>1, <3>2
  <2> QED
    BY <2>1, <2>2, <2>3, <2>4, <2>6, <2>7 DEF LinkInv
<1>4. CASE ~(Agent \/ EventLoopTask)
  <2>1. DeviceTask \/ Producers \/ (\E t \in Connectors : ConnectBegin(t) \/ ConnectEnd(t)) \/ (\E t \in Tasks : Enqueue(t))
    BY <1>4 DEF Next
  <2>2. UNCHANGED <<inbox, evq, broken>> /\ (UNCHANGED client \/ (client = "stopped" /\ client' = "connecting"))
    BY <2>1, AgentKept DEF agentQs
  <2>3. ClientUp' <=> ClientUp
    BY <2>2 DEF ClientUp
  <2>4. appState' = appState \/ appState' \in {"CONNECTING", "DISCONNECTED"}
    <3>1. CASE DeviceTask \/ Producers
      BY <3>1, DeviceTells, ProducersTell DEF DeviceInv, TypeOK
    <3>2. CASE \E t \in Connectors : ConnectBegin(t) \/ ConnectEnd(t)
      BY <3>2, ConnectTells DEF DeviceInv, TypeOK
    <3>3. CASE \E t \in Tasks : Enqueue(t)
      BY <3>3 DEF Enqueue
    <3> QED
      BY <2>1, <3>1, <3>2, <3>3
  <2>5. Linked(evq, appState) => Linked(evq, appState')
    BY <2>4 DEF Linked
  <2> QED
    BY <2>2, <2>3, <2>4, <2>5 DEF StreamInv, LinkInv
<1> QED
  BY <1>2, <1>3, <1>4 DEF EventLoopTask

\* The end of the link is not lost by the other steps of the agent.
LEMMA EndKept ==
    ASSUME AgentOK, Agent \/ OnError, broken' = {}, Holds(evq, {"DISCONNECTED"})
    PROVE  Holds(evq', {"DISCONNECTED"})
<1>1. evq \in Seq(AgentEvents) /\ inbox \in Seq(Messages) /\ (evq # <<>> => Tail(evq) \in Seq(AgentEvents))
      /\ {"CONNECTED", "DISCONNECTED", "START", "ERROR", "SPEECH_START", "SPEECH_END"} = AgentEvents
  BY DEF AgentOK, AgentEvents
<1>2. \A e \in AgentEvents : evq' = Append(evq, e) => Holds(evq', {"DISCONNECTED"})
  BY <1>1, AppendLemma
<1>3. ASSUME NEW q \in Seq(AgentEvents), evq' = Append(q, "DISCONNECTED") PROVE Holds(evq', {"DISCONNECTED"})
  BY <1>1, <1>3, AppendLemma
<1>4. evq # <<>> /\ Head(evq) = "ERROR" /\ evq' = Tail(evq) => Holds(evq', {"DISCONNECTED"})
  BY <1>1, TailLemma
<1>5. UNCHANGED evq => Holds(evq', {"DISCONNECTED"})
  OBVIOUS
<1> QED
  BY <1>1, <1>2, <1>3, <1>4, <1>5, AgentSteps

LEMMA AwakeStep ==
    ASSUME DeviceInv, StreamInv, Next, broken' = {}
    PROVE  AwakeInv'
<1>0. TypeOK /\ ModeInv /\ LinkInv /\ AwakeInv
  BY LinkStep DEF StreamInv, DeviceInv
<1>1. CASE Agent \/ OnError
  <2>1. UNCHANGED <<appState, queue, out, connect, device>>
    BY <1>1, AgentTells
  <2>2. Holds(evq, {"DISCONNECTED"}) => Holds(evq', {"DISCONNECTED"})
    BY <1>0, <1>1, EndKept DEF TypeOK
  <2>3. Pending(SleepEvents)' <=> Pending(SleepEvents)
    BY <2>1 DEF Pending, Holds
  <2>4. SleepComes => SleepComes'
    BY <2>2, <2>3 DEF SleepComes
  <2> QED
    BY <1>0, <2>1, <2>4 DEF AwakeInv, device
<1>2. CASE OnConnected \/ OnDisconnected \/ OnStart \/ OnSpeech
  <2>1. UNCHANGED <<connect, device>> /\ evq # <<>> /\ evq' = Tail(evq) /\ evq \in Seq(AgentEvents)
    BY <1>0, <1>2, LoopSteps DEF TypeOK, AgentOK
  <2>2. CASE OnDisconnected
    <3>1. Pending(SleepEvents)'
      BY <1>0, <2>2, LoopTells, TellsLemma
    <3> QED
      BY <3>1 DEF AwakeInv, SleepComes
  <2>3. CASE ~OnDisconnected
    <3>1. Head(evq) # "DISCONNECTED"
      BY <1>2, <2>3, LoopSteps
    <3>2. Holds(evq, {"DISCONNECTED"}) => Holds(evq', {"DISCONNECTED"})
      BY <2>1, <3>1, TailLemma
    <3>3. \E new : Tells({}, new)
      BY <1>0, <1>2, <2>3, LoopTells
    <3>4. SleepComes => SleepComes'
      BY <3>2, <3>3, TellsLemma DEF SleepComes
    <3>5. appState' = appState \/ appState' = "STARTED" \/ appState # "STARTED"
      <4>1. Head(evq) = "CONNECTED" => appState # "STARTED"
        BY <1>0, <2>1, LinkedLemma DEF LinkInv
      <4> QED
        BY <1>2, <2>3, <4>1, LoopSteps
    <3> QED
      BY <1>0, <2>1, <3>4, <3>5 DEF AwakeInv, device
  <2> QED
    BY <2>2, <2>3
<1>3. CASE \E t \in Connectors : ConnectBegin(t) \/ ConnectEnd(t)
  <2>1. PICK t \in Connectors : ConnectBegin(t) \/ ConnectEnd(t)
    BY <1>3
  <2>2. /\ UNCHANGED <<queue, device>> /\ connect[t] # "none" /\ \A u \in Connectors \ {t} : connect'[u] = connect[u]
        /\ \E new : Tells({}, new)
    BY <1>0, <2>1, ConnectTells DEF DeviceInv, TypeOK
  <2>3. evq' = evq /\ Connectors = {"device", "starter"}
    BY <1>3, AgentKept DEF agentQs, Connectors
  <2>4. SleepComes => SleepComes'
    BY <2>2, <2>3, TellsLemma DEF SleepComes
  <2>5. CASE t = "device"
    BY <1>0, <2>2, <2>4, <2>5 DEF AwakeInv, device
  <2>6. CASE t = "starter"
    BY <1>0, <2>2, <2>6 DEF AwakeInv, ModeInv, device
  <2> QED
    BY <2>3, <2>5, <2>6
<1>4. CASE (\E t \in Tasks : Enqueue(t)) \/ Producers
  <2>1. UNCHANGED <<appState, connect, device>> /\ \E new : Tells({}, new)
    <3>1. CASE \E t \in Tasks : Enqueue(t)
      BY <1>0, <3>1, EnqueueLemma DEF Enqueue, TypeOK
    <3>2. CASE Producers
      BY <3>2, ProducersTell DEF DeviceInv, TypeOK
    <3> QED
      BY <1>4, <3>1, <3>2
  <2>2. evq' = evq
    BY <1>4, AgentKept DEF agentQs
  <2>3. SleepComes => SleepComes'
    BY <2>1, <2>2, TellsLemma DEF SleepComes
  <2> QED
    BY <1>0, <2>1, <2>3 DEF AwakeInv, device
<1>5. CASE DeviceTask
  <2>1. evq' = evq /\ appState' = appState /\ connect["device"] = "none"
        /\ (connect'["device"] # "none" => WakeupConnects)
    BY <1>0, <1>5, AgentKept, DeviceTells DEF agentQs
  <2>2. CASE Sleep
    BY <2>2 DEF Sleep, AwakeInv
  <2>3. CASE ~Sleep
    <3>1. \E gone, new : Tells(gone, new) /\ "SLEEP" \notin gone /\ "TIMEOUT" \notin gone
      <4>1. CASE SystemInitialized \/ SpeechStart \/ SpeechEnd \/ SpeechPlaybackComplete
        BY <1>0, <1>5, <4>1, DeviceTells
      <4>2. CASE Wakeup
        BY <1>0, <1>5, <4>2, DeviceTells DEF WakeEvents
      <4>3. CASE Interrupt \/ AgentStateChanged
        BY <1>0, <1>5, <4>3, DeviceTells
      <4>4. CASE Reminder \/ ReminderComplete
        BY <1>0, <1>5, <4>4, DeviceTells
      <4> QED
        BY <1>5, <2>3, <4>1, <4>2, <4>3, <4>4 DEF DeviceTask
    <3>2. SleepComes => SleepComes'
      BY <2>1, <3>1, TellsLemma DEF SleepComes
    <3>3. state' = state \/ state # "IDLE" \/ appState = "STARTED"
      <4>1. CASE Wakeup
        BY <4>1 DEF Wakeup, WakeupIgnored, WakeupConnects, WakeupListens
      <4>2. CASE ~Wakeup
        BY <1>5, <2>3, <4>2 DEF DeviceTask, SystemInitialized, SpeechStart, SpeechEnd, SpeechPlaybackComplete,
           Interrupt, AgentStateChanged, Reminder, ReminderComplete, device
      <4> QED
        BY <4>1, <4>2
    <3>4. WakeupConnects => appState # "STARTED" /\ state' = state
      BY DEF WakeupConnects
    <3> QED
      BY <1>0, <2>1, <3>2, <3>3, <3>4 DEF AwakeInv
  <2> QED
    BY <2>2, <2>3
<1> QED
  BY <1>1, <1>2, <1>3, <1>4, <1>5 DEF Next, EventLoopTask

\* The end of a response is not lost by the steps of the agent: of a message it
\* becomes an event, and the end of the link ends the response too.
LEMMA ResponseKept ==
    ASSUME AgentOK, Agent \/ OnError, broken' = {}, EndFromAgent
    PROVE  EndFromAgent'
<1>1. /\ evq \in Seq(AgentEvents) /\ inbox \in Seq(Messages) /\ (evq # <<>> => Tail(evq) \in Seq(AgentEvents))
      /\ {"CONNECTED", "DISCONNECTED", "START", "ERROR", "SPEECH_START", "SPEECH_END"} = AgentEvents
      /\ {"ACK", "SPEECH_START", "SPEECH_END", "ERROR"} = Messages
  BY DEF AgentOK, AgentEvents, Messages
<1> DEFINE Ends == {"SPEECH_END", "DISCONNECTED"}
<1>2. ASSUME NEW q \in Seq(AgentEvents), evq' = Append(q, "DISCONNECTED") PROVE Holds(evq', Ends)
  BY <1>1, <1>2, AppendLemma
<1>3. ASSUME NEW e \in AgentEvents, evq' = Append(evq, e) PROVE Holds(evq', Ends) <=> Holds(evq, Ends) \/ e \in Ends
  BY <1>1, <1>3, AppendLemma
<1>4. ASSUME NEW m \in Messages, inbox' = Append(inbox, m)
      PROVE  Holds(inbox', {"SPEECH_END"}) <=> Holds(inbox, {"SPEECH_END"}) \/ m = "SPEECH_END"
  BY <1>1, <1>4, AppendLemma
<1>5. ASSUME inbox # <<>>, inbox' = Tail(inbox)
      PROVE  Holds(inbox, {"SPEECH_END"}) <=> Head(inbox) = "SPEECH_END" \/ Holds(inbox', {"SPEECH_END"})
  BY <1>1, <1>5, TailLemma
<1>6. ASSUME evq # <<>>, Head(evq) = "ERROR", evq' = Tail(evq) PROVE Holds(evq', Ends) <=> Holds(evq, Ends)
  BY <1>1, <1>6, TailLemma
<1>7. EndFromAgent' <=> speech' \/ Holds(inbox', {"SPEECH_END"}) \/ Holds(evq', Ends)
  BY DEF EndFromAgent, EndFromServer, Holds
<1>8. EndFromAgent <=> speech \/ Holds(inbox, {"SPEECH_END"}) \/ Holds(evq, Ends)
  BY DEF EndFromAgent, EndFromServer
<1> HIDE DEF Ends
<1>9. CASE UNCHANGED <<speech, inbox>> /\ (\/ evq' = Append(evq, "CONNECTED")
                                           \/ evq # <<>> /\ Head(evq) = "ERROR" /\ evq' = Tail(evq))
  BY <1>1, <1>3, <1>6, <1>7, <1>8, <1>9
<1>10. CASE \/ evq' = Append(evq, "DISCONNECTED")
            \/ evq # <<>> /\ evq' = Append(Tail(evq), "DISCONNECTED")
  BY <1>1, <1>2, <1>7, <1>10
<1>11. CASE /\ UNCHANGED evq
            /\ \/ UNCHANGED speech /\ \E m \in {"ACK", "ERROR"} : inbox' = Append(inbox, m)
               \/ speech /\ ~speech' /\ inbox' = Append(inbox, "SPEECH_END")
               \/ ~speech /\ speech' /\ inbox' = Append(inbox, "SPEECH_START")
  BY <1>1, <1>4, <1>7, <1>8, <1>11
<1>12. CASE /\ UNCHANGED speech /\ inbox # <<>> /\ inbox' = Tail(inbox)
            /\ \/ Head(inbox) \in {"SPEECH_START", "SPEECH_END"} /\ evq' = Append(evq, Head(inbox))
               \/ Head(inbox) \in {"ACK", "ERROR"} /\ \E e \in {"START", "ERROR"} : evq' = Append(evq, e)
  <2>1. "SPEECH_END" \in Ends
    BY DEF Ends
  <2> QED
    BY <1>1, <1>3, <1>5, <1>7, <1>8, <1>12, <2>1
<1> QED
  BY <1>9, <1>10, <1>11, <1>12, AgentSteps

LEMMA ResponseStep ==
    ASSUME DeviceInv, StreamInv, Next, broken' = {}
    PROVE  ResponseInv'
<1> DEFINE Ends == {"SPEECH_END", "DISCONNECTED"}
<1>0. TypeOK /\ ResponseInv
  BY LinkStep DEF StreamInv, DeviceInv
<1>1. /\ evq \in Seq(AgentEvents) /\ (evq # <<>> => Tail(evq) \in Seq(AgentEvents))
      /\ inbox \in Seq(Messages) /\ queue \in Seq(DeviceEvents) /\ \A t \in Tasks : out[t] \in Seq(DeviceEvents)
  BY <1>0 DEF TypeOK, AgentOK, TasksOK
<1>2. /\ {"CONNECTED", "DISCONNECTED", "START", "ERROR", "SPEECH_START", "SPEECH_END"} = AgentEvents
      /\ {"ACK", "SPEECH_START", "SPEECH_END", "ERROR"} = Messages
      /\ "loop" \in Tasks /\ Connectors \subseteq Tasks \ {"loop"} /\ "device" \in Tasks /\ "device" # "loop"
      /\ "SPEECH_END" \in Endings /\ "SLEEP" \in Endings /\ "SPEECH_START" \notin Endings
      /\ "INTERRUPT" \in DeviceEvents
  BY DEF AgentEvents, Messages, Tasks, Connectors, Endings, DeviceEvents, SleepEvents, WakeEvents
<1>3. /\ speech \/ Closes(inbox, {"SPEECH_END"})
      /\ speech \/ Holds(inbox, {"SPEECH_END"}) \/ Closes(evq, Ends)
      /\ Holds(out["loop"], {"SPEECH_START"}) => EndFromAgent
      /\ EndFromAgent \/ Holds(out["loop"], Endings) \/ Closes(queue, Endings)
      /\ \A t \in Tasks \ {"loop"} : ~Holds(out[t], {"SPEECH_START"})
  BY <1>0 DEF ResponseInv, EndFromServer
<1> DEFINE Goal == /\ speech' \/ Closes(inbox', {"SPEECH_END"})
                   /\ speech' \/ Holds(inbox', {"SPEECH_END"}) \/ Closes(evq', Ends)
                   /\ Holds(out'["loop"], {"SPEECH_START"}) => EndFromAgent'
                   /\ EndFromAgent' \/ Holds(out'["loop"], Endings) \/ Closes(queue', Endings)
                   /\ \A t \in Tasks \ {"loop"} : ~Holds(out'[t], {"SPEECH_START"})
<1>4. SUFFICES Goal
  BY DEF ResponseInv, EndFromServer, Closes, Holds
<1> HIDE DEF Ends
<1>5. CASE Agent \/ OnError
  <2>1. UNCHANGED <<queue, out>> /\ (EndFromAgent => EndFromAgent')
    BY <1>0, <1>5, AgentTells, ResponseKept DEF TypeOK
  <2>2. SUFFICES /\ speech' \/ Closes(inbox', {"SPEECH_END"})
                 /\ speech' \/ Holds(inbox', {"SPEECH_END"}) \/ Closes(evq', Ends)
    BY <1>3, <2>1
  <2>3. "DISCONNECTED" \in Ends /\ "SPEECH_END" \in Ends
    BY DEF Ends
  <2>4. ASSUME NEW e \in AgentEvents, evq' = Append(evq, e), e # "SPEECH_START", e \in Ends \/ Closes(evq, Ends)
        PROVE  Closes(evq', Ends)
    BY <1>1, <2>4, ClosesAppend
  <2>5. CASE UNCHANGED <<speech, inbox>> /\ evq' = Append(evq, "CONNECTED")
    BY <1>2, <1>3, <2>4, <2>5
  <2>6. CASE /\ inbox' = <<>>
             /\ \/ evq' = Append(evq, "DISCONNECTED")
                \/ evq # <<>> /\ evq' = Append(Tail(evq), "DISCONNECTED")
    <3>1. ASSUME NEW q \in Seq(AgentEvents), evq' = Append(q, "DISCONNECTED") PROVE Closes(evq', Ends)
      BY <1>2, <2>3, <3>1, ClosesAppend
    <3>2. Closes(inbox', {"SPEECH_END"})
      BY <2>6 DEF Closes
    <3> QED
      BY <1>1, <2>6, <3>1, <3>2
  <2>7. CASE UNCHANGED evq /\ UNCHANGED speech /\ \E m \in {"ACK", "ERROR"} : inbox' = Append(inbox, m)
    <3>1. PICK m \in {"ACK", "ERROR"} : inbox' = Append(inbox, m)
      BY <2>7
    <3>2. Closes(inbox, {"SPEECH_END"}) => Closes(inbox', {"SPEECH_END"})
      BY <1>1, <1>2, <3>1, ClosesAppend
    <3>3. Holds(inbox, {"SPEECH_END"}) => Holds(inbox', {"SPEECH_END"})
      BY <1>1, <1>2, <3>1, AppendLemma
    <3> QED
      BY <1>3, <2>7, <3>2, <3>3
  <2>8. CASE inbox' = Append(inbox, "SPEECH_END")
    <3>1. Closes(inbox', {"SPEECH_END"})
      BY <1>1, <1>2, <2>8, ClosesAppend
    <3>2. Holds(inbox', {"SPEECH_END"})
      BY <1>1, <1>2, <2>8, AppendLemma
    <3> QED
      BY <3>1, <3>2
  <2>9. CASE speech'
    BY <2>9
  <2>10. CASE /\ UNCHANGED speech /\ inbox # <<>> /\ inbox' = Tail(inbox)
              /\ \/ Head(inbox) \in {"SPEECH_START", "SPEECH_END"} /\ evq' = Append(evq, Head(inbox))
                 \/ Head(inbox) \in {"ACK", "ERROR"} /\ \E e \in {"START", "ERROR"} : evq' = Append(evq, e)
    <3>1. Holds(inbox, {"SPEECH_END"}) <=> Head(inbox) = "SPEECH_END" \/ Holds(inbox', {"SPEECH_END"})
      BY <1>1, <2>10, TailLemma
    <3>2. Closes(inbox, {"SPEECH_END"}) =>
            Closes(inbox', {"SPEECH_END"}) /\ (Head(inbox) = "SPEECH_START" => Holds(inbox', {"SPEECH_END"}))
      BY <1>1, <2>10, ClosesTail
    <3>3. CASE Head(inbox) = "SPEECH_END"
      <4>1. Closes(evq', Ends)
        BY <1>2, <2>3, <2>4, <2>10, <3>3
      <4> QED
        BY <1>3, <2>10, <3>2, <4>1
    <3>4. CASE Head(inbox) = "SPEECH_START"
      BY <1>3, <2>10, <3>2, <3>4
    <3>5. CASE Head(inbox) \in {"ACK", "ERROR"}
      <4>1. PICK e \in {"START", "ERROR"} : evq' = Append(evq, e)
        BY <2>10, <3>5
      <4>2. Closes(evq, Ends) => Closes(evq', Ends)
        BY <1>2, <2>4, <4>1
      <4> QED
        BY <1>3, <2>10, <3>1, <3>2, <3>5, <4>2
    <3> QED
      BY <2>10, <3>3, <3>4, <3>5
  <2>11. CASE UNCHANGED <<speech, inbox>> /\ evq # <<>> /\ evq' = Tail(evq)
    <3>1. Closes(evq, Ends) => Closes(evq', Ends)
      BY <1>1, <2>11, ClosesTail
    <3> QED
      BY <1>3, <2>11, <3>1
  <2> QED
    BY <1>0, <1>5, <2>5, <2>6, <2>7, <2>8, <2>9, <2>10, <2>11, AgentSteps DEF TypeOK
<1>6. CASE OnConnected \/ OnDisconnected \/ OnStart \/ OnSpeech
  <2>1. /\ UNCHANGED <<speech, inbox, queue>> /\ evq # <<>> /\ evq' = Tail(evq)
        /\ Alone("loop") /\ Silent("loop")
    BY <1>0, <1>6, LoopSteps, LoopTells
  <2>2. \A t \in Tasks \ {"loop"} : ~Holds(out'[t], {"SPEECH_START"})
    BY <1>3, <2>1 DEF Alone
  <2>3. Closes(evq, Ends) => Closes(evq', Ends) /\ (Head(evq) = "SPEECH_START" => Holds(evq', Ends))
    BY <1>1, <2>1, ClosesTail
  <2>4. speech \/ Holds(inbox, {"SPEECH_END"}) \/ Closes(evq', Ends)
    BY <1>3, <2>3
  <2>5. Holds(evq, Ends) <=> Head(evq) \in Ends \/ Holds(evq', Ends)
    BY <1>1, <2>1, TailLemma
  <2>6. /\ EndFromAgent <=> speech \/ Holds(inbox, {"SPEECH_END"}) \/ Holds(evq, Ends)
        /\ EndFromAgent' <=> speech \/ Holds(inbox, {"SPEECH_END"}) \/ Holds(evq', Ends)
    BY <2>1 DEF EndFromAgent, EndFromServer, Holds, Ends
  <2>7. ~Holds(out["loop"], Endings)
    BY <2>1, EmptyLemma DEF Silent
  <2>8. CASE OnConnected \/ OnStart
    <3>1. ~Holds(out'["loop"], {"SPEECH_START"})
      BY <1>0, <2>8, LoopTells
    <3>2. Head(evq) \notin Ends
      BY <2>8 DEF OnConnected, OnStart, HandleAgentEvent, Ends
    <3> QED
      BY <1>3, <2>1, <2>2, <2>4, <2>5, <2>6, <2>7, <3>1, <3>2
  <2>9. CASE OnDisconnected
    <3>1. ~Holds(out'["loop"], {"SPEECH_START"}) /\ Holds(out'["loop"], Endings)
      BY <1>0, <1>2, <2>9, LoopTells
    <3> QED
      BY <1>3, <2>1, <2>2, <2>4, <3>1
  <2>10. CASE OnSpeech
    <3>1. Head(evq) \in {"SPEECH_START", "SPEECH_END"} /\ \A E : Holds(out'["loop"], E) <=> Head(evq) \in E
      BY <1>0, <2>10, LoopTells
    <3>2. CASE Head(evq) = "SPEECH_END"
      <4>1. ~Holds(out'["loop"], {"SPEECH_START"}) /\ Holds(out'["loop"], Endings)
        BY <1>2, <3>1, <3>2
      <4> QED
        BY <1>3, <2>1, <2>2, <2>4, <4>1
    <3>3. CASE Head(evq) = "SPEECH_START"
      BY <1>3, <2>1, <2>2, <2>3, <2>4, <2>6, <3>3
    <3> QED
      BY <3>1, <3>2, <3>3
  <2> QED
    BY <1>6, <2>8, <2>9, <2>10
<1>7. ASSUME UNCHANGED <<speech, inbox, evq>>,
             Holds(out'["loop"], {"SPEECH_START"}) => EndFromAgent,
             EndFromAgent \/ Holds(out'["loop"], Endings) \/ Closes(queue', Endings),
             \A t \in Tasks \ {"loop"} : ~Holds(out'[t], {"SPEECH_START"})
      PROVE  Goal
  <2>1. EndFromAgent' <=> EndFromAgent
    BY <1>7 DEF EndFromAgent, EndFromServer, Holds
  <2> QED
    BY <1>3, <1>7, <2>1
<1>8. CASE \E t \in Connectors : ConnectBegin(t) \/ ConnectEnd(t)
  <2>1. PICK t \in Connectors : ConnectBegin(t) \/ ConnectEnd(t)
    BY <1>8
  <2>2. UNCHANGED queue /\ Alone(t) /\ ~Holds(out'[t], {"SPEECH_START"})
    BY <1>0, <2>1, ConnectTells DEF DeviceInv, TypeOK
  <2>3. UNCHANGED <<speech, inbox, evq>>
    BY <1>8, AgentKept DEF agentQs
  <2> QED
    BY <1>2, <1>3, <1>7, <2>2, <2>3 DEF Alone
<1>9. CASE \E t \in Tasks : Enqueue(t)
  <2>1. PICK t \in Tasks : Enqueue(t)
    BY <1>9
  <2>2. UNCHANGED <<speech, inbox, evq>>
    BY <1>9, AgentKept DEF agentQs
  <2> DEFINE h == Head(out[t])
  <2>3. /\ out[t] \in Seq(DeviceEvents) /\ out[t] # <<>> /\ h \in DeviceEvents /\ queue' = Append(queue, h)
        /\ out'[t] = Tail(out[t]) /\ \A u \in Tasks \ {t} : out'[u] = out[u]
    BY <1>0, <2>1, EnqueueLemma DEF TypeOK
  <2>4. \A E : Holds(out[t], E) <=> h \in E \/ Holds(out'[t], E)
    BY <2>3, TailLemma
  <2>5. h # "SPEECH_START" /\ (h \in Endings \/ Closes(queue, Endings)) => Closes(queue', Endings)
    BY <1>1, <2>3, ClosesAppend
  <2> HIDE DEF h
  <2>6. \A u \in Tasks \ {"loop"} : ~Holds(out'[u], {"SPEECH_START"})
    BY <1>3, <2>3, <2>4
  <2>7. CASE t = "loop"
    BY <1>2, <1>3, <1>7, <2>2, <2>4, <2>5, <2>6, <2>7
  <2>8. CASE t # "loop"
    <3>1. h # "SPEECH_START" /\ out'["loop"] = out["loop"]
      BY <1>2, <1>3, <2>3, <2>4, <2>8
    <3> QED
      BY <1>3, <1>7, <2>2, <2>5, <2>6, <3>1
  <2> QED
    BY <2>7, <2>8
<1>10. CASE Producers
  <2>1. UNCHANGED <<speech, inbox, evq>>
    BY <1>10, AgentKept DEF agentQs
  <2>2. /\ out'["loop"] = out["loop"] /\ \A t \in Tasks : out'[t] = out[t] \/ ~Holds(out'[t], {"SPEECH_START"})
        /\ queue' = queue \/ queue' = Append(queue, "INTERRUPT")
    BY <1>0, <1>10, ProducersTell DEF DeviceInv, TypeOK
  <2>3. Closes(queue, Endings) => Closes(queue', Endings)
    <3>1. Closes(queue, Endings) => Closes(Append(queue, "INTERRUPT"), Endings)
      BY <1>1, <1>2, ClosesAppend
    <3> QED
      BY <2>2, <3>1
  <2> QED
    BY <1>3, <1>7, <2>1, <2>2, <2>3
<1>11. CASE DeviceTask
  <2>1. UNCHANGED <<speech, inbox, evq>>
    BY <1>11, AgentKept DEF agentQs
  <2>2. Alone("device") /\ queue # <<>> /\ queue' = Tail(queue) /\ ~Holds(out'["device"], {"SPEECH_START"})
    BY <1>0, <1>11, DeviceTells
  <2>3. Closes(queue, Endings) => Closes(queue', Endings)
    BY <1>1, <2>2, ClosesTail
  <2> QED
    BY <1>2, <1>3, <1>7, <2>1, <2>2, <2>3 DEF Alone
<1> QED
  BY <1>5, <1>6, <1>8, <1>9, <1>10, <1>11 DEF Next, EventLoopTask

\* A device that speaks waits for something that comes.
LEMMA SpeakingStep ==
    ASSUME DeviceInv, StreamInv, Next, broken' = {}
    PROVE  state' = "SPEAKING" => ResponseEnds'
<1>0. TypeOK /\ ModeInv /\ AwakeInv /\ ResponseInv /\ (state = "SPEAKING" => ResponseEnds)
  BY LinkStep DEF StreamInv, DeviceInv
<1>1. /\ ResponseEnds <=> EndFromAgent \/ downloadComplete \/ draining \/ Pending(Endings)
      /\ ResponseEnds' <=> EndFromAgent' \/ downloadComplete' \/ draining' \/ Pending(Endings)'
  BY DEF ResponseEnds, EndFromAgent, EndFromServer, Endings
<1>2. /\ SleepEvents \subseteq Endings /\ WakeEvents \subseteq Endings
      /\ {"SPEECH_END", "PLAYBACK_COMPLETE", "SLEEP", "WAKEUP", "REWAKE"} \subseteq Endings
      /\ {"SYSTEM_INITIALIZED", "SPEECH_START", "STATE_CHANGED", "INTERRUPT", "REMINDER", "REMINDER_COMPLETE"} \cap Endings = {}
      /\ "loop" \in Tasks /\ "device" \in Tasks /\ "device" # "loop"
  BY DEF Endings, SleepEvents, WakeEvents, Tasks
<1>3. CASE Agent \/ OnError
  <2>1. UNCHANGED <<queue, out, state, downloadComplete, draining>> /\ (EndFromAgent => EndFromAgent')
    BY <1>0, <1>3, AgentTells, ResponseKept DEF TypeOK, device, audio
  <2>2. Pending(Endings)' <=> Pending(Endings)
    BY <2>1 DEF Pending, Holds
  <2> QED
    BY <1>0, <1>1, <2>1, <2>2
<1>4. CASE OnConnected \/ OnDisconnected \/ OnStart \/ OnSpeech
  <2>1. /\ UNCHANGED <<speech, inbox, state, downloadComplete, draining>>
        /\ evq # <<>> /\ evq' = Tail(evq) /\ evq \in Seq(AgentEvents)
    BY <1>0, <1>4, LoopSteps DEF device, audio, TypeOK, AgentOK
  <2>2. \E new : Tells({}, new) /\ (Head(evq) \in {"SPEECH_END", "DISCONNECTED"} => "SPEECH_END" \in new \/ "SLEEP" \in new)
    <3>1. CASE OnConnected \/ OnStart
      BY <1>0, <3>1, LoopTells DEF OnConnected, OnStart, HandleAgentEvent
    <3>2. CASE OnDisconnected
      BY <1>0, <3>2, LoopTells
    <3>3. CASE OnSpeech
      BY <1>0, <3>3, LoopTells
    <3> QED
      BY <1>4, <3>1, <3>2, <3>3
  <2>3. Pending(Endings) \/ Head(evq) \in {"SPEECH_END", "DISCONNECTED"} => Pending(Endings)'
    BY <1>2, <2>2, TellsLemma
  <2>4. EndFromAgent => EndFromAgent' \/ Head(evq) \in {"SPEECH_END", "DISCONNECTED"}
    <3>1. Holds(evq, {"SPEECH_END", "DISCONNECTED"}) <=>
            Head(evq) \in {"SPEECH_END", "DISCONNECTED"} \/ Holds(evq', {"SPEECH_END", "DISCONNECTED"})
      BY <2>1, TailLemma
    <3>2. EndFromAgent' <=> speech \/ Holds(inbox, {"SPEECH_END"}) \/ Holds(evq', {"SPEECH_END", "DISCONNECTED"})
      BY <2>1 DEF EndFromAgent, EndFromServer, Holds
    <3> QED
      BY <3>1, <3>2 DEF EndFromAgent, EndFromServer
  <2> QED
    BY <1>0, <1>1, <2>1, <2>3, <2>4
<1>5. CASE ~(Agent \/ EventLoopTask)
  <2>1. UNCHANGED <<speech, inbox, evq>>
    BY <1>5, AgentKept DEF agentQs, Next
  <2>2. EndFromAgent' <=> EndFromAgent
    BY <2>1 DEF EndFromAgent, EndFromServer, Holds
  <2>3. CASE (\E t \in Connectors : ConnectBegin(t) \/ ConnectEnd(t)) \/ (\E t \in Tasks : Enqueue(t))
    <3>1. UNCHANGED <<device, audio>> /\ \E new : Tells({}, new)
      <4>1. CASE \E t \in Tasks : Enqueue(t)
        BY <1>0, <4>1, EnqueueLemma DEF Enqueue, TypeOK
      <4>2. CASE \E t \in Connectors : ConnectBegin(t) \/ ConnectEnd(t)
        BY <4>2, ConnectTells DEF DeviceInv, TypeOK
      <4> QED
        BY <2>3, <4>1, <4>2
    <3>2. Pending(Endings) => Pending(Endings)'
      BY <3>1, TellsLemma
    <3> QED
      BY <1>0, <1>1, <2>2, <3>1, <3>2 DEF device, audio
  <2>4. CASE Producers
    <3>1. UNCHANGED device /\ (\E new : Tells({}, new)) /\ (PlaybackDrains => Tells({}, {"PLAYBACK_COMPLETE"}))
      BY <2>4, ProducersTell DEF DeviceInv, TypeOK
    <3>2. Pending(Endings) \/ PlaybackDrains => Pending(Endings)'
      BY <1>2, <3>1, TellsLemma
    <3>3. PlaybackDrains \/ DownloadTaskWakes \/ UNCHANGED <<downloadComplete, draining>>
      BY <2>4 DEF Producers, MicSendFails, SleepTimerFires, ReminderTimerFires, ReminderExpires, Recorder, Touch, audio
    <3>4. DownloadTaskWakes => draining'
      BY DEF DownloadTaskWakes
    <3> QED
      BY <1>0, <1>1, <2>2, <3>1, <3>2, <3>3, <3>4 DEF device
  <2>5. CASE SpeechStart
    <3>1. queue \in Seq(DeviceEvents) /\ queue # <<>> /\ Head(queue) = "SPEECH_START" /\ queue' = Tail(queue) /\ UNCHANGED out
      BY <1>0, <2>5, DeviceTells DEF DeviceTask, SpeechStart, TypeOK, TasksOK
    <3>2. EndFromAgent \/ Holds(out["loop"], Endings) \/ Holds(queue', Endings)
      BY <1>0, <3>1, ClosesTail DEF ResponseInv
    <3>3. EndFromAgent' \/ Pending(Endings)'
      BY <1>2, <2>2, <3>1, <3>2 DEF Pending, Holds
    <3> QED
      BY <1>1, <3>3
  <2>6. CASE SpeechEnd
    <3>1. (state = "SPEAKING" => downloadComplete') /\ state' = state
      BY <2>6 DEF SpeechEnd, device
    <3> QED
      BY <1>1, <3>1
  <2>7. CASE Sleep \/ WakeupListens
    <3>1. state' # "SPEAKING"
      BY <2>7 DEF Sleep, WakeupListens
    <3> QED
      BY <3>1
  <2>8. CASE SpeechPlaybackComplete
    <3>1. Tells({"PLAYBACK_COMPLETE"}, {"REWAKE"})
      BY <1>0, <2>8, DeviceTells DEF DeviceTask
    <3>2. Pending(Endings)'
      BY <1>2, <3>1, TellsLemma
    <3> QED
      BY <1>1, <3>2
  <2>9. CASE Interrupt
    <3>1. state' = state /\ (state = "SPEAKING" => Tells({"INTERRUPT"}, {"SPEECH_END"}))
      BY <1>0, <2>9, DeviceTells DEF DeviceTask, Interrupt, device
    <3>2. state = "SPEAKING" => Pending(Endings)'
      BY <1>2, <3>1, TellsLemma
    <3> QED
      BY <1>1, <3>1, <3>2
  <2>10. CASE Wakeup /\ ~WakeupListens
    <3>1. state' = state /\ (state = "SPEAKING" => appState # "STARTED")
      BY <1>0, <2>10 DEF Wakeup, WakeupIgnored, WakeupConnects, ModeInv
    <3>2. PICK e \in WakeEvents : Tells({e}, {})
      BY <1>0, <2>10, DeviceTells DEF DeviceTask
    <3>3. Pending(SleepEvents) => Pending(SleepEvents)'
      BY <3>2, TellsLemma DEF WakeEvents
    <3>4. Pending(SleepEvents)' => Pending(Endings)'
      BY <1>2 DEF Pending, Holds
    <3>5. state = "SPEAKING" => Pending(SleepEvents) \/ Holds(evq, {"DISCONNECTED"})
      BY <1>0, <3>1 DEF AwakeInv, SleepComes
    <3>6. Holds(evq, {"DISCONNECTED"}) => EndFromAgent
      BY DEF Holds, EndFromAgent
    <3> QED
      BY <1>1, <2>2, <3>1, <3>3, <3>4, <3>5, <3>6
  <2>11. CASE SystemInitialized \/ AgentStateChanged \/ Reminder \/ ReminderComplete
    <3>1. \E new, e : e \notin Endings /\ Tells({e}, new)
      BY <1>0, <1>2, <2>11, DeviceTells DEF DeviceTask
    <3>2. Pending(Endings) => Pending(Endings)'
      BY <3>1, TellsLemma
    <3>3. UNCHANGED <<state, downloadComplete, draining>>
      BY <2>11 DEF SystemInitialized, AgentStateChanged, Reminder, ReminderComplete, audio
    <3> QED
      BY <1>0, <1>1, <2>2, <3>2, <3>3
  <2> QED
    BY <1>5, <2>3, <2>4, <2>5, <2>6, <2>7, <2>8, <2>9, <2>10, <2>11 DEF Next, DeviceTask
<1> QED
  BY <1>3, <1>4, <1>5 DEF EventLoopTask

LEMMA StreamInit == Init => StreamInv
<1> SUFFICES ASSUME Init PROVE StreamInv
  OBVIOUS
<1>1. /\ client = "stopped" /\ inbox = <<>> /\ evq = <<>> /\ queue = <<>> /\ appState = "DISCONNECTED" /\ state = "IDLE"
      /\ \A t \in Tasks : out[t] = <<>>
  BY DEF Init
<1>2. (\A E : Closes(<<>>, E)) /\ Linked(<<>>, appState) /\ "loop" \in Tasks
  BY DEF Closes, Linked, Tasks
<1>3. LinkInv
  BY <1>1, <1>2 DEF LinkInv
<1>4. ResponseInv
  BY <1>1, <1>2, EmptyLemma DEF ResponseInv
<1> QED
  BY <1>1, <1>3, <1>4 DEF StreamInv, AwakeInv

LEMMA IInvStep == IInv /\ [Next]_vars => IInv'
<1> SUFFICES ASSUME IInv, [Next]_vars PROVE IInv'
  OBVIOUS
<1>1. DeviceInv' /\ DeviceInv /\ StreamInv
  BY DeviceInvStep DEF IInv
<1>2. CASE Next
  BY <1>1, <1>2, LinkStep, AwakeStep, ResponseStep, SpeakingStep DEF IInv, StreamInv
<1>3. CASE UNCHANGED vars
  <2>1. UNCHANGED <<client, speech, inbox, evq, broken, appState, queue, out, connect, state, downloadComplete, draining>>
    BY <1>3 DEF vars, session, agentQs, device, audio
  <2>2. StreamInv'
    BY <1>1, <2>1 DEF StreamInv, LinkInv, AwakeInv, ResponseInv, SleepComes, ResponseEnds, EndFromAgent, EndFromServer,
                      Pending, Holds, Linked, Closes, ClientUp
  <2> QED
    BY <1>1, <2>2 DEF IInv
<1> QED
  BY <1>2, <1>3

LEMMA IInvInit == Init => IInv
  BY DeviceInit, StreamInit DEF IInv

\* As long as the agent's stream of messages and events is unbroken, a
\* microphone that is on while the application knows that the link is lost is
\* about to be stopped: the sleep is on its way, or the event that asks for it.
THEOREM MicTheorem == Spec => []MicStopsWithSession
<1>1. IInv => MicStopsWithSession
  BY DEF IInv, DeviceInv, StreamInv, ModeInv, AwakeInv, SleepComes, MicStopsWithSession
<1> QED
  BY <1>1, IInvInit, IInvStep, PTL DEF Spec

\* Nor does a speaking device wait for nothing: the rest of its response is
\* still to come, its end is on its way through the agent's queues, the event
\* loop, the device queue and the download task, or the link has ended.
THEOREM SpeakingTheorem == Spec => []SpeakingEnds
<1>1. IInv => SpeakingEnds
  BY DEF IInv, StreamInv, SpeakingEnds
<1> QED
  BY <1>1, IInvInit, IInvStep, PTL DEF Spec
=============================================================================
