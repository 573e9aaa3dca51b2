-------------------------- MODULE AgentSetupProofs --------------------------
(***************************************************************************)
(* Proofs about AgentSetup for every value of its constants.               *)
(*                                                                         *)
(*  - SetupTypeCorrect: TypeOK is an invariant.                            *)
(*  - PersistedTheorem: Persisted is an invariant when there is a single   *)
(*    setter, from PersistedInv.                                           *)
(*  - UpdatesTheorem: UpdatesReachAgent is an invariant for any number of  *)
(*    setters, from UpdatesInv.                                            *)
(***************************************************************************)
EXTENDS AgentSetup, TLAPS

USE NullAssumption, ConfigAssumption

-----------------------------------------------------------------------------
(* Type correctness *)

\* Posting an event to the default event loop keeps its queue typed and bounded.
LEMMA PostTyped ==
    ASSUME LoopOK, NEW e \in Events, Post(e), startTask' \in {"polling", "posted"}
    PROVE  LoopOK'
  BY DEF LoopOK, Post

\* So does handling the event at its head, which may post one in its place.
LEMMA DispatchTyped ==
    ASSUME LoopOK, evq # <<>>, NEW e \in Events,
           evq' \in {Tail(evq), Append(Tail(evq), e)},
           loopAlive' \in BOOLEAN, UNCHANGED startTask
    PROVE  LoopOK'
<1>1. Tail(evq) \in Seq(Events) /\ Len(Tail(evq)) < EventQueueSize
  BY DEF LoopOK
<1>2. Append(Tail(evq), e) \in Seq(Events) /\ Len(Append(Tail(evq), e)) <= EventQueueSize
  BY <1>1
<1> QED BY <1>1, <1>2 DEF LoopOK

\* A setter's step keeps the calls typed, if its value fits the step.
LEMMA StepTyped ==
    ASSUME CallsOK, NEW s \in Setters, NEW label \in SetterSteps,
           NEW value \in AgentIds \cup Tokens \cup {NULL}, Step(s, label, value),
           label = "install" => value \in AgentIds,
           label = "save" => value \in Tokens
    PROVE  CallsOK'
  BY DEF CallsOK, Step

\* A reboot restores every type from the types of NVS.
LEMMA RebootTyped == ASSUME TypeOK, Reboot PROVE TypeOK'
<1>1. StoreOK'
  BY DEF TypeOK, StoreOK, Reboot, StoredAgentId, nvs
<1>2. CallsOK'
  BY DEF CallsOK, Reboot, SetterSteps
<1>3. LoopOK'
  BY DEF LoopOK, Reboot
<1>4. StarterOK'
  BY DEF StarterOK, Reboot, NothingHeld, StarterSteps
<1> QED BY <1>1, <1>2, <1>3, <1>4 DEF TypeOK

\* Every step keeps TypeOK.
LEMMA TypeStep == TypeOK /\ [Next]_vars => TypeOK'
<1> SUFFICES ASSUME TypeOK, [Next]_vars PROVE TypeOK'
  OBVIOUS
<1> USE DEF TypeOK, nvs, data, flags, calls, loop, boot, core
<1>1. CASE GotIp
  <2>1. LoopOK' BY <1>1, PostTyped DEF GotIp, Events, LoopOK
  <2> QED BY <1>1, <2>1 DEF GotIp, StoreOK, CallsOK, StarterOK
<1>2. CASE DispatchGotIp
  <2>1. LoopOK'
    BY <1>2, DispatchTyped DEF DispatchGotIp, Dispatch, Events, LoopOK
  <2> QED BY <1>2, <2>1 DEF DispatchGotIp, StoreOK, CallsOK, StarterOK
<1>3. CASE DispatchNetworkConnected
  <2>1. LoopOK'
    BY <1>3, DispatchTyped DEF DispatchNetworkConnected, Dispatch, LoopOK
  <2> QED BY <1>3, <2>1 DEF DispatchNetworkConnected, StoreOK, CallsOK, StarterOK
<1>4. CASE DispatchStart
  <2>1. LoopOK'
    BY <1>4, DispatchTyped DEF DispatchStart, Dispatch, LoopOK
  <2> QED BY <1>4, <2>1 DEF DispatchStart, StoreOK, CallsOK, StarterOK, StarterSteps
<1>5. CASE DispatchAgentIdUpdate
  <2>1. LoopOK'
    BY <1>5, DispatchTyped DEF DispatchAgentIdUpdate, Dispatch, LoopOK
  <2> QED BY <1>5, <2>1 DEF DispatchAgentIdUpdate, StoreOK, CallsOK, StarterOK
<1>17. CASE HandlerSetsAgentId
  <2>1. LoopOK'
    BY <1>17 DEF HandlerSetsAgentId, LoopOK
  <2>2. StarterOK'
    BY <1>17 DEF HandlerSetsAgentId, Contents, StarterOK
  <2> QED BY <1>17, <2>1, <2>2 DEF HandlerSetsAgentId, StoreOK, CallsOK
<1>6. ASSUME NEW s \in Setters, NEW id \in AgentIds, SaveAgentId(s, id) PROVE TypeOK'
  <2>1. CallsOK' BY <1>6, StepTyped DEF SaveAgentId, SetterSteps
  <2> QED BY <1>6, <2>1 DEF SaveAgentId, StoreOK, LoopOK, StarterOK
<1>7. ASSUME NEW s \in Setters, InstallAgentId(s) PROVE TypeOK'
  <2>1. CallsOK' BY <1>7, StepTyped DEF InstallAgentId, SetterSteps
  <2>2. StoreOK' BY <1>7 DEF InstallAgentId, StoreOK, CallsOK
  <2> QED BY <1>7, <2>1, <2>2 DEF InstallAgentId, LoopOK, StarterOK, Freed
<1>8. ASSUME NEW s \in Setters, PostAgentIdUpdate(s) PROVE TypeOK'
  <2>1. CallsOK' BY <1>8, StepTyped DEF PostAgentIdUpdate, SetterSteps
  <2>2. LoopOK' BY <1>8, PostTyped DEF PostAgentIdUpdate, Events, LoopOK
  <2> QED BY <1>8, <2>1, <2>2 DEF PostAgentIdUpdate, StoreOK, StarterOK
<1>9. ASSUME NEW s \in Setters, NEW t \in Tokens, InstallToken(s, t) PROVE TypeOK'
  <2>1. CallsOK' BY <1>9, StepTyped DEF InstallToken, SetterSteps
  <2> QED BY <1>9, <2>1 DEF InstallToken, StoreOK, LoopOK, StarterOK, Freed
<1>10. ASSUME NEW s \in Setters, SaveToken(s) PROVE TypeOK'
  <2>1. CallsOK' BY <1>10, StepTyped DEF SaveToken, SetterSteps
  <2>2. StoreOK' BY <1>10 DEF SaveToken, StoreOK
  <2> QED BY <1>10, <2>1, <2>2 DEF SaveToken, LoopOK, StarterOK, Freed
<1>11. CASE PostStart
  <2>1. LoopOK' BY <1>11, PostTyped DEF PostStart, Events
  <2> QED BY <1>11, <2>1 DEF PostStart, StoreOK, CallsOK, StarterOK
<1>12. CASE StarterBegin
  <2>1. StarterOK'
    BY <1>12 DEF StarterBegin, StoreOK, StarterOK, StarterSteps
  <2> QED BY <1>12, <2>1 DEF StarterBegin, StoreOK, CallsOK, LoopOK
<1>13. CASE StarterSetsAgentId
  BY <1>13 DEF StarterSetsAgentId, Contents, StoreOK, CallsOK, LoopOK, StarterOK, StarterSteps
<1>14. CASE StarterSetsToken
  BY <1>14 DEF StarterSetsToken, Contents, NothingHeld, StoreOK, CallsOK, LoopOK, StarterOK,
               StarterSteps
<1>15. CASE Reboot \/ StarterAborts
  BY <1>15, RebootTyped DEF StarterAborts
<1>16. CASE UNCHANGED vars
  BY <1>16 DEF vars, StoreOK, CallsOK, LoopOK, StarterOK
<1> QED
  BY <1>1, <1>2, <1>3, <1>4, <1>5, <1>6, <1>7, <1>8, <1>9, <1>10, <1>11, <1>12, <1>13, <1>14,
     <1>15, <1>16, <1>17 DEF Next, EventLoop, Call, Continue, Starter

\* Every variable keeps its type, and no interleaving of setters, tasks and
\* reboots overfills the event queue.
THEOREM SetupTypeCorrect == Spec => []TypeOK
<1>1. ASSUME Init PROVE TypeOK
  <2>1. StoreOK
    BY <1>1 DEF Init, StoreOK
  <2>2. CallsOK
    BY <1>1 DEF Init, CallsOK, SetterSteps
  <2>3. LoopOK
    BY <1>1 DEF Init, LoopOK
  <2>4. StarterOK
    BY <1>1 DEF Init, StarterOK, NothingHeld, StarterSteps
  <2> QED BY <2>1, <2>2, <2>3, <2>4 DEF TypeOK
<1> QED BY <1>1, TypeStep, PTL DEF Spec

-----------------------------------------------------------------------------
(* What is in use is what is stored *)

\* With one setter, no step of a call, no failed save and no reboot between two
\* steps separates what memory holds from what NVS holds but where PersistedInv
\* says so.
LEMMA PersistedStep ==
    ASSUME NEW me, Setters = {me}
    PROVE  TypeOK /\ PersistedInv /\ [Next]_vars => PersistedInv'
<1> SUFFICES ASSUME TypeOK, PersistedInv, [Next]_vars PROVE PersistedInv'
  OBVIOUS
<1> USE DEF nvs, data, flags, calls, loop, boot, core
<1>0. pc \in [Setters -> SetterSteps] /\ arg \in [Setters -> AgentIds \cup Tokens \cup {NULL}]
  BY DEF TypeOK, CallsOK
<1>1. CASE GotIp
  BY <1>1 DEF GotIp, PersistedInv, StoredAgentId
<1>2. CASE EventLoop
  BY <1>2 DEF EventLoop, DispatchGotIp, DispatchNetworkConnected, DispatchStart,
              DispatchAgentIdUpdate, HandlerSetsAgentId, PersistedInv, StoredAgentId
<1>3. ASSUME NEW s \in Setters, NEW id \in AgentIds, SaveAgentId(s, id) PROVE PersistedInv'
  BY <1>0, <1>3 DEF SaveAgentId, Step, PersistedInv
<1>4. ASSUME NEW s \in Setters, InstallAgentId(s) PROVE PersistedInv'
  <2>1. arg[s] \in AgentIds /\ nvsAgent = arg[s] /\ refreshToken \in {NULL, nvsToken}
    BY <1>4 DEF InstallAgentId, TypeOK, CallsOK, PersistedInv
  <2>2. agentId' = arg[s] /\ StoredAgentId' = arg[s]
    BY <1>4, <2>1 DEF InstallAgentId, StoredAgentId
  <2> QED BY <1>0, <1>4, <2>1, <2>2 DEF InstallAgentId, Step, PersistedInv
<1>5. ASSUME NEW s \in Setters, PostAgentIdUpdate(s) PROVE PersistedInv'
  BY <1>0, <1>5 DEF PostAgentIdUpdate, Step, PersistedInv, StoredAgentId
<1>6. ASSUME NEW s \in Setters, NEW t \in Tokens, InstallToken(s, t) PROVE PersistedInv'
  BY <1>0, <1>6 DEF InstallToken, Step, PersistedInv, StoredAgentId
<1>7. ASSUME NEW s \in Setters, SaveToken(s) PROVE PersistedInv'
  BY <1>0, <1>7 DEF SaveToken, Step, PersistedInv, StoredAgentId
<1>8. CASE PostStart
  BY <1>8 DEF PostStart, PersistedInv, StoredAgentId
<1>9. CASE StarterBegin \/ StarterSetsAgentId \/ StarterSetsToken
  BY <1>9 DEF StarterBegin, StarterSetsAgentId, StarterSetsToken, PersistedInv, StoredAgentId
<1>10. CASE Reboot \/ StarterAborts
  BY <1>10 DEF Reboot, StarterAborts, PersistedInv, StoredAgentId
<1>11. CASE UNCHANGED vars
  BY <1>11 DEF vars, PersistedInv, StoredAgentId
<1> QED
  BY <1>1, <1>2, <1>3, <1>4, <1>5, <1>6, <1>7, <1>8, <1>9, <1>10, <1>11
  DEF Next, Call, Continue, Starter

\* With a single setter, whatever saves fail and whenever power does, the
\* credentials in use between calls are those the next boot loads.
THEOREM PersistedTheorem ==
    ASSUME NEW me, Setters = {me}
    PROVE  Spec => []Persisted
<1>1. Init => PersistedInv
  BY DEF Init, PersistedInv, StoredAgentId
<1>2. TypeOK /\ PersistedInv /\ [Next]_vars => PersistedInv'
  BY PersistedStep
<1>3. PersistedInv => Persisted
  BY DEF PersistedInv, Persisted
<1> QED BY <1>1, <1>2, <1>3, SetupTypeCorrect, PTL DEF Spec

-----------------------------------------------------------------------------
(* A new agent id reaches the agent *)

\* Queueing an event loses no event of the queue, and adds no other.
LEMMA AppendKeeps ==
    ASSUME NEW q \in Seq(Events), NEW e \in Events, NEW f \in Events
    PROVE  (\E i \in DOMAIN Append(q, e) : Append(q, e)[i] = f) <=> (e = f \/ \E i \in DOMAIN q : q[i] = f)
<1>1. DOMAIN Append(q, e) = 1 .. (Len(q) + 1)
  OBVIOUS
<1>2. Append(q, e)[Len(q) + 1] = e /\ \A i \in DOMAIN q : Append(q, e)[i] = q[i]
  OBVIOUS
<1>3. DOMAIN q = 1 .. Len(q) /\ Len(q) \in Nat
  OBVIOUS
<1>4. \A i \in DOMAIN Append(q, e) : i \in DOMAIN q \/ i = Len(q) + 1
  BY <1>1, <1>3
<1>5. DOMAIN q \subseteq DOMAIN Append(q, e) /\ Len(q) + 1 \in DOMAIN Append(q, e)
  BY <1>1, <1>3
<1> QED BY <1>2, <1>4, <1>5

\* Taking one event leaves the events of other kinds.
LEMMA TailKeeps ==
    ASSUME NEW q \in Seq(Events), q # <<>>, NEW f \in Events, Head(q) # f
    PROVE  (\E i \in DOMAIN q : q[i] = f) <=> (\E i \in DOMAIN Tail(q) : Tail(q)[i] = f)
<1>1. ASSUME NEW i \in DOMAIN q, q[i] = f PROVE \E k \in DOMAIN Tail(q) : Tail(q)[k] = f
  <2>1. i \in 2 .. Len(q)
    BY <1>1
  <2>2. i - 1 \in DOMAIN Tail(q) /\ Tail(q)[i - 1] = q[i]
    BY <2>1
  <2> QED BY <1>1, <2>2
<1>2. ASSUME NEW k \in DOMAIN Tail(q), Tail(q)[k] = f PROVE \E i \in DOMAIN q : q[i] = f
  <2>1. k + 1 \in DOMAIN q /\ q[k + 1] = Tail(q)[k]
    BY <1>2
  <2> QED BY <1>2, <2>1
<1> QED BY <1>1, <1>2

\* A step that leaves ids and pointers alone, and loses no update on the way.
LEMMA UpdatesStay ==
    ASSUME UpdatesInv, UpdatePending <=> UpdatePending', UNCHANGED <<agentId, held, dangling, coreAgent, outdated>>
    PROVE  UpdatesInv'
  BY DEF UpdatesInv

\* Every step keeps UpdatesInv.
LEMMA UpdatesStep == TypeOK /\ UpdatesInv /\ [Next]_vars => UpdatesInv'
<1> SUFFICES ASSUME TypeOK, UpdatesInv, [Next]_vars PROVE UpdatesInv'
  OBVIOUS
<1> USE DEF nvs, data, flags, calls, loop, boot, core
<1>0. /\ pc \in [Setters -> SetterSteps] /\ evq \in Seq(Events)
      /\ held \in [agent : AgentIds \cup {NULL}, token : Tokens \cup {NULL}, update : AgentIds \cup {NULL}]
      /\ \A e \in {"AGENT_ID_UPDATE", "GOT_IP", "START", "NETWORK_CONNECTED"} : e \in Events
  BY DEF TypeOK, CallsOK, LoopOK, StarterOK, Events
<1>a. ASSUME NEW e \in Events \ {"AGENT_ID_UPDATE"}, Post(e) PROVE UpdateWaits <=> UpdateWaits'
  <2>1. evq' = Append(evq, e) /\ e # "AGENT_ID_UPDATE"
    BY <1>a DEF Post
  <2>2. (\E i \in DOMAIN Append(evq, e) : Append(evq, e)[i] = "AGENT_ID_UPDATE") <=> UpdateWaits
    BY <1>0, <2>1, AppendKeeps DEF UpdateWaits
  <2> QED BY <2>1, <2>2 DEF UpdateWaits
<1>b. ASSUME evq # <<>>, Head(evq) # "AGENT_ID_UPDATE",
             evq' \in {Tail(evq), Append(Tail(evq), "NETWORK_CONNECTED")}
      PROVE  UpdateWaits <=> UpdateWaits'
  <2>1. Tail(evq) \in Seq(Events)
    BY <1>0, <1>b
  <2>2. UpdateWaits <=> \E i \in DOMAIN Tail(evq) : Tail(evq)[i] = "AGENT_ID_UPDATE"
    BY <1>0, <1>b, TailKeeps DEF UpdateWaits
  <2> DEFINE q == Append(Tail(evq), "NETWORK_CONNECTED")
  <2>3. UpdateWaits <=> \E i \in DOMAIN q : q[i] = "AGENT_ID_UPDATE"
    BY <1>0, <2>1, <2>2, AppendKeeps
  <2> QED BY <1>b, <2>2, <2>3 DEF UpdateWaits
<1>1. CASE GotIp
  BY <1>0, <1>1, <1>a, UpdatesStay DEF GotIp, UpdatePending
<1>2. CASE DispatchGotIp
  BY <1>2, <1>b, UpdatesStay DEF DispatchGotIp, Dispatch, UpdatePending
<1>3. CASE DispatchNetworkConnected
  BY <1>3, <1>b, UpdatesStay DEF DispatchNetworkConnected, Dispatch, UpdatePending
<1>4. CASE DispatchStart
  BY <1>4, <1>b, UpdatesStay DEF DispatchStart, Dispatch, UpdatePending
<1>5. CASE DispatchAgentIdUpdate
  <2>1. UpdatePending /\ agentId # NULL /\ held.update = NULL
    <3>1. 1 \in DOMAIN evq /\ evq[1] = "AGENT_ID_UPDATE"
      BY <1>0, <1>5 DEF DispatchAgentIdUpdate, Dispatch
    <3> QED BY <1>5, <3>1 DEF DispatchAgentIdUpdate, Dispatch, UpdatePending, UpdateWaits, UpdatesInv
  <2>2. held'.update = agentId /\ held'.agent = held.agent
    BY <1>0, <1>5 DEF DispatchAgentIdUpdate
  <2>3. "update" \notin dangling
    BY <2>1 DEF UpdatesInv
  <2> QED BY <1>5, <2>1, <2>2, <2>3 DEF DispatchAgentIdUpdate, UpdatesInv
<1>6. CASE HandlerSetsAgentId
  <2>1. held'.update = NULL /\ held'.agent = held.agent
    BY <1>0, <1>6 DEF HandlerSetsAgentId
  <2>2. coreAgent' = agentId \/ UpdatePending
    BY <1>6 DEF HandlerSetsAgentId, Contents, UpdatesInv
  <2>3. UpdatePending <=> UpdatePending'
    BY <1>6 DEF HandlerSetsAgentId, UpdatePending, UpdateWaits
  <2> QED BY <1>6, <2>1, <2>2, <2>3 DEF HandlerSetsAgentId, UpdatesInv
<1>7. ASSUME NEW s \in Setters, NEW id \in AgentIds, SaveAgentId(s, id) PROVE UpdatesInv'
  BY <1>0, <1>7, UpdatesStay DEF SaveAgentId, Step, UpdatePending, UpdateWaits
<1>8. ASSUME NEW s \in Setters, InstallAgentId(s) PROVE UpdatesInv'
  <2>1. UpdatePending'
    BY <1>0, <1>8 DEF InstallAgentId, Step, UpdatePending
  <2>2. agentId' # NULL
    BY <1>8 DEF InstallAgentId, TypeOK, CallsOK
  <2>3. \A field \in {"agent", "update"} : held[field] # NULL => field \in dangling'
    BY <1>8 DEF InstallAgentId, Freed
  <2>4. "update" \in dangling' => held.update # NULL
    BY <1>8 DEF InstallAgentId, Freed, UpdatesInv
  <2> QED BY <1>8, <2>1, <2>2, <2>3, <2>4 DEF InstallAgentId, UpdatesInv
<1>9. ASSUME NEW s \in Setters, PostAgentIdUpdate(s) PROVE UpdatesInv'
  <2>1. UpdatePending
    BY <1>9 DEF PostAgentIdUpdate, UpdatePending
  <2>2. UpdateWaits'
    <3>1. evq' = Append(evq, "AGENT_ID_UPDATE")
      BY <1>9 DEF PostAgentIdUpdate, Post
    <3> DEFINE q == Append(evq, "AGENT_ID_UPDATE")
    <3>2. \E i \in DOMAIN q : q[i] = "AGENT_ID_UPDATE"
      BY <1>0, AppendKeeps
    <3> QED BY <3>1, <3>2 DEF UpdateWaits
  <2>3. UpdatePending'
    BY <2>2 DEF UpdatePending
  <2> QED BY <1>9, <2>1, <2>3, UpdatesStay DEF PostAgentIdUpdate
<1>10. ASSUME NEW s \in Setters, NEW t \in Tokens, InstallToken(s, t) PROVE UpdatesInv'
  <2>1. UpdatePending <=> UpdatePending'
    BY <1>0, <1>10 DEF InstallToken, Step, UpdatePending, UpdateWaits
  <2>2. \A field \in {"agent", "update"} : field \in dangling' <=> field \in dangling
    BY <1>10 DEF InstallToken, Freed
  <2> QED BY <1>10, <2>1, <2>2 DEF InstallToken, UpdatesInv
<1>11. ASSUME NEW s \in Setters, SaveToken(s) PROVE UpdatesInv'
  <2>1. UpdatePending <=> UpdatePending'
    BY <1>0, <1>11 DEF SaveToken, Step, UpdatePending, UpdateWaits
  <2>2. \A field \in {"agent", "update"} : field \in dangling' <=> field \in dangling
    BY <1>11 DEF SaveToken, Freed
  <2> QED BY <1>11, <2>1, <2>2 DEF SaveToken, UpdatesInv
<1>12. CASE PostStart
  BY <1>0, <1>12, <1>a, UpdatesStay DEF PostStart, UpdatePending
<1>13. CASE StarterBegin
  <2>1. held'.agent = agentId /\ held'.update = held.update
    BY <1>0, <1>13 DEF StarterBegin
  <2>2. UpdatePending <=> UpdatePending'
    BY <1>13 DEF StarterBegin, UpdatePending, UpdateWaits
  <2> QED BY <1>13, <2>1, <2>2 DEF StarterBegin, UpdatesInv
<1>14. CASE StarterSetsAgentId
  <2>1. coreAgent' \in {NULL, agentId} \/ outdated'
    BY <1>14 DEF StarterSetsAgentId, Contents, UpdatesInv
  <2>2. UpdatePending <=> UpdatePending'
    BY <1>14 DEF StarterSetsAgentId, UpdatePending, UpdateWaits
  <2> QED BY <1>14, <2>1, <2>2 DEF StarterSetsAgentId, UpdatesInv
<1>15. CASE StarterSetsToken
  <2>1. held'.agent = NULL /\ held'.update = held.update
    BY <1>0, <1>15 DEF StarterSetsToken, NothingHeld
  <2>2. UpdatePending <=> UpdatePending'
    BY <1>15 DEF StarterSetsToken, UpdatePending, UpdateWaits
  <2> QED BY <1>15, <2>1, <2>2 DEF StarterSetsToken, UpdatesInv
<1>16. CASE Reboot \/ StarterAborts
  <2>1. ~UpdatePending' /\ held' = NothingHeld /\ dangling' = {} /\ coreAgent' = NULL
    BY <1>16 DEF Reboot, StarterAborts, UpdatePending, UpdateWaits
  <2> QED BY <2>1 DEF UpdatesInv, NothingHeld
<1>17. CASE UNCHANGED vars
  BY <1>17 DEF vars, UpdatesInv, UpdatePending, UpdateWaits
<1> QED
  BY <1>1, <1>2, <1>3, <1>4, <1>5, <1>6, <1>7, <1>8, <1>9, <1>10, <1>11, <1>12, <1>13, <1>14,
     <1>15, <1>16, <1>17 DEF Next, EventLoop, Call, Continue, Starter

\* However many setters race, with the RainMaker device or without it, and
\* whatever pointer is freed while it is in use: an agent whose id was replaced
\* has the new one as soon as no update waits or is being handled, or the start
\* task gave it an id that was replaced since.
THEOREM UpdatesTheorem == Spec => []UpdatesReachAgent
<1>1. Init => UpdatesInv
  BY DEF Init, UpdatesInv, UpdatePending, UpdateWaits, NothingHeld
<1>2. UpdatesInv => UpdatesReachAgent
  BY DEF UpdatesInv, UpdatesReachAgent, UpdatePending
<1> QED BY <1>1, <1>2, UpdatesStep, SetupTypeCorrect, PTL DEF Spec

=============================================================================
