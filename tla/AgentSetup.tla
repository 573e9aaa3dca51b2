----------------------------- MODULE AgentSetup -----------------------------
(***************************************************************************)
(* Where the credentials of the agent come from: the setup component keeps *)
(* the agent id and the refresh token in memory and in non-volatile        *)
(* storage (NVS), takes new ones from the console and from RainMaker, and  *)
(* tells the application through the default event loop when it may start  *)
(* and when the agent id changed.  app_agent.c hands them on to the agent. *)
(*                                                                         *)
(* The module's data are shared without a lock, and its getters return     *)
(* pointers which its setters free.                                        *)
(***************************************************************************)
EXTENDS Naturals, Sequences

CONSTANTS
    Setters,         \* the tasks that give credentials
    AgentIds, Tokens,
    NULL,            \* the C null pointer, a missing NVS entry
    GARBAGE,         \* what a read of freed memory may return
    DefaultAgentId,  \* CONFIG_AGENT_SETUP_DEFAULT_AGENT_ID, NULL when empty
    DeviceEnabled,   \* CONFIG_AGENT_SETUP_CREATE_RAINMAKER_DEVICE
    EventQueueSize   \* CONFIG_ESP_SYSTEM_EVENT_QUEUE_SIZE, 32 by default

ASSUME SettersAssumption == Setters \subseteq {"console", "rainmaker"}
ASSUME NullAssumption ==
    /\ {NULL, GARBAGE} \cap (AgentIds \cup Tokens) = {} /\ NULL # GARBAGE
    /\ DefaultAgentId \in AgentIds \cup {NULL}
ASSUME ConfigAssumption == DeviceEnabled \in BOOLEAN /\ EventQueueSize \in Nat \ {0}

VARIABLES
    nvsAgent, nvsToken,             \* the entries in NVS, which survive a reboot
    agentId, refreshToken,          \* g_agent_setup_data
    agentIdSet, tokenSet, network,  \* g_agent_setup_data.flags
    pc, arg,                        \* of each setter: its next step, the value it sets
    startTask,                      \* start_task: it polls the flags, or has posted START
    evq, loopAlive,                 \* the default event loop: its queue, its task
    starter,                        \* app_agent_start_task
    held, dangling,                 \* its pointers and the loop handler's, those freed meanwhile
    coreAgent, coreToken,           \* the copies the esp_agent component keeps
    outdated                        \* history: the start task gave an id that was replaced

nvs   == <<nvsAgent, nvsToken>>
data  == <<agentId, refreshToken>>
flags == <<agentIdSet, tokenSet, network>>
calls == <<pc, arg>>
loop  == <<evq, loopAlive>>
boot  == <<starter, held, dangling>>
core  == <<coreAgent, coreToken, outdated>>
vars  == <<nvs, data, flags, calls, startTask, loop, boot, core>>

Events       == {"GOT_IP", "NETWORK_CONNECTED", "START", "AGENT_ID_UPDATE"}
SetterSteps  == {"idle", "install", "post", "save"}
StarterSteps == {"none", "begin", "setAgentId", "setToken", "done"}

\* The pointers of app_agent_start_task, and that of the handler of an update.
NothingHeld == [agent |-> NULL, token |-> NULL, update |-> NULL]

\* The agent id agent_setup_init loads, with its fallback.
StoredAgentId == IF nvsAgent = NULL THEN DefaultAgentId ELSE nvsAgent

\* The first boot of a device with an erased flash: agent_setup_init.
Init ==
    /\ nvsAgent = NULL /\ nvsToken = NULL
    /\ agentId = DefaultAgentId /\ refreshToken = NULL
    /\ agentIdSet = (DefaultAgentId # NULL) /\ tokenSet = FALSE /\ network = FALSE
    /\ pc = [s \in Setters |-> "idle"] /\ arg = [s \in Setters |-> NULL]
    /\ startTask = "polling"
    /\ evq = <<>> /\ loopAlive = TRUE
    /\ starter = "none" /\ held = NothingHeld /\ dangling = {}
    /\ coreAgent = NULL /\ coreToken = NULL /\ outdated = FALSE

\* Power may fail, and the device be reset, at any time: it boots from NVS.
Reboot ==
    /\ UNCHANGED nvs
    /\ agentId' = StoredAgentId /\ refreshToken' = nvsToken
    /\ agentIdSet' = (StoredAgentId # NULL) /\ tokenSet' = (nvsToken # NULL) /\ network' = FALSE
    /\ pc' = [s \in Setters |-> "idle"] /\ arg' = [s \in Setters |-> NULL]
    /\ startTask' = "polling"
    /\ evq' = <<>> /\ loopAlive' = TRUE
    /\ starter' = "none" /\ held' = NothingHeld /\ dangling' = {}
    /\ coreAgent' = NULL /\ coreToken' = NULL /\ outdated' = FALSE

-----------------------------------------------------------------------------
(* The default event loop *)

\* Faulty variant of Post: the full queue is not noticed.
PostUnchecked(e) == evq' = Append(evq, e) /\ UNCHANGED loopAlive

\* esp_event_post with portMAX_DELAY, from a task other than the loop's.
Post(e) ==
    /\ Len(evq) < EventQueueSize
    /\ evq' = Append(evq, e)
    /\ UNCHANGED loopAlive

\* The loop's task takes the next event when no handler of it is under way.
Dispatch(e) == loopAlive /\ held.update = NULL /\ evq # <<>> /\ Head(evq) = e

\* The station gets an address, for the first time or again.
GotIp ==
    /\ Post("GOT_IP")
    /\ UNCHANGED <<nvs, data, flags, calls, startTask, boot, core>>

\* event_handler of agent_setup.c.  A post from the loop's own task does not
\* wait, whatever its timeout: a sender that waits may take the room first.
DispatchGotIp ==
    /\ Dispatch("GOT_IP")
    /\ network' = TRUE
    /\ evq' \in {Append(Tail(evq), "NETWORK_CONNECTED"), Tail(evq)}
    /\ UNCHANGED <<nvs, data, agentIdSet, tokenSet, calls, startTask, loopAlive, boot, core>>

\* No handler does anything.
DispatchNetworkConnected ==
    /\ Dispatch("NETWORK_CONNECTED")
    /\ evq' = Tail(evq)
    /\ UNCHANGED <<nvs, data, flags, calls, startTask, loopAlive, boot, core>>

\* agent_setup_event_handler creates app_agent_start_task.
DispatchStart ==
    /\ Dispatch("START")
    /\ evq' = Tail(evq)
    /\ starter' = "begin"
    /\ UNCHANGED <<nvs, data, flags, calls, startTask, loopAlive, held, dangling, core>>

\* Faulty variant of DispatchAgentIdUpdate: an agent not started yet is left out.
DispatchAgentIdUpdateOnceStarted ==
    /\ Dispatch("AGENT_ID_UPDATE")
    /\ evq' = Tail(evq)
    /\ held' = IF starter = "done" THEN [held EXCEPT !.update = agentId] ELSE held
    /\ UNCHANGED <<nvs, data, flags, calls, startTask, loopAlive, starter, dangling, core>>

\* agent_setup_event_handler takes the pointer to the present id, not to the one
\* whose setting was announced.
DispatchAgentIdUpdate ==
    /\ Dispatch("AGENT_ID_UPDATE")
    /\ evq' = Tail(evq)
    /\ held' = [held EXCEPT !.update = agentId]
    /\ UNCHANGED <<nvs, data, flags, calls, startTask, loopAlive, starter, dangling, core>>

\* The string a held pointer leads to.
Contents(field) == IF field \in dangling THEN {held[field], GARBAGE} ELSE {held[field]}

\* It gives the agent what it points to; then, with a RainMaker device,
\* report_updated_agent_id ends with a vTaskDelete of the task it runs in, the
\* loop's.
HandlerSetsAgentId ==
    /\ held.update # NULL
    /\ coreAgent' \in Contents("update") /\ outdated' = FALSE
    /\ held' = [held EXCEPT !.update = NULL] /\ dangling' = dangling \ {"update"}
    /\ loopAlive' = ~DeviceEnabled
    /\ UNCHANGED <<nvs, data, flags, calls, startTask, evq, starter, coreToken>>

-----------------------------------------------------------------------------
(* agent_setup_set_agent_id and agent_setup_set_refresh_token *)

Step(s, label, value) == pc' = [pc EXCEPT ![s] = label] /\ arg' = [arg EXCEPT ![s] = value]

\* RainMaker sets the agent id by way of its device, if it has one.
MaySetAgentId(s) == s = "console" \/ DeviceEnabled

\* The agent id is saved to NVS first; a save that fails changes nothing.
SaveAgentId(s, id) ==
    /\ pc[s] = "idle" /\ MaySetAgentId(s)
    /\ nvsAgent' = id
    /\ Step(s, "install", id)
    /\ UNCHANGED <<nvsToken, data, flags, startTask, loop, boot, core>>

\* The old string is freed, even while another task holds a pointer to it.
Freed(fields) == dangling \cup {field \in fields : held[field] # NULL}

InstallAgentId(s) ==
    /\ pc[s] = "install"
    /\ agentId' = arg[s] /\ agentIdSet' = TRUE
    /\ dangling' = Freed({"agent", "update"})
    /\ Step(s, "post", NULL)
    /\ UNCHANGED <<nvs, refreshToken, tokenSet, network, startTask, loop, starter, held, core>>

\* Faulty variant of PostAgentIdUpdate: it does not wait for room in the queue.
PostAgentIdUpdateOrNot(s) ==
    /\ pc[s] = "post"
    /\ evq' = IF Len(evq) < EventQueueSize THEN Append(evq, "AGENT_ID_UPDATE") ELSE evq
    /\ Step(s, "idle", NULL)
    /\ UNCHANGED <<nvs, data, flags, startTask, loopAlive, boot, core>>

PostAgentIdUpdate(s) ==
    /\ pc[s] = "post"
    /\ Post("AGENT_ID_UPDATE")
    /\ Step(s, "idle", NULL)
    /\ UNCHANGED <<nvs, data, flags, startTask, boot, core>>

\* The refresh token is put in place first, and its flag raised.
InstallToken(s, t) ==
    /\ pc[s] = "idle"
    /\ refreshToken' = t /\ tokenSet' = TRUE
    /\ dangling' = Freed({"token"})
    /\ Step(s, "save", t)
    /\ UNCHANGED <<nvs, agentId, agentIdSet, network, startTask, loop, starter, held, core>>

\* Faulty variant of SaveToken: a token that could not be saved stays in place.
SaveTokenOrKeepIt(s) ==
    /\ pc[s] = "save"
    /\ \/ nvsToken' = refreshToken
       \/ UNCHANGED nvsToken
    /\ Step(s, "idle", NULL)
    /\ UNCHANGED <<nvsAgent, data, flags, startTask, loop, boot, core>>

\* What is saved is the string in place (another setter may have replaced the
\* token, or dropped it: then nvs_set_str fails).  A save that fails drops the
\* token and leaves its flag raised.
SaveToken(s) ==
    /\ pc[s] = "save"
    /\ \/ refreshToken # NULL /\ nvsToken' = refreshToken /\ UNCHANGED <<refreshToken, dangling>>
       \/ refreshToken' = NULL /\ dangling' = Freed({"token"}) /\ UNCHANGED nvsToken
    /\ Step(s, "idle", NULL)
    /\ UNCHANGED <<nvsAgent, agentId, flags, startTask, loop, starter, held, core>>

-----------------------------------------------------------------------------
(* start_task, and app_agent_start_task up to the connection *)

\* Faulty variant of PostStart: it does not wait for room in the queue.
PostStartOrNot ==
    /\ startTask = "polling"
    /\ network /\ agentIdSet /\ tokenSet
    /\ evq' = IF Len(evq) < EventQueueSize THEN Append(evq, "START") ELSE evq
    /\ startTask' = "posted"
    /\ UNCHANGED <<nvs, data, flags, calls, loopAlive, boot, core>>

PostStart ==
    /\ startTask = "polling"
    /\ network /\ agentIdSet /\ tokenSet
    /\ Post("START")
    /\ startTask' = "posted"
    /\ UNCHANGED <<nvs, data, flags, calls, boot, core>>

\* The task takes the pointers to both strings.
StarterBegin ==
    /\ starter = "begin" /\ agentId # NULL /\ refreshToken # NULL
    /\ starter' = "setAgentId"
    /\ held' = [held EXCEPT !.agent = agentId, !.token = refreshToken]
    /\ dangling' = dangling \ {"agent", "token"}
    /\ UNCHANGED <<nvs, data, flags, calls, startTask, loop, core>>

\* Without both strings it returns from its task function, where FreeRTOS
\* aborts and the device restarts.
StarterAborts ==
    /\ starter = "begin" /\ (agentId = NULL \/ refreshToken = NULL)
    /\ Reboot

StarterSetsAgentId ==
    /\ starter = "setAgentId" /\ starter' = "setToken"
    /\ coreAgent' \in Contents("agent") /\ outdated' = ("agent" \in dangling)
    /\ UNCHANGED <<nvs, data, flags, calls, startTask, loop, held, dangling, coreToken>>

StarterSetsToken ==
    /\ starter = "setToken" /\ starter' = "done"
    /\ coreToken' \in Contents("token")
    /\ held' = [NothingHeld EXCEPT !.update = held.update]
    /\ dangling' = dangling \ {"agent", "token"}
    /\ UNCHANGED <<nvs, data, flags, calls, startTask, loop, coreAgent, outdated>>

-----------------------------------------------------------------------------
EventLoop ==
    \/ DispatchGotIp \/ DispatchNetworkConnected \/ DispatchStart
    \/ DispatchAgentIdUpdate \/ HandlerSetsAgentId

Call(s) ==
    \/ \E id \in AgentIds : SaveAgentId(s, id)
    \/ \E t \in Tokens : InstallToken(s, t)

Continue(s) == InstallAgentId(s) \/ PostAgentIdUpdate(s) \/ SaveToken(s)

Starter == StarterBegin \/ StarterAborts \/ StarterSetsAgentId \/ StarterSetsToken

Next ==
    \/ GotIp \/ EventLoop
    \/ \E s \in Setters : Call(s) \/ Continue(s)
    \/ PostStart \/ Starter
    \/ Reboot

Spec == Init /\ [][Next]_vars

\* Every task is scheduled.  Tasks that wait for room in the event queue are
\* woken in turn: strong fairness for them.
Fairness ==
    /\ WF_vars(EventLoop)
    /\ \A s \in Setters : SF_vars(Continue(s))
    /\ SF_vars(PostStart)
    /\ WF_vars(Starter)

FairSpec == Spec /\ Fairness

-----------------------------------------------------------------------------
(* Properties *)

StoreOK ==
    /\ nvsAgent \in AgentIds \cup {NULL} /\ nvsToken \in Tokens \cup {NULL}
    /\ agentId \in AgentIds \cup {NULL} /\ refreshToken \in Tokens \cup {NULL}
    /\ agentIdSet \in BOOLEAN /\ tokenSet \in BOOLEAN /\ network \in BOOLEAN

CallsOK ==
    /\ pc \in [Setters -> SetterSteps] /\ arg \in [Setters -> AgentIds \cup Tokens \cup {NULL}]
    /\ \A s \in Setters : /\ pc[s] = "install" => arg[s] \in AgentIds
                          /\ pc[s] = "save" => arg[s] \in Tokens

LoopOK ==
    /\ startTask \in {"polling", "posted"} /\ loopAlive \in BOOLEAN
    /\ evq \in Seq(Events) /\ Len(evq) <= EventQueueSize

StarterOK ==
    /\ starter \in StarterSteps
    /\ held \in [agent : AgentIds \cup {NULL}, token : Tokens \cup {NULL}, update : AgentIds \cup {NULL}]
    /\ dangling \subseteq {"agent", "token", "update"} /\ outdated \in BOOLEAN
    /\ coreAgent \in AgentIds \cup {NULL, GARBAGE} /\ coreToken \in Tokens \cup {NULL, GARBAGE}

\* Every variable keeps its range, and the event queue its size; a setter's
\* pending value is of the kind its next step stores.
TypeOK == StoreOK /\ CallsOK /\ LoopOK /\ StarterOK

\* Between calls, the agent id in use is the one the next boot will load, and
\* the refresh token in use, if any, too: across failed saves and power
\* failures between the steps of a setter, memory never runs ahead of NVS nor
\* behind it.  It is about one setter at a time.
Persisted ==
    (\A s \in Setters : pc[s] = "idle")
        => agentId = StoredAgentId /\ refreshToken \in {NULL, nvsToken}

UpdateWaits == \E i \in DOMAIN evq : evq[i] = "AGENT_ID_UPDATE"

\* The agent is never left with an old id: with no call under way, no update in
\* the event loop's queue and none in its handler, the agent has the current id
\* or none yet.  The handler reads the id when it runs and not when the event was
\* posted, may serve several calls, and its pointer may be freed under it by the
\* next.  It holds before, while and after app_agent_start_task runs, but for the
\* case NewAgentIsUsed is about: that task gave an id which was replaced since it
\* took the pointer (outdated), until the next update.  That a waiting update
\* does arrive is UpdateArrives.
UpdatesReachAgent ==
    (\A s \in Setters : pc[s] = "idle") /\ ~UpdateWaits /\ held.update = NULL
        => coreAgent \in {NULL, agentId} \/ outdated

\* include/agent_setup.h:84, setting the agent id "will result in
\* AGENT_SETUP_EVENT_AGENT_ID_UPDATE event being triggered": an agent id that was
\* put in place is given to the agent, unless the device is reset or a newer one
\* is being set, whose turn it then is.  It is about a device that has its
\* address, which only a reset takes away.  Only without the RainMaker device:
\* with it the loop's task is gone after the first update.
UpdateArrives ==
    \A s \in Setters :
        (pc[s] = "post" /\ network)
            ~> (coreAgent = agentId \/ ~network \/ \E u \in Setters : pc[u] = "install")

\* include/agent_setup.h:19-22, START "will be triggered when all of the
\* following conditions are met": once the device has its address, an agent id
\* and a token, app_agent_start_task is created, unless the device is reset
\* first.  start_task, the setters and the loop's own handler compete for the
\* room in the event queue.
SetupCompletes == (network /\ agentIdSet /\ tokenSet) ~> (starter # "none" \/ ~network)

UpdatePending == UpdateWaits \/ \E s \in Setters : pc[s] = "post"

\* UpdatesReachAgent, with what makes it inductive: an agent with an old id has
\* the update on the way, in a call, the queue or the handler; a handler whose
\* pointer was freed has another update behind it; a pointer that was not freed
\* leads to the current id.
UpdatesInv ==
    /\ coreAgent \in {NULL, agentId} \/ UpdatePending \/ held.update # NULL \/ outdated
    /\ UpdatePending => agentId # NULL
    /\ "update" \in dangling => held.update # NULL /\ UpdatePending
    /\ \A field \in {"agent", "update"} :
        held[field] # NULL /\ field \notin dangling => held[field] = agentId

\* Persisted, with what makes it inductive for one setter: what each step of a
\* call has stored and what it has yet to store.
PersistedInv ==
    \A s \in Setters :
        /\ IF pc[s] = "install" THEN nvsAgent = arg[s] ELSE agentId = StoredAgentId
        /\ IF pc[s] = "save" THEN refreshToken = arg[s] ELSE refreshToken \in {NULL, nvsToken}

-----------------------------------------------------------------------------
(* What the documentation says and the code does not do *)

\* include/agent_setup.h:19-22, START means that the "Refresh token is set":
\* when it is posted there is an agent id and a token to start with.
StartHasCredentials ==
    [][startTask = "polling" /\ startTask' = "posted"
           => agentId # NULL /\ refreshToken # NULL]_vars

\* docs/agent_customisation.md:15, "update the agent ID on the device to start
\* using the new agent": with no call under way and no update waiting or being
\* handled, an agent that was given its credentials has the current id.
NewAgentIsUsed ==
    (\A s \in Setters : pc[s] = "idle") /\ starter = "done"
        /\ ~UpdateWaits /\ held.update = NULL
        => coreAgent = agentId

=============================================================================
