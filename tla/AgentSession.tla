---------------------------- MODULE AgentSession ----------------------------
(***************************************************************************)
(* The session layer of the esp_agent component: the public calls that     *)
(* start, stop and reconfigure an agent, the websocket client task whose   *)
(* events drive the handshake, the send task, the message task and the     *)
(* task of the agent's event loop.  None of the fields of esp_agent_t is   *)
(* protected by a lock, so every public call is a sequence of steps that   *)
(* interleave with the steps of the tasks.                                 *)
(*                                                                         *)
(* Values are abstract: an agent id, a token or a conversation id is one   *)
(* element of a small set, and an access token is identified with the      *)
(* refresh token it was obtained with.                                     *)
(***************************************************************************)
EXTENDS Naturals, Sequences

CONSTANTS
    Apps,              \* application tasks that call the public API
    EventTask,         \* the task of the agent's event loop ("agent_events")
    Senders,           \* tasks that queue speech, text or tool responses
    AgentIds, Tokens, ConvIds,
    NULL,              \* the C null pointer
    SendQueueSize,     \* ESP_AGENT_SEND_QUEUE_SIZE, 35 in the code
    MessageQueueSize,  \* ESP_AGENT_TEXT_MESSAGE_QUEUE_SIZE, 10 in the code
    EventQueueSize     \* loop_args.queue_size, 10 in the code

ASSUME CallersAssumption == EventTask \notin Apps
ASSUME NullAssumption == NULL \notin AgentIds \cup Tokens \cup ConvIds
ASSUME SizeAssumption ==
    /\ SendQueueSize \in Nat \ {0}
    /\ MessageQueueSize \in Nat \ {0}
    /\ EventQueueSize \in Nat \ {0}

Callers == Apps \cup {EventTask}

VARIABLES
    agentId, refreshToken, accessToken, convId,  \* identity kept in esp_agent_t
    started, connected, handshake,               \* the flags of esp_agent_t
    sendQ, messageQ, evq,                        \* send_queue, message_queue, event_loop
    ws,        \* where the websocket client task is
    uri,       \* what esp_websocket_client_set_uri was last given
    replies,   \* handshake acks on their way from the server, this connection
    greeted,   \* history: a handshake was queued on the current connection
    pc, op,    \* of each caller: its next step and the call it is in
    err,       \* the callers whose last call returned an error
    snd        \* of each sender: whether it is past the `started` check

identity == <<agentId, refreshToken, accessToken, convId>>
flags    == <<started, connected, handshake>>
queues   == <<sendQ, messageQ, evq>>
client   == <<ws, uri, replies, greeted>>
calls    == <<pc, op, err>>
vars     == <<identity, flags, queues, client, calls, snd>>

HandshakeStates == {"NOT_DONE", "AWAITING_ACK", "DONE"}
Events == {"CONNECTED", "DISCONNECTED", "START", "ERROR", "SPEECH"}
Ops    == {"none", "start", "stop", "newConversation", "setAgentId", "setRefreshToken"}
Steps  == {"idle", "stopEntry", "awaitStop", "clear", "startEntry", "token", "connect", "mark"}

\* The transport is open: esp_websocket_client_is_connected.
UpStates == {"handshaking", "pushing", "confirming", "open"}
WsStates == {"stopped", "connecting", "finishing"} \cup UpStates
LinkUp   == ws \in UpStates

OutMessages == [kind : {"data"}] \cup [kind : {"handshake"}, conv : ConvIds \cup {NULL}]
InMessages  == [kind : {"error"}] \cup [kind : {"ack"}, conv : ConvIds \cup {NULL}]
Uris        == [agent : AgentIds, token : Tokens]

\* Init is the agent as app_agent_init leaves it: esp_agent_init with neither
\* an agent id nor a refresh token.
Init ==
    /\ agentId = NULL /\ refreshToken = NULL /\ accessToken = NULL /\ convId = NULL
    /\ started = FALSE /\ connected = FALSE /\ handshake = "NOT_DONE"
    /\ sendQ = <<>> /\ messageQ = <<>> /\ evq = <<>>
    /\ ws = "stopped" /\ uri = NULL /\ replies = <<>> /\ greeted = FALSE
    /\ pc = [c \in Callers |-> "idle"]
    /\ op = [c \in Callers |-> "none"]
    /\ err = {}
    /\ snd = [s \in Senders |-> FALSE]

-----------------------------------------------------------------------------
(* Helpers *)

\* Faulty variant of Post: an event is never given up (portMAX_DELAY).
PostWithoutTimeout(e) == Len(evq) < EventQueueSize /\ evq' = Append(evq, e)

\* esp_agent_post_event: waits up to a second for room, then gives the event up.
Post(e) == evq' = IF Len(evq) < EventQueueSize THEN Append(evq, e) ELSE evq

Result(c, ok) == err' = IF ok THEN err \ {c} ELSE err \cup {c}

\* A call returns to its caller; esp_agent_set_refresh_token drops the
\* result of the restart and reports success.
Return(c, ok) ==
    /\ pc' = [pc EXCEPT ![c] = "idle"]
    /\ op' = [op EXCEPT ![c] = "none"]
    /\ Result(c, ok \/ op[c] = "setRefreshToken")

Goto(c, label) == pc' = [pc EXCEPT ![c] = label] /\ UNCHANGED <<op, err>>

Enter(c, name, label) ==
    /\ pc[c] = "idle"
    /\ pc' = [pc EXCEPT ![c] = label]
    /\ op' = [op EXCEPT ![c] = name]
    /\ UNCHANGED err

\* A call that has nothing more to do returns at once.
ReturnAtOnce(c, ok) ==
    /\ pc[c] = "idle"
    /\ Result(c, ok)
    /\ UNCHANGED <<pc, op>>

-----------------------------------------------------------------------------
(* esp_agent_start, and the start half of the calls that restart the agent *)

\* The checks at the top of esp_agent_start and the storing of the
\* conversation id the caller gave, if any.
StartCall(c, conv) ==
    /\ \/ (started \/ agentId = NULL \/ refreshToken = NULL)
          /\ ReturnAtOnce(c, started)
          /\ UNCHANGED convId
       \/ ~started /\ agentId # NULL /\ refreshToken # NULL
          /\ Enter(c, "start", "token")
          /\ convId' = IF conv = NULL THEN convId ELSE conv
    /\ UNCHANGED <<agentId, refreshToken, accessToken, flags, queues, client, snd>>

\* The same checks when a restart reaches esp_agent_start(handle, NULL).
Restart(c) ==
    /\ pc[c] = "startEntry"
    /\ IF started \/ agentId = NULL \/ refreshToken = NULL
       THEN Return(c, started)
       ELSE Goto(c, "token")
    /\ UNCHANGED <<identity, flags, queues, client, snd>>

\* esp_agent_websocket_start: the access token is reused unless it is unset or
\* older than its lifetime less a margin; otherwise it is dropped and fetched
\* over HTTP, which may fail.
AccessToken(c) ==
    /\ pc[c] = "token"
    /\ \/ accessToken # NULL /\ Goto(c, "connect") /\ UNCHANGED accessToken
       \/ accessToken' = refreshToken /\ Goto(c, "connect")
       \/ accessToken' = NULL /\ Return(c, FALSE)
    /\ UNCHANGED <<agentId, refreshToken, convId, flags, queues, client, snd>>

\* The rest of esp_agent_websocket_start: the URI is set whatever the client
\* does, and esp_websocket_client_start refuses a client that still runs.
Connect(c) ==
    /\ pc[c] = "connect"
    /\ \/ /\ accessToken = NULL
          /\ Return(c, FALSE)
          /\ UNCHANGED client
       \/ /\ accessToken # NULL
          /\ uri' = [agent |-> agentId, token |-> accessToken]
          /\ IF ws = "stopped"
             THEN ws' = "connecting" /\ Goto(c, "mark")
             ELSE UNCHANGED ws /\ Return(c, FALSE)
          /\ UNCHANGED <<replies, greeted>>
    /\ UNCHANGED <<identity, flags, queues, snd>>

\* started = true, after the websocket client was started.
MarkStarted(c) ==
    /\ pc[c] = "mark"
    /\ started' = TRUE
    /\ Return(c, TRUE)
    /\ UNCHANGED <<identity, connected, handshake, queues, client, snd>>

-----------------------------------------------------------------------------
(* esp_agent_stop, and the calls that stop and restart the agent *)

StopCall(c) ==
    /\ Enter(c, "stop", "stopEntry")
    /\ UNCHANGED <<identity, flags, queues, client, snd>>

\* esp_agent_new_conversation: only for a started agent.
NewConversationCall(c) ==
    /\ IF started THEN Enter(c, "newConversation", "stopEntry") ELSE ReturnAtOnce(c, FALSE)
    /\ UNCHANGED <<identity, flags, queues, client, snd>>

\* esp_agent_set_agent_id: restarts a started agent when the id changed.  AgentIds
\* are ids that differ in their first 32 characters, all that the code compares.
SetAgentIdCall(c, id) ==
    /\ agentId' = id
    /\ IF id # agentId /\ started THEN Enter(c, "setAgentId", "stopEntry") ELSE ReturnAtOnce(c, TRUE)
    /\ UNCHANGED <<refreshToken, accessToken, convId, flags, queues, client, snd>>

\* Faulty variant of SetRefreshTokenCall: the access token is kept.
SetRefreshTokenKeepingAccess(c, t) ==
    /\ refreshToken' = t
    /\ IF started THEN Enter(c, "setRefreshToken", "stopEntry") ELSE ReturnAtOnce(c, TRUE)
    /\ UNCHANGED <<agentId, accessToken, convId, flags, queues, client, snd>>

\* esp_agent_set_refresh_token: the access token goes with the old refresh token.
SetRefreshTokenCall(c, t) ==
    /\ refreshToken' = t
    /\ accessToken' = NULL
    /\ IF started THEN Enter(c, "setRefreshToken", "stopEntry") ELSE ReturnAtOnce(c, TRUE)
    /\ UNCHANGED <<agentId, convId, flags, queues, client, snd>>

\* What follows the return of esp_agent_stop in the call it was made from:
\* esp_agent_new_conversation forgets the conversation before it restarts.
AfterStop(c) ==
    /\ IF op[c] = "stop" THEN Return(c, TRUE) ELSE Goto(c, "startEntry")
    /\ convId' = IF op[c] = "newConversation" THEN NULL ELSE convId

\* The websocket is closed only if the connected flag is set.
StopEntry(c) ==
    /\ pc[c] = "stopEntry"
    /\ IF started
       THEN Goto(c, IF connected THEN "awaitStop" ELSE "clear") /\ UNCHANGED convId
       ELSE AfterStop(c)
    /\ UNCHANGED <<agentId, refreshToken, accessToken, flags, queues, client, snd>>

\* The flags are reset and the send queue is purged; the message queue is not.
StopClear(c) ==
    /\ pc[c] = "clear"
    /\ started' = FALSE /\ connected' = FALSE /\ handshake' = "NOT_DONE"
    /\ sendQ' = <<>>
    /\ AfterStop(c)
    /\ UNCHANGED <<agentId, refreshToken, accessToken, messageQ, evq, client, snd>>

-----------------------------------------------------------------------------
(* The websocket client task and the handler of its events *)

\* The transport opens; the handler of WEBSOCKET_EVENT_CONNECTED begins.
WsConnect ==
    /\ ws = "connecting"
    /\ ws' = "handshaking" /\ greeted' = FALSE /\ replies' = <<>>
    /\ UNCHANGED <<identity, flags, queues, uri, calls, snd>>

\* send_handshake up to the check of `started` in
\* esp_agent_websocket_queue_message; a handshake that is refused there is
\* not tried again.
WsSendHandshake ==
    /\ ws = "handshaking"
    /\ ws' = IF handshake = "NOT_DONE" /\ started THEN "pushing" ELSE "open"
    /\ IF ws' = "open"
       THEN connected' = TRUE /\ Post("CONNECTED")
       ELSE UNCHANGED <<connected, evq>>
    /\ UNCHANGED <<identity, started, handshake, sendQ, messageQ, uri, replies, greeted, calls, snd>>

\* xQueueSend with portMAX_DELAY: the websocket task waits for room.
WsPushHandshake ==
    /\ ws = "pushing"
    /\ Len(sendQ) < SendQueueSize
    /\ sendQ' = Append(sendQ, [kind |-> "handshake", conv |-> convId])
    /\ ws' = "confirming" /\ greeted' = TRUE
    /\ UNCHANGED <<identity, flags, messageQ, evq, uri, replies, calls, snd>>

\* The rest of the CONNECTED handler after the handshake was queued.
WsConfirm ==
    /\ ws = "confirming"
    /\ handshake' = "AWAITING_ACK" /\ connected' = TRUE
    /\ Post("CONNECTED")
    /\ ws' = "open"
    /\ UNCHANGED <<identity, started, sendQ, messageQ, uri, replies, greeted, calls, snd>>

\* Faulty variant of Deliver: the full queue is not noticed.
DeliverUnchecked(m) == messageQ' = Append(messageQ, m)

\* A complete text message; the message queue is given ten milliseconds.
Deliver(m) == messageQ' = IF Len(messageQ) < MessageQueueSize THEN Append(messageQ, m) ELSE messageQ

WsAck ==
    /\ ws = "open" /\ replies # <<>>
    /\ Deliver(Head(replies)) /\ replies' = Tail(replies)
    /\ UNCHANGED <<identity, flags, sendQ, evq, ws, uri, greeted, calls, snd>>

WsError ==
    /\ ws = "open"
    /\ Deliver([kind |-> "error"])
    /\ UNCHANGED <<identity, flags, sendQ, evq, client, calls, snd>>

WsSpeech ==
    /\ ws = "open"
    /\ Post("SPEECH")
    /\ UNCHANGED <<identity, flags, sendQ, messageQ, client, calls, snd>>

\* Faulty variant of LinkDownHandler: the handshake state survives the link.
LinkDownKeepingHandshake ==
    /\ connected' = FALSE /\ started' = FALSE /\ UNCHANGED handshake
    /\ Post("DISCONNECTED")

\* The handler of DISCONNECTED, ERROR, CLOSED and FINISH.
LinkDownHandler ==
    /\ connected' = FALSE /\ started' = FALSE /\ handshake' = "NOT_DONE"
    /\ Post("DISCONNECTED")

\* The connection attempt fails, or the open connection is lost or closed.
WsConnectFailed ==
    /\ ws = "connecting"
    /\ LinkDownHandler
    /\ ws' = "finishing"
    /\ UNCHANGED <<identity, sendQ, messageQ, uri, replies, greeted, calls, snd>>

WsLinkLost ==
    /\ ws = "open"
    /\ LinkDownHandler
    /\ ws' = "finishing" /\ replies' = <<>>
    /\ UNCHANGED <<identity, sendQ, messageQ, uri, greeted, calls, snd>>

\* A caller waits in esp_websocket_client_close or _stop for the task to end.
StopRequested == \E c \in Callers : pc[c] = "awaitStop"

\* The task ends: FINISH is handled, then the callers waiting in
\* esp_websocket_client_stop are released.
WsFinish ==
    /\ ws = "finishing" \/ (ws = "open" /\ StopRequested)
    /\ LinkDownHandler
    /\ ws' = "stopped" /\ replies' = <<>>
    /\ pc' = [c \in Callers |-> IF pc[c] = "awaitStop" THEN "clear" ELSE pc[c]]
    /\ UNCHANGED <<identity, sendQ, messageQ, uri, greeted, op, err, snd>>

-----------------------------------------------------------------------------
(* The other tasks *)

\* A task past the `started` check of esp_agent_websocket_queue_message.
QueueCheck(s) ==
    /\ ~snd[s] /\ started
    /\ snd' = [snd EXCEPT ![s] = TRUE]
    /\ UNCHANGED <<identity, flags, queues, client, calls>>

\* It queues its message, or gives up after its timeout when the queue is full.
QueuePush(s) ==
    /\ snd[s]
    /\ snd' = [snd EXCEPT ![s] = FALSE]
    /\ sendQ' = IF Len(sendQ) < SendQueueSize THEN Append(sendQ, [kind |-> "data"]) ELSE sendQ
    /\ UNCHANGED <<identity, flags, messageQ, evq, client, calls>>

\* Faulty variant of SendTask: it waits for the agent's connected flag instead
\* of asking the client whether its transport is open.
SendTaskWhenFlagged ==
    /\ sendQ # <<>> /\ connected
    /\ sendQ' = Tail(sendQ)
    /\ UNCHANGED <<identity, flags, messageQ, evq, client, calls, snd>>

\* esp_agent_websocket_send_task: a message is sent if the transport is open
\* (which may fail) and dropped otherwise.  A handshake that arrives is
\* answered with an ack; the id in it is the server's choice, or missing.
SendTask ==
    /\ sendQ # <<>>
    /\ sendQ' = Tail(sendQ)
    /\ \/ UNCHANGED replies
       \/ LinkUp /\ Head(sendQ).kind = "handshake" /\ replies = <<>>
          /\ \E id \in ConvIds \cup {NULL} : replies' = <<[kind |-> "ack", conv |-> id]>>
    /\ UNCHANGED <<identity, flags, messageQ, evq, ws, uri, greeted, calls, snd>>

\* esp_agent_message_handshake_ack_handler: the state is set whatever it was.
HandshakeAck(m) ==
    /\ handshake' = "DONE"
    /\ IF m.conv = NULL
       THEN UNCHANGED <<convId, evq>>
       ELSE convId' = m.conv /\ Post("START")

\* message_processing_task and the handler of the message it takes.
MessageTask ==
    /\ messageQ # <<>>
    /\ messageQ' = Tail(messageQ)
    /\ \/ Head(messageQ).kind = "ack" /\ HandshakeAck(Head(messageQ))
       \/ Head(messageQ).kind = "error" /\ Post("ERROR") /\ UNCHANGED <<convId, handshake>>
    /\ UNCHANGED <<agentId, refreshToken, accessToken, started, connected, sendQ, client, calls, snd>>

\* The event loop's task runs the application's handler, which calls
\* esp_agent_stop on an error event.
DispatchEvent ==
    /\ evq # <<>> /\ pc[EventTask] = "idle"
    /\ evq' = Tail(evq)
    /\ IF Head(evq) = "ERROR"
       THEN Enter(EventTask, "stop", "stopEntry")
       ELSE UNCHANGED calls
    /\ UNCHANGED <<identity, flags, sendQ, messageQ, client, snd>>

-----------------------------------------------------------------------------
Call(c) ==
    \/ \E conv \in ConvIds \cup {NULL} : StartCall(c, conv)
    \/ StopCall(c)
    \/ NewConversationCall(c)
    \/ \E id \in AgentIds : SetAgentIdCall(c, id)
    \/ \E t \in Tokens : SetRefreshTokenCall(c, t)

Continue(c) ==
    \/ Restart(c) \/ AccessToken(c) \/ Connect(c) \/ MarkStarted(c)
    \/ StopEntry(c) \/ StopClear(c)

\* Steps the client task takes without waiting for its peer, but for a
\* connection attempt, which the network timeout ends.
WsProgress ==
    \/ WsConnect \/ WsConnectFailed
    \/ WsSendHandshake \/ WsPushHandshake \/ WsConfirm
    \/ WsFinish

WsTraffic == WsAck \/ WsError \/ WsSpeech \/ WsLinkLost

Next ==
    \/ \E c \in Apps : Call(c)
    \/ \E c \in Callers : Continue(c)
    \/ WsProgress \/ WsTraffic
    \/ \E s \in Senders : QueueCheck(s) \/ QueuePush(s)
    \/ SendTask \/ MessageTask \/ DispatchEvent

Spec == Init /\ [][Next]_vars

\* Every task is scheduled and every blocking step has a timeout; nothing
\* obliges an application to make a call, nor the peer to send or to hang up.
\* The client task competes with the senders for room in the send queue, where
\* the kernel wakes the waiting tasks in turn: strong fairness.
Fairness ==
    /\ \A c \in Callers : WF_vars(Continue(c))
    /\ WF_vars(WsProgress) /\ SF_vars(WsPushHandshake)
    /\ \A s \in Senders : WF_vars(QueuePush(s))
    /\ WF_vars(SendTask) /\ WF_vars(MessageTask) /\ WF_vars(DispatchEvent)

FairSpec == Spec /\ Fairness

-----------------------------------------------------------------------------
(* Properties *)

IdentityOK ==
    /\ agentId \in AgentIds \cup {NULL} /\ convId \in ConvIds \cup {NULL}
    /\ refreshToken \in Tokens \cup {NULL} /\ accessToken \in Tokens \cup {NULL}

FlagsOK == started \in BOOLEAN /\ connected \in BOOLEAN /\ handshake \in HandshakeStates

QueuesOK ==
    /\ sendQ \in Seq(OutMessages) /\ Len(sendQ) <= SendQueueSize
    /\ messageQ \in Seq(InMessages) /\ Len(messageQ) <= MessageQueueSize
    /\ evq \in Seq(Events) /\ Len(evq) <= EventQueueSize

\* A caller past the checks of esp_agent_start has an agent id and a refresh
\* token to use.
ClientOK ==
    /\ ws \in WsStates /\ uri \in Uris \cup {NULL} /\ greeted \in BOOLEAN
    /\ replies \in Seq(InMessages) /\ Len(replies) <= 1
    /\ \A c \in Callers : pc[c] \in {"token", "connect"} => agentId # NULL /\ refreshToken # NULL

CallsOK ==
    /\ pc \in [Callers -> Steps] /\ op \in [Callers -> Ops] /\ err \subseteq Callers
    /\ snd \in [Senders -> BOOLEAN]

\* Every field, queue and program counter keeps its range, and no queue
\* exceeds the size it was created with.
TypeOK == IdentityOK /\ FlagsOK /\ QueuesOK /\ ClientOK /\ CallsOK

\* The flags never outlive the connection they describe: `connected` and an
\* awaited ack belong to a client task whose transport is open, and the ack is
\* awaited only on a connection the handshake was queued on.  The flags are
\* written by the client task, by every caller of esp_agent_stop and by the
\* message task, the transport is ended by the peer at any time.
LinkFlagsTruthful ==
    /\ connected => ws = "open"
    /\ handshake = "AWAITING_ACK" => ws = "open" /\ greeted

\* Between calls, an agent that counts as started runs on a URI made of its
\* present agent id and of an access token obtained with its present refresh
\* token: no order of reconfiguration, restart, failed token fetch, link loss
\* and stop by the event task leaves a session of the former identity started.
\* It is about applications that make one call at a time.
CredentialsCurrent ==
    (\A c \in Apps : pc[c] = "idle") /\ started
        => uri = [agent |-> agentId, token |-> refreshToken]

\* Every public call returns: esp_agent_stop waits for the client task, which
\* waits for room in the send queue, which the send task empties, and the
\* event task that would make room for events may itself be in esp_agent_stop.
ApiCallsReturn == \A c \in Callers : pc[c] # "idle" ~> pc[c] = "idle"

\* The client task is never stuck in its event handler or in an attempt to
\* connect: the handshake, which is queued without a timeout from the handler
\* of WEBSOCKET_EVENT_CONNECTED, always finds room in the end.
ClientTaskProgresses == ws \notin {"stopped", "open"} ~> ws \in {"stopped", "open"}

-----------------------------------------------------------------------------
(* Inductive strengthenings, used by AgentSessionProofs *)

\* LinkFlagsTruthful, with what makes it inductive: between queueing the
\* handshake and raising the flags the client task knows it has queued it.
LinkInv == LinkFlagsTruthful /\ (ws = "confirming" => greeted)

StopSteps == {"stopEntry", "awaitStop", "clear"}
StartSteps == {"startEntry", "token", "connect", "mark"}

\* A call that changed the identity of a started agent has yet to reset it.
Reconfiguring(c) == pc[c] \in StopSteps /\ op[c] \in {"setAgentId", "setRefreshToken"}

\* What keeps CredentialsCurrent true through the steps of a call: the access
\* token matches the refresh token, the agent does not count as started while
\* a call starts it, and the event task only ever stops it.
CredInv ==
    /\ accessToken # NULL => accessToken = refreshToken
    /\ pc[EventTask] = "idle" \/ (pc[EventTask] \in StopSteps /\ op[EventTask] = "stop")
    /\ \A c \in Apps :
        /\ pc[c] \in StartSteps => ~started
        /\ pc[c] = "mark" \/ (started /\ ~Reconfiguring(c))
               => uri = [agent |-> agentId, token |-> refreshToken]

-----------------------------------------------------------------------------
(* What the documentation says and the code does not do *)

\* include/esp_agent_core.h:95, esp_agent_stop "will stop the conversation and
\* disconnect the websocket client": once it has reset the flags, the client
\* task has ended or is about to.
StopDisconnects ==
    [][\A c \in Callers :
        pc[c] = "clear" /\ op[c] = "stop" /\ pc'[c] = "idle"
            => ws' \in {"stopped", "finishing"}]_vars

\* src/esp_agent_websocket.c:430, "Perform handshake again on reconnect": the
\* handler of WEBSOCKET_EVENT_CONNECTED finds the handshake not done.
HandshakeOnReconnect == ws = "handshaking" => handshake = "NOT_DONE"

\* include/esp_agent_core.h:103-105, esp_agent_new_conversation reconnects
\* after "clearing the stored conversation ID": it is still clear when the
\* agent is started again.
NewConversationForgets ==
    \A c \in Apps :
        op[c] = "newConversation" /\ pc[c] \in {"startEntry", "token", "connect", "mark"}
            => convId = NULL

\* include/esp_agent_core.h:85-86, esp_agent_start connects to the server "and
\* performs the handshake": when no call is under way, a started agent on an
\* open connection has sent its handshake.
StartHandshakes ==
    (\A c \in Callers : pc[c] = "idle") /\ started /\ connected => handshake # "NOT_DONE"

\* include/esp_agent_core.h:85, esp_agent_start "Starts the websocket client":
\* when no call is under way, a started agent has a running client.
StartedClientRuns ==
    (\A c \in Callers : pc[c] = "idle") /\ started => ws # "stopped"

\* include/esp_agent_core.h:134, "ESP_OK on success, error code otherwise": an
\* esp_agent_set_refresh_token whose restart failed does not return ESP_OK.
RestartFailureReported ==
    [][\A c \in Apps :
        pc[c] \in {"token", "connect"} /\ pc'[c] = "idle" => c \in err']_vars

=============================================================================
