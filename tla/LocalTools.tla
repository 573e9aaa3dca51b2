---------------------------- MODULE LocalTools ----------------------------
(***************************************************************************)
(* The local tools of an agent (esp_agent_tools.c, the tool_request        *)
(* handler, the end of esp_agent_deinit).  The application's tasks put     *)
(* tools into a linked list and take them out, while the message task      *)
(* walks it for the tool a request names; nobody takes a lock.  A request  *)
(* that finds its tool gets a task of its own, which runs the tool and     *)
(* queues the response for the send task.                                  *)
(*                                                                         *)
(* The list is one of nodes in memory, read and written step by step.  A   *)
(* step on freed memory has no meaning: the program is corrupt from there, *)
(* and nothing more is said of it.  What a tool does is external.          *)
(***************************************************************************)
EXTENDS Naturals

CONSTANTS
    Tools,          \* names of tools
    AppTasks,       \* tasks of the application that register and unregister tools
    NodeCount,      \* bound: how many nodes there are to allocate
    RequestCount,   \* bound: how many requests arrive
    SendQueueSize,  \* ESP_AGENT_SEND_QUEUE_SIZE, 35 in the code
    Budget          \* bound: calls of the application, changes of the session

Nodes    == 1 .. NodeCount
Nil      == 0
Requests == 1 .. RequestCount

ASSUME CountAssumption == NodeCount \in Nat \ {0} /\ RequestCount \in Nat /\ SendQueueSize \in Nat \ {0}
ASSUME BudgetAssumption == Budget \in [{"calls", "changes"} -> Nat]

VARIABLES
    head,        \* agent->local_tools
    node,        \* of each node: its name, its next, whether it is new, live or freed
    app,         \* of each application task: where it is in which call
    registered,  \* history: tools whose registration has returned, not unregistered since
    asked,       \* of each request: the tool it names
    status,      \* of each request: how far it is
    walk,        \* where the message task is in the list
    absent,      \* history: the tool it looks for was not registered at some moment
    overlapped,  \* history: two tasks were in a call at once
    sendQ,       \* messages in agent->send_queue
    started,     \* agent->started
    agent,       \* "up", "stopped" by esp_agent_deinit, "freed"
    corrupt,     \* freed memory was used
    left         \* bound: what remains of Budget

list  == <<head, node, registered, overlapped>>
calls == <<asked, status>>
reply == <<sendQ, started>>
vars  == <<list, app, calls, walk, absent, reply, agent, corrupt, left>>

Gone == [tool |-> "none", next |-> Nil, state |-> "freed"]
Idle == [pc |-> "idle", tool |-> "none", at |-> Nil, prev |-> Nil]

\* Init is the application in app_tools_register, with its first tool registered.
Init ==
    /\ head = 1 /\ overlapped = FALSE
    /\ \E tool \in Tools :
        /\ registered = {tool}
        /\ node = [n \in Nodes |-> [tool |-> IF n = head THEN tool ELSE "none", next |-> Nil,
                                    state |-> IF n = head THEN "live" ELSE "new"]]
    /\ app = [t \in AppTasks |-> Idle]
    /\ asked = [r \in Requests |-> "none"] /\ status = [r \in Requests |-> "none"]
    /\ walk = Nil /\ absent = FALSE
    /\ sendQ = 0 /\ started = TRUE /\ agent = "up"
    /\ corrupt = FALSE /\ left = Budget

Spend(what) == left[what] > 0 /\ left' = [left EXCEPT ![what] = @ - 1]

Freed(n)    == node[n].state = "freed"
Corrupted   == corrupt' = TRUE
Become(r, s) == status' = [status EXCEPT ![r] = s]

-----------------------------------------------------------------------------
(* The application's calls *)

At(t, pc)   == app[t].pc = pc /\ agent = "up"
Goes(t, a)  == app' = [app EXCEPT ![t] = a]
Returns(t)  == Goes(t, Idle)

\* esp_agent_register_local_tool and _unregister_local_tool.
Call(t, pc, tool) ==
    /\ At(t, "idle") /\ Spend("calls")
    /\ Goes(t, [pc |-> pc, tool |-> tool, at |-> head, prev |-> Nil])
    /\ overlapped' = (overlapped \/ \E u \in AppTasks : app[u] # Idle)
    /\ UNCHANGED <<head, node, registered, calls, walk, absent, reply, agent, corrupt>>

\* Either call looks for the tool, node by node.
Search(t, pc) ==
    /\ At(t, pc) /\ app[t].at # Nil
    /\ LET n == app[t].at IN
         \/ Freed(n) /\ Corrupted /\ UNCHANGED app
         \/ /\ ~Freed(n) /\ node[n].tool # app[t].tool
            /\ Goes(t, [app[t] EXCEPT !.at = node[n].next, !.prev = n])
            /\ UNCHANGED corrupt
    /\ UNCHANGED <<list, calls, walk, absent, reply, agent, left>>

Finds(t, pc) ==
    /\ At(t, pc) /\ app[t].at # Nil
    /\ ~Freed(app[t].at) /\ node[app[t].at].tool = app[t].tool

\* The tool to register is there already, the one to unregister is not, or no
\* node can be allocated.
CallFails(t) ==
    /\ \/ Finds(t, "register")
       \/ At(t, "unregister") /\ app[t].at = Nil
       \/ At(t, "register") /\ app[t].at = Nil
    /\ Returns(t)
    /\ UNCHANGED <<list, calls, walk, absent, reply, agent, corrupt, left>>

\* A new node gets the present head of the list as its next.
Link(t) ==
    /\ At(t, "register") /\ app[t].at = Nil
    /\ \E n \in Nodes :
        /\ node[n].state = "new" /\ \A m \in Nodes : m < n => node[m].state # "new"
        /\ node' = [node EXCEPT ![n] = [tool |-> app[t].tool, next |-> head, state |-> "live"]]
        /\ Goes(t, [app[t] EXCEPT !.pc = "publish", !.at = n, !.prev = Nil])
    /\ UNCHANGED <<head, registered, overlapped, calls, walk, absent, reply, agent, corrupt, left>>

\* Faulty variant of Publish: the node is put in front before it has its next.
PublishUnlinked(t) ==
    /\ At(t, "publish")
    /\ head' = app[t].at
    /\ node' = [node EXCEPT ![app[t].at].next = Nil]
    /\ registered' = registered \cup {app[t].tool}
    /\ Returns(t)
    /\ UNCHANGED <<overlapped, calls, walk, absent, reply, agent, corrupt, left>>

\* The node becomes the head, whatever the head is by now.
Publish(t) ==
    /\ At(t, "publish")
    /\ head' = app[t].at
    /\ registered' = registered \cup {app[t].tool}
    /\ Returns(t)
    /\ UNCHANGED <<node, overlapped, calls, walk, absent, reply, agent, corrupt, left>>

\* The node found is taken out of the list.
Unlink(t) ==
    /\ Finds(t, "unregister")
    /\ LET n == app[t].at  p == app[t].prev IN
         \/ p = Nil /\ head' = node[n].next /\ UNCHANGED <<node, corrupt>>
         \/ p # Nil /\ ~Freed(p) /\ node' = [node EXCEPT ![p].next = node[n].next] /\ UNCHANGED <<head, corrupt>>
         \/ p # Nil /\ Freed(p) /\ Corrupted /\ UNCHANGED <<head, node>>
    /\ registered' = registered \ {app[t].tool}
    /\ absent' = (absent \/ \E r \in Requests : status[r] = "walking" /\ asked[r] = app[t].tool)
    /\ Goes(t, [app[t] EXCEPT !.pc = "free", !.prev = Nil])
    /\ UNCHANGED <<overlapped, calls, walk, reply, agent, left>>

\* A node that another call has freed meanwhile is freed twice.
Free(t) ==
    /\ At(t, "free")
    /\ corrupt' = Freed(app[t].at)
    /\ node' = [node EXCEPT ![app[t].at] = Gone]
    /\ Returns(t)
    /\ UNCHANGED <<head, registered, overlapped, calls, walk, absent, reply, agent, left>>

\* esp_agent_deinit, of an application that makes no other call: the session and
\* the agent's tasks end, the message task where it stands if it takes too long.
DeinitStop ==
    /\ agent = "up" /\ Spend("calls")
    /\ \A t \in AppTasks : app[t] = Idle
    /\ agent' = "stopped" /\ started' = FALSE
    /\ UNCHANGED <<list, app, calls, walk, absent, sendQ, corrupt>>

\* The queues, the list and the agent are freed, whoever waits on them.
DeinitFree ==
    /\ agent = "stopped" /\ agent' = "freed"
    /\ corrupt' = \E r \in Requests : status[r] = "pushing" /\ sendQ = SendQueueSize
    /\ node' = [n \in Nodes |-> IF node[n].state = "live" THEN Gone ELSE node[n]]
    /\ head' = Nil /\ sendQ' = 0
    /\ UNCHANGED <<registered, overlapped, app, calls, walk, absent, started, left>>

-----------------------------------------------------------------------------
(* The message task: one request after the other *)

ServerRequests ==
    /\ started
    /\ \E r \in Requests, tool \in Tools :
        /\ status[r] = "none" /\ \A q \in Requests : q < r => status[q] # "none"
        /\ Become(r, "queued") /\ asked' = [asked EXCEPT ![r] = tool]
    /\ UNCHANGED <<list, app, walk, absent, reply, agent, corrupt, left>>

Walking(r) == agent = "up" /\ status[r] = "walking"

\* esp_agent_message_tool_request_handler: a malformed request is given up.
MessageTask(r) ==
    /\ agent = "up" /\ status[r] = "queued"
    /\ \A q \in Requests : status[q] # "walking" /\ (q < r => status[q] # "queued")
    /\ \/ Become(r, "malformed") /\ UNCHANGED <<walk, absent>>
       \/ Become(r, "walking") /\ walk' = head /\ absent' = (asked[r] \notin registered)
    /\ UNCHANGED <<list, app, asked, reply, agent, corrupt, left>>

\* esp_agent_execute_tool: the tool is found; the result of xTaskCreate is not
\* looked at.
WalkFinds(r) ==
    /\ Walking(r) /\ walk # Nil /\ ~Freed(walk) /\ node[walk].tool = asked[r]
    /\ Become(r, "running") \/ Become(r, "taskless")
    /\ walk' = Nil /\ absent' = FALSE
    /\ UNCHANGED <<list, app, asked, reply, agent, corrupt, left>>

WalkNext(r) ==
    /\ Walking(r) /\ walk # Nil
    /\ \/ Freed(walk) /\ Corrupted /\ UNCHANGED walk
       \/ ~Freed(walk) /\ node[walk].tool # asked[r] /\ walk' = node[walk].next /\ UNCHANGED corrupt
    /\ UNCHANGED <<list, app, calls, absent, reply, agent, left>>

WalkEnds(r) ==
    /\ Walking(r) /\ walk = Nil
    /\ Become(r, "unknown") /\ absent' = FALSE
    /\ UNCHANGED <<list, app, asked, walk, reply, agent, corrupt, left>>

-----------------------------------------------------------------------------
(* execute_tool_task, and the send task *)

\* Whatever the tool task does with its handle of a freed agent.
UsesAgent(r) ==
    /\ agent = "freed" /\ status[r] \in {"running", "replying", "pushing"} /\ Corrupted
    /\ UNCHANGED <<list, app, calls, walk, absent, reply, agent, left>>

\* The tool has run; its response may fail to be prepared.
ToolRuns(r) ==
    /\ agent # "freed" /\ status[r] = "running"
    /\ Become(r, "replying") \/ Become(r, "dropped")
    /\ UNCHANGED <<list, app, asked, walk, absent, reply, agent, corrupt, left>>

\* esp_agent_websocket_queue_message refuses while the agent is not started.
ReplyCheck(r) ==
    /\ agent # "freed" /\ status[r] = "replying"
    /\ Become(r, IF started THEN "pushing" ELSE "dropped")
    /\ UNCHANGED <<list, app, asked, walk, absent, reply, agent, corrupt, left>>

\* Faulty variant of ReplyPush: the queue's size is not checked.
ReplyPushUnchecked(r) ==
    /\ agent # "freed" /\ status[r] = "pushing"
    /\ sendQ' = sendQ + 1
    /\ Become(r, "sent")
    /\ UNCHANGED <<list, app, asked, walk, absent, started, agent, corrupt, left>>

\* It waits without a timeout for room, also in a session that ends meanwhile.
ReplyPush(r) ==
    /\ agent # "freed" /\ status[r] = "pushing"
    /\ sendQ < SendQueueSize /\ sendQ' = sendQ + 1
    /\ Become(r, "sent")
    /\ UNCHANGED <<list, app, asked, walk, absent, started, agent, corrupt, left>>

\* Faulty variant of SendTask: what was queued waits for the next session.
SendTaskWhenStarted ==
    /\ agent = "up" /\ started
    /\ sendQ > 0 /\ sendQ' = sendQ - 1
    /\ UNCHANGED <<list, app, calls, walk, absent, started, agent, corrupt, left>>

\* Sent, or dropped without a connection.
SendTask ==
    /\ agent = "up"
    /\ sendQ > 0 /\ sendQ' = sendQ - 1
    /\ UNCHANGED <<list, app, calls, walk, absent, started, agent, corrupt, left>>

\* The session begins, or ends with its link, or is stopped: esp_agent_stop takes
\* what is left out of the send queue.
SessionChanges ==
    /\ agent = "up" /\ Spend("changes")
    /\ started' = ~started
    /\ \/ UNCHANGED sendQ
       \/ started /\ sendQ' = 0
    /\ UNCHANGED <<list, app, calls, walk, absent, agent, corrupt>>

-----------------------------------------------------------------------------
Application(t) ==
    \/ \E tool \in Tools, pc \in {"register", "unregister"} : Call(t, pc, tool)
    \/ Search(t, "register") \/ Search(t, "unregister") \/ CallFails(t)
    \/ Link(t) \/ Publish(t) \/ Unlink(t) \/ Free(t)

Request(r)  == MessageTask(r) \/ WalkFinds(r) \/ WalkNext(r) \/ WalkEnds(r)
ToolTask(r) == UsesAgent(r) \/ ToolRuns(r) \/ ReplyCheck(r) \/ ReplyPush(r)

Next ==
    /\ ~corrupt
    /\ \/ \E t \in AppTasks : Application(t)
       \/ DeinitStop \/ DeinitFree
       \/ ServerRequests \/ SessionChanges \/ SendTask
       \/ \E r \in Requests : Request(r) \/ ToolTask(r)

Spec == Init /\ [][Next]_vars

\* The agent's tasks are scheduled, and tools return.
Fairness ==
    /\ WF_vars(~corrupt /\ SendTask)
    /\ \A r \in Requests : WF_vars(~corrupt /\ Request(r)) /\ WF_vars(~corrupt /\ ToolTask(r))

FairSpec == Spec /\ Fairness

-----------------------------------------------------------------------------
(* Properties *)

Settled == {"malformed", "unknown", "taskless", "sent", "dropped"}

TypeOK ==
    /\ head \in Nodes \cup {Nil} /\ walk \in Nodes \cup {Nil}
    /\ node \in [Nodes -> [tool : Tools \cup {"none"}, next : Nodes \cup {Nil},
                           state : {"new", "live", "freed"}]]
    /\ app \in [AppTasks -> [pc : {"idle", "register", "publish", "unregister", "free"},
                             tool : Tools \cup {"none"}, at : Nodes \cup {Nil}, prev : Nodes \cup {Nil}]]
    /\ registered \subseteq Tools
    /\ asked \in [Requests -> Tools \cup {"none"}]
    /\ status \in [Requests -> Settled \cup {"none", "queued", "walking", "running", "replying", "pushing"}]
    /\ sendQ \in 0 .. SendQueueSize
    /\ started \in BOOLEAN /\ absent \in BOOLEAN /\ overlapped \in BOOLEAN /\ corrupt \in BOOLEAN
    /\ agent \in {"up", "stopped", "freed"} /\ left \in [{"calls", "changes"} -> Nat]

\* esp_agent_tools.h:66, "Registers a local tool handler with the agent": a
\* request finds its tool when that was registered before the walk began and
\* all through it, whatever else is registered and unregistered meanwhile, as
\* long as no two tasks were ever in a call at once.
FindsRegistered ==
    [][\A r \in Requests : status[r] = "walking" /\ status'[r] = "unknown" => absent \/ overlapped]_vars

\* Every request is settled: its response is queued, or the request is given up
\* for one of the code's reasons; a full send queue, a session that ends while a
\* tool runs and a response that waits for room hold none of them up for good.
RequestsSettle ==
    []<>(agent # "up" \/ corrupt \/ \A r \in Requests : status[r] \in Settled \cup {"none"})

-----------------------------------------------------------------------------
(* What the documentation says and the code does not do *)

\* esp_agent_tools.h:76, "This unregisters the local tool for the agent", and
\* esp_agent_core.h:78, "free the internal variables": what is freed is not used.
NothingFreedIsUsed == ~corrupt

\* esp_agent_tools.h:66, "Registers a local tool handler with the agent": the
\* same, also when two tasks register at once.
FindsWhatAnyRegistered ==
    [][\A r \in Requests : status[r] = "walking" /\ status'[r] = "unknown" => absent]_vars

=============================================================================
