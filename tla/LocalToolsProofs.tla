-------------------------- MODULE LocalToolsProofs --------------------------
(***************************************************************************)
(* Proofs about LocalTools, for any number of tools, tasks, nodes and      *)
(* requests: the types, and that a request finds its tool although the     *)
(* list changes under the walk, as long as the application's calls do not  *)
(* overlap.  Nodes are numbered in the order of their allocation, so that  *)
(* the list, new nodes first, runs through falling numbers.                *)
(***************************************************************************)
EXTENDS LocalTools, TLAPS

USE CountAssumption, BudgetAssumption DEF CountAssumption, BudgetAssumption, Nodes, Requests, Nil

\* The nodes of the list: those that are neither on their way in nor out.
Listed ==
    {n \in Nodes : /\ node[n].state = "live"
                   /\ \A t \in AppTasks : app[t].pc \in {"publish", "free"} => app[t].at # n}

\* The list goes on at m below n.
GoesOn(n, m) == m \in Listed \cup {Nil} /\ m < n /\ \A k \in Listed : k < n => k <= m

\* What holds of any number of calls at once.
CallInv ==
    /\ \A t \in AppTasks : app[t].pc # "idle" => app[t].tool \in Tools
    /\ overlapped \/ \A t, u \in AppTasks : app[t].pc # "idle" /\ app[u].pc # "idle" => t = u
    /\ \A q, r \in Requests : status[q] = "walking" /\ status[r] = "walking" => q = r

\* Nodes are allocated in their order; the list runs from its newest node through
\* all the others, and holds each registered tool once.
Chained ==
    /\ \A m, n \in Nodes : m < n /\ node[m].state = "new" => node[n].state = "new"
    /\ head \in Listed \cup {Nil} /\ \A k \in Listed : k <= head
    /\ \A n \in Nodes : node[n].state = "live" => GoesOn(n, node[n].next)
    /\ \A tool \in registered : \E n \in Listed : node[n].tool = tool
    /\ \A n \in Listed : node[n].tool \in registered
    /\ \A m, n \in Listed : node[m].tool = node[n].tool => m = n

\* A call has searched the nodes down to the one it is at, or holds a node of
\* its own, which is still to be published or freed.
Searching(t) ==
    /\ app[t].at \in Listed \cup {Nil}
    /\ \A n \in Listed : n > app[t].at => node[n].tool # app[t].tool
    /\ IF app[t].prev = Nil THEN app[t].at = head ELSE app[t].prev \in Listed /\ node[app[t].prev].next = app[t].at

Publishing(t) ==
    /\ app[t].at \in Nodes /\ node[app[t].at].state = "live"
    /\ node[app[t].at].tool = app[t].tool /\ node[app[t].at].next = head
    /\ \A n \in Listed : n < app[t].at /\ node[n].tool # app[t].tool

Freeing(t) == app[t].at \in Nodes /\ node[app[t].at].state = "live"

CallsInv ==
    \A t \in AppTasks :
        /\ app[t].pc \in {"register", "unregister"} => Searching(t)
        /\ app[t].pc = "publish" => Publishing(t)
        /\ app[t].pc = "free" => Freeing(t)

\* The tool a request looks for is still ahead of the walk, which may stand on
\* a node that is no longer listed.
WalkInv ==
    \A r \in Requests : status[r] = "walking" =>
        /\ walk # Nil => node[walk].state # "new"
        /\ absent \/ \E n \in Listed : n <= walk /\ node[n].tool = asked[r]

ListInv == agent = "up" /\ ~corrupt /\ ~overlapped => Chained /\ CallsInv /\ WalkInv

IInv == TypeOK /\ CallInv /\ ListInv

-----------------------------------------------------------------------------
(* The steps, component by component *)

Places   == [pc : {"idle", "register", "publish", "unregister", "free"}, tool : Tools \cup {"none"},
             at : Nodes \cup {Nil}, prev : Nodes \cup {Nil}]
Cells    == [tool : Tools \cup {"none"}, next : Nodes \cup {Nil}, state : {"new", "live", "freed"}]
Statuses == Settled \cup {"none", "queued", "walking", "running", "replying", "pushing"}

LEMMA Typed ==
    ASSUME TypeOK
    PROVE  /\ node \in [Nodes -> Cells] /\ app \in [AppTasks -> Places] /\ status \in [Requests -> Statuses]
           /\ \A n \in Nodes : /\ node[n].tool \in Tools \cup {"none"} /\ node[n].next \in Nodes \cup {Nil}
                               /\ node[n].state \in {"new", "live", "freed"}
           /\ \A t \in AppTasks : /\ app[t].pc \in {"idle", "register", "publish", "unregister", "free"}
                                  /\ app[t].tool \in Tools \cup {"none"}
                                  /\ app[t].at \in Nodes \cup {Nil} /\ app[t].prev \in Nodes \cup {Nil}
  BY DEF TypeOK, Cells, Places, Statuses

\* A task of the application goes on to a.
LEMMA GoesTyped ==
    ASSUME TypeOK, NEW t \in AppTasks, NEW a \in Places, Goes(t, a)
    PROVE  app' \in [AppTasks -> Places] /\ app'[t] = a /\ \A u \in AppTasks \ {t} : app'[u] = app[u]
  BY Typed DEF Goes

LEMMA IdleTyped == Idle \in Places /\ Idle.pc = "idle"
  BY DEF Idle, Places

\* A node is written.
LEMMA NodeTyped ==
    ASSUME TypeOK, NEW n \in Nodes, NEW new \in Cells, node' = [node EXCEPT ![n] = new]
    PROVE  node' \in [Nodes -> Cells] /\ node'[n] = new /\ \A m \in Nodes \ {n} : node'[m] = node[m]
  BY Typed

\* A request gets on.
LEMMA StatusTyped ==
    ASSUME TypeOK, NEW r \in Requests, NEW s \in Statuses, Become(r, s)
    PROVE  status' \in [Requests -> Statuses] /\ status'[r] = s /\ \A q \in Requests \ {r} : status'[q] = status[q]
  BY Typed DEF Become

LEMMA SpendTyped ==
    ASSUME TypeOK, NEW what \in {"calls", "changes"}, Spend(what)
    PROVE  left' \in [{"calls", "changes"} -> Nat]
  BY DEF TypeOK, Spend

LEMMA CallStep ==
    ASSUME TypeOK, NEW t \in AppTasks, NEW pc \in {"register", "unregister"}, NEW tool \in Tools, Call(t, pc, tool)
    PROVE  /\ app' \in [AppTasks -> Places] /\ \A u \in AppTasks \ {t} : app'[u] = app[u]
           /\ app'[t].pc = pc /\ app'[t].tool = tool /\ app'[t].at = head /\ app'[t].prev = Nil
           /\ left' \in [{"calls", "changes"} -> Nat]
<1>1. [pc |-> pc, tool |-> tool, at |-> head, prev |-> Nil] \in Places
  BY DEF TypeOK, Places
<1> QED
  BY <1>1, GoesTyped, SpendTyped DEF Call

LEMMA SearchStep ==
    ASSUME TypeOK, NEW t \in AppTasks, NEW pc, Search(t, pc)
    PROVE  /\ app' \in [AppTasks -> Places] /\ \A u \in AppTasks \ {t} : app'[u] = app[u]
           /\ app'[t].pc = app[t].pc /\ app'[t].tool = app[t].tool
           /\ ~corrupt' /\ ~corrupt =>
                /\ node[app[t].at].state # "freed" /\ node[app[t].at].tool # app[t].tool
                /\ app'[t].at = node[app[t].at].next /\ app'[t].prev = app[t].at
<1> DEFINE n == app[t].at
<1>1. n \in Nodes
  BY Typed DEF Search
<1>2. CASE Freed(n) /\ Corrupted /\ UNCHANGED app
  BY <1>2, Typed DEF Corrupted
<1>3. CASE ~Freed(n) /\ node[n].tool # app[t].tool /\ Goes(t, [app[t] EXCEPT !.at = node[n].next, !.prev = n])
  <2> DEFINE a == [app[t] EXCEPT !.at = node[n].next, !.prev = n]
  <2>1. a \in Places /\ a.pc = app[t].pc /\ a.tool = app[t].tool /\ a.at = node[n].next /\ a.prev = n
    BY <1>1, Typed DEF Places
  <2> HIDE DEF a
  <2>2. app' \in [AppTasks -> Places] /\ app'[t] = a /\ \A u \in AppTasks \ {t} : app'[u] = app[u]
    BY <1>3, <2>1, GoesTyped DEF a
  <2> QED
    BY <1>3, <2>1, <2>2 DEF Freed
<1> QED
  BY <1>2, <1>3 DEF Search

\* The call returns.
LEMMA ReturnStep ==
    ASSUME TypeOK, NEW t \in AppTasks, Returns(t)
    PROVE  app' \in [AppTasks -> Places] /\ app'[t].pc = "idle" /\ \A u \in AppTasks \ {t} : app'[u] = app[u]
  BY GoesTyped, IdleTyped DEF Returns

LEMMA LinkStep ==
    ASSUME TypeOK, NEW t \in AppTasks, app[t].pc = "register", Link(t)
    PROVE  /\ app' \in [AppTasks -> Places] /\ \A u \in AppTasks \ {t} : app'[u] = app[u]
           /\ node' \in [Nodes -> Cells]
           /\ \E n \in Nodes :
                /\ node[n].state = "new" /\ \A m \in Nodes : m < n => node[m].state # "new"
                /\ app'[t].pc = "publish" /\ app'[t].tool = app[t].tool /\ app'[t].at = n /\ app'[t].prev = Nil
                /\ node'[n].tool = app[t].tool /\ node'[n].next = head /\ node'[n].state = "live"
                /\ \A m \in Nodes \ {n} : node'[m] = node[m]
<1>1. PICK n \in Nodes :
        /\ node[n].state = "new" /\ \A m \in Nodes : m < n => node[m].state # "new"
        /\ node' = [node EXCEPT ![n] = [tool |-> app[t].tool, next |-> head, state |-> "live"]]
        /\ Goes(t, [app[t] EXCEPT !.pc = "publish", !.at = n, !.prev = Nil])
  BY DEF Link
<1> DEFINE a == [app[t] EXCEPT !.pc = "publish", !.at = n, !.prev = Nil]
           c == [tool |-> app[t].tool, next |-> head, state |-> "live"]
<1>2. a \in Places /\ a.pc = "publish" /\ a.tool = app[t].tool /\ a.at = n /\ a.prev = Nil
  BY Typed DEF Places
<1>3. c \in Cells /\ c.tool = app[t].tool /\ c.next = head /\ c.state = "live"
  BY Typed DEF Cells, TypeOK
<1> HIDE DEF a, c
<1>4. app' \in [AppTasks -> Places] /\ app'[t] = a /\ \A u \in AppTasks \ {t} : app'[u] = app[u]
  BY <1>1, <1>2, GoesTyped DEF a
<1>5. node' \in [Nodes -> Cells] /\ node'[n] = c /\ \A m \in Nodes \ {n} : node'[m] = node[m]
  BY <1>1, <1>3, NodeTyped DEF c
<1> QED
  BY <1>1, <1>2, <1>3, <1>4, <1>5

LEMMA UnlinkStep ==
    ASSUME TypeOK, NEW t \in AppTasks, Unlink(t)
    PROVE  /\ app' \in [AppTasks -> Places] /\ \A u \in AppTasks \ {t} : app'[u] = app[u]
           /\ app'[t].pc = "free" /\ app'[t].tool = app[t].tool /\ app'[t].at = app[t].at /\ app'[t].prev = Nil
           /\ app[t].at \in Nodes /\ node[app[t].at].state # "freed" /\ node[app[t].at].tool = app[t].tool
           /\ node' \in [Nodes -> Cells] /\ head' \in Nodes \cup {Nil}
           /\ \A m \in Nodes : node'[m].state = node[m].state
           /\ ~corrupt' =>
                \/ app[t].prev = Nil /\ head' = node[app[t].at].next /\ node' = node
                \/ /\ app[t].prev \in Nodes /\ head' = head
                   /\ node'[app[t].prev].next = node[app[t].at].next
                   /\ node'[app[t].prev].tool = node[app[t].prev].tool
                   /\ node'[app[t].prev].state = node[app[t].prev].state
                   /\ \A m \in Nodes \ {app[t].prev} : node'[m] = node[m]
<1> DEFINE n == app[t].at
           p == app[t].prev
           a == [app[t] EXCEPT !.pc = "free", !.prev = Nil]
<1>1. n \in Nodes /\ node[n].state # "freed" /\ node[n].tool = app[t].tool
  BY Typed DEF Unlink, Finds, Freed
<1>2. a \in Places /\ a.pc = "free" /\ a.tool = app[t].tool /\ a.at = n /\ a.prev = Nil
  BY Typed DEF Places
<1> HIDE DEF a
<1>3. app' \in [AppTasks -> Places] /\ app'[t] = a /\ \A u \in AppTasks \ {t} : app'[u] = app[u]
  BY <1>2, GoesTyped DEF a, Unlink
<1>4. CASE p = Nil /\ head' = node[n].next /\ node' = node
  BY <1>1, <1>2, <1>3, <1>4, Typed
<1>5. CASE p # Nil /\ node' = [node EXCEPT ![p].next = node[n].next] /\ head' = head
  <2> DEFINE c == [node[p] EXCEPT !.next = node[n].next]
  <2>1. p \in Nodes
    BY <1>5, Typed
  <2>2. c \in Cells /\ c.next = node[n].next /\ c.tool = node[p].tool /\ c.state = node[p].state
    BY <1>1, <2>1, Typed DEF Cells
  <2>3. node' = [node EXCEPT ![p] = c]
    BY <1>5
  <2> HIDE DEF c
  <2>4. node' \in [Nodes -> Cells] /\ node'[p] = c /\ \A m \in Nodes \ {p} : node'[m] = node[m]
    BY <2>1, <2>2, <2>3, NodeTyped
  <2> QED
    BY <1>1, <1>2, <1>3, <1>5, <2>1, <2>2, <2>4 DEF TypeOK
<1>6. CASE p # Nil /\ Corrupted /\ UNCHANGED <<head, node>>
  BY <1>1, <1>2, <1>3, <1>6, Typed DEF Corrupted, TypeOK
<1> QED
  BY <1>4, <1>5, <1>6 DEF Unlink

LEMMA FreeStep ==
    ASSUME TypeOK, NEW t \in AppTasks, Free(t)
    PROVE  /\ app' \in [AppTasks -> Places] /\ app'[t].pc = "idle" /\ \A u \in AppTasks \ {t} : app'[u] = app[u]
           /\ node' \in [Nodes -> Cells]
           /\ \A m \in Nodes \ {app[t].at} : node'[m] = node[m]
           /\ app[t].at \in Nodes => node'[app[t].at].state = "freed"
<1>1. app' \in [AppTasks -> Places] /\ app'[t].pc = "idle" /\ \A u \in AppTasks \ {t} : app'[u] = app[u]
  BY ReturnStep DEF Free
<1>2. node' = [node EXCEPT ![app[t].at] = Gone] /\ Gone \in Cells /\ Gone.state = "freed"
  BY DEF Free, Gone, Cells
<1>3. CASE app[t].at \in Nodes
  BY <1>1, <1>2, <1>3, NodeTyped
<1>4. CASE app[t].at \notin Nodes
  <2>1. node' = node
    BY <1>2, <1>4, Typed
  <2> QED
    BY <1>1, <1>4, <2>1, Typed
<1> QED
  BY <1>3, <1>4

-----------------------------------------------------------------------------
(* The types *)

LEMMA ApplicationTyped ==
    ASSUME TypeOK, CallInv, NEW t \in AppTasks, Application(t)
    PROVE  TypeOK'
<1> USE DEF TypeOK, list, calls, reply, Places, Cells
<1>1. ASSUME NEW tool \in Tools, NEW pc \in {"register", "unregister"}, Call(t, pc, tool) PROVE TypeOK'
  <2>1. overlapped' \in BOOLEAN
    BY <1>1 DEF Call
  <2> QED
    BY <1>1, <2>1, CallStep DEF Call
<1>2. ASSUME NEW pc, Search(t, pc) PROVE TypeOK'
  BY <1>2, SearchStep DEF Search, Corrupted
<1>3. CASE CallFails(t)
  BY <1>3, ReturnStep DEF CallFails
<1>4. CASE Link(t)
  BY <1>4, LinkStep DEF Link, At
<1>5. CASE Publish(t)
  <2>1. app[t].tool \in Tools
    BY <1>5 DEF Publish, At, CallInv
  <2> QED
    BY <1>5, <2>1, ReturnStep DEF Publish
<1>6. CASE Unlink(t)
  <2>1. absent' \in BOOLEAN /\ corrupt' \in BOOLEAN
    BY <1>6 DEF Unlink, Corrupted
  <2> QED
    BY <1>6, <2>1, UnlinkStep DEF Unlink
<1>7. CASE Free(t)
  <2>1. corrupt' \in BOOLEAN
    BY <1>7 DEF Free, Freed
  <2> QED
    BY <1>7, <2>1, FreeStep DEF Free
<1> QED
  BY <1>1, <1>2, <1>3, <1>4, <1>5, <1>6, <1>7 DEF Application

LEMMA RequestTyped ==
    ASSUME TypeOK, NEW r \in Requests, Request(r) \/ ToolTask(r)
    PROVE  TypeOK'
<1> USE DEF TypeOK, list, calls, reply
<1>1. Settled = {"malformed", "unknown", "taskless", "sent", "dropped"}
  BY DEF Settled
<1>2. status' \in [Requests -> Statuses]
  <2>1. UNCHANGED status \/ \E s \in Statuses : Become(r, s)
    BY <1>1 DEF Request, ToolTask, MessageTask, WalkFinds, WalkNext, WalkEnds, UsesAgent, ToolRuns, ReplyCheck,
                ReplyPush, Statuses
  <2> QED
    BY <2>1, Typed, StatusTyped
<1>3. walk' \in Nodes \cup {Nil}
  <2>1. walk # Nil => node[walk].next \in Nodes \cup {Nil}
    BY Typed
  <2> QED
    BY <2>1 DEF Request, ToolTask, MessageTask, WalkFinds, WalkNext, WalkEnds, UsesAgent, ToolRuns, ReplyCheck,
                ReplyPush
<1>4. absent' \in BOOLEAN /\ corrupt' \in BOOLEAN
  BY DEF Request, ToolTask, MessageTask, WalkFinds, WalkNext, WalkEnds, UsesAgent, ToolRuns, ReplyCheck, ReplyPush,
         Corrupted
<1>5. sendQ' \in 0 .. SendQueueSize
  BY DEF Request, ToolTask, MessageTask, WalkFinds, WalkNext, WalkEnds, UsesAgent, ToolRuns, ReplyCheck, ReplyPush
<1>6. UNCHANGED <<list, app, asked, started, agent, left>>
  BY DEF Request, ToolTask, MessageTask, WalkFinds, WalkNext, WalkEnds, UsesAgent, ToolRuns, ReplyCheck, ReplyPush
<1> QED
  BY <1>2, <1>3, <1>4, <1>5, <1>6 DEF Statuses

LEMMA OthersTyped ==
    ASSUME TypeOK, DeinitStop \/ DeinitFree \/ ServerRequests \/ SessionChanges \/ SendTask
    PROVE  TypeOK'
<1> USE DEF TypeOK, list, calls, reply
<1>1. CASE DeinitStop
  BY <1>1, SpendTyped DEF DeinitStop
<1>2. CASE DeinitFree
  <2>1. corrupt' \in BOOLEAN
    BY <1>2 DEF DeinitFree
  <2>2. node' \in [Nodes -> Cells]
    <3>1. Gone \in Cells
      BY DEF Gone, Cells
    <3> QED
      BY <1>2, <3>1, Typed DEF DeinitFree
  <2> QED
    BY <1>2, <2>1, <2>2 DEF DeinitFree, Cells
<1>3. CASE ServerRequests
  <2>1. PICK r \in Requests, tool \in Tools : Become(r, "queued") /\ asked' = [asked EXCEPT ![r] = tool]
    BY <1>3 DEF ServerRequests
  <2>2. status' \in [Requests -> Statuses] /\ asked' \in [Requests -> Tools \cup {"none"}]
    BY <2>1, StatusTyped DEF Statuses
  <2> QED
    BY <1>3, <2>2 DEF ServerRequests, Statuses
<1>4. CASE SessionChanges
  <2>1. started' \in BOOLEAN
    BY <1>4 DEF SessionChanges
  <2> QED
    BY <1>4, <2>1, SpendTyped DEF SessionChanges
<1>5. CASE SendTask
  <2>1. sendQ' \in 0 .. SendQueueSize
    BY <1>5 DEF SendTask
  <2> QED
    BY <1>5, <2>1 DEF SendTask
<1> QED
  BY <1>1, <1>2, <1>3, <1>4, <1>5

LEMMA TypeStep ==
    ASSUME TypeOK, CallInv, Next
    PROVE  TypeOK'
  BY ApplicationTyped, RequestTyped, OthersTyped DEF Next

-----------------------------------------------------------------------------
(* The invariant *)

LEMMA OnlyOneGoes ==
    ASSUME TypeOK, NEW t \in AppTasks, Application(t)
    PROVE  \A u \in AppTasks \ {t} : app'[u] = app[u]
<1>1. ASSUME NEW tool \in Tools, NEW pc \in {"register", "unregister"}, Call(t, pc, tool)
      PROVE  \A u \in AppTasks \ {t} : app'[u] = app[u]
  BY <1>1, CallStep
<1>2. ASSUME NEW pc, Search(t, pc) PROVE \A u \in AppTasks \ {t} : app'[u] = app[u]
  BY <1>2, SearchStep
<1>3. CASE CallFails(t) \/ Publish(t)
  BY <1>3, ReturnStep DEF CallFails, Publish
<1>4. CASE Link(t)
  BY <1>4, LinkStep DEF Link, At
<1>5. CASE Unlink(t)
  BY <1>5, UnlinkStep
<1>6. CASE Free(t)
  BY <1>6, FreeStep
<1> QED
  BY <1>1, <1>2, <1>3, <1>4, <1>5, <1>6 DEF Application

LEMMA ApplicationCalls ==
    ASSUME TypeOK, CallInv, NEW t \in AppTasks, Application(t)
    PROVE  CallInv'
<1>1. UNCHANGED status
  BY DEF Application, Call, Search, CallFails, Link, Publish, Unlink, Free, calls
<1>2. \A u \in AppTasks \ {t} : app'[u] = app[u]
  BY OnlyOneGoes
<1>3. app'[t].pc # "idle" => app'[t].tool \in Tools
  <2>1. ASSUME NEW tool \in Tools, NEW pc \in {"register", "unregister"}, Call(t, pc, tool) PROVE app'[t].tool \in Tools
    BY <2>1, CallStep
  <2>2. ASSUME NEW pc \in {"register", "unregister"}, Search(t, pc) PROVE app'[t].tool \in Tools
    BY <2>2, SearchStep DEF Search, At, CallInv
  <2>3. Link(t) \/ Unlink(t) => app'[t].tool \in Tools
    BY LinkStep, UnlinkStep DEF Link, Unlink, Finds, At, CallInv
  <2>4. CallFails(t) \/ Publish(t) \/ Free(t) => app'[t].pc = "idle"
    BY ReturnStep DEF CallFails, Publish, Free
  <2> QED
    BY <2>1, <2>2, <2>3, <2>4 DEF Application
<1>4. overlapped' \/ \A u, v \in AppTasks : app'[u].pc # "idle" /\ app'[v].pc # "idle" => u = v
  <2>1. CASE \E tool \in Tools, pc \in {"register", "unregister"} : Call(t, pc, tool)
    BY <1>2, <2>1, IdleTyped DEF Call
  <2>2. CASE ~\E tool \in Tools, pc \in {"register", "unregister"} : Call(t, pc, tool)
    <3>1. app[t].pc # "idle" /\ overlapped' = overlapped
      BY <2>2 DEF Application, Search, CallFails, Finds, Link, Publish, Unlink, Free, At, list
    <3> QED
      BY <1>2, <3>1 DEF CallInv
  <2> QED
    BY <2>1, <2>2
<1> QED
  BY <1>1, <1>2, <1>3, <1>4 DEF CallInv

\* The message task walks for one request at a time.
LEMMA OneWalks ==
    ASSUME TypeOK, CallInv, NEW r \in Requests, Request(r) \/ ToolTask(r)
    PROVE  CallInv'
<1>1. UNCHANGED <<app, overlapped>>
  BY DEF Request, ToolTask, MessageTask, WalkFinds, WalkNext, WalkEnds, UsesAgent, ToolRuns, ReplyCheck, ReplyPush, list
<1>2. \A p, q \in Requests : status'[p] = "walking" /\ status'[q] = "walking" => p = q
  <2>1. CASE MessageTask(r)
    <3>1. \A q \in Requests : status[q] # "walking"
      BY <2>1 DEF MessageTask
    <3>2. \E s \in Statuses : Become(r, s)
      BY <2>1 DEF MessageTask, Statuses, Settled
    <3>3. \A q \in Requests \ {r} : status'[q] = status[q]
      BY <3>2, StatusTyped
    <3> QED
      BY <3>1, <3>3
  <2>2. ASSUME NEW s \in Statuses, Become(r, s), s # "walking"
        PROVE  \A q \in Requests : status'[q] = "walking" => status[q] = "walking"
    BY <2>2, StatusTyped
  <2>3. CASE ~MessageTask(r)
    <3>1. UNCHANGED status \/ \E s \in Statuses \ {"walking"} : Become(r, s)
      BY <2>3 DEF Request, ToolTask, WalkFinds, WalkNext, WalkEnds, UsesAgent, ToolRuns, ReplyCheck, ReplyPush, calls,
                  Statuses, Settled
    <3> QED
      BY <2>2, <3>1 DEF CallInv
  <2> QED
    BY <2>1, <2>3
<1> QED
  BY <1>1, <1>2 DEF CallInv

LEMMA OthersCalls ==
    ASSUME TypeOK, CallInv, DeinitStop \/ DeinitFree \/ ServerRequests \/ SessionChanges \/ SendTask
    PROVE  CallInv'
<1>1. UNCHANGED <<app, overlapped>>
  BY DEF DeinitStop, DeinitFree, ServerRequests, SessionChanges, SendTask, list
<1>2. \A q \in Requests : status'[q] = "walking" => status[q] = "walking"
  <2>1. CASE ServerRequests
    <3>1. PICK r \in Requests : Become(r, "queued")
      BY <2>1 DEF ServerRequests
    <3> QED
      BY <3>1, StatusTyped DEF Statuses
  <2>2. CASE ~ServerRequests
    BY <2>2 DEF DeinitStop, DeinitFree, SessionChanges, SendTask, calls
  <2> QED
    BY <2>1, <2>2
<1> QED
  BY <1>1, <1>2 DEF CallInv

LEMMA CallInvStep ==
    ASSUME TypeOK, CallInv, [Next]_vars
    PROVE  TypeOK' /\ CallInv'
<1>1. CASE Next
  BY <1>1, TypeStep, ApplicationCalls, OneWalks, OthersCalls DEF Next
<1>2. CASE UNCHANGED vars
  BY <1>2 DEF vars, list, calls, reply, TypeOK, CallInv
<1> QED
  BY <1>1, <1>2

LEMMA IInvInit == Init => IInv
<1> SUFFICES ASSUME Init PROVE IInv
  OBVIOUS
<1>1. PICK tool \in Tools :
        /\ registered = {tool}
        /\ node = [n \in Nodes |-> [tool |-> IF n = head THEN tool ELSE "none", next |-> Nil,
                                    state |-> IF n = head THEN "live" ELSE "new"]]
  BY DEF Init
<1>2. TypeOK
  <2>1. node \in [Nodes -> Cells]
    BY <1>1 DEF Cells
  <2>2. Idle \in Places /\ app \in [AppTasks -> Places]
    BY IdleTyped DEF Init
  <2>3. /\ status \in [Requests -> Settled \cup {"none", "queued", "walking", "running", "replying", "pushing"}]
        /\ asked \in [Requests -> Tools \cup {"none"}]
    BY DEF Init
  <2>4. sendQ \in 0 .. SendQueueSize /\ left \in [{"calls", "changes"} -> Nat] /\ head \in Nodes
    BY DEF Init
  <2>5. agent \in {"up", "stopped", "freed"} /\ registered \subseteq Tools
    BY <1>1 DEF Init
  <2> QED
    BY <2>1, <2>2, <2>3, <2>4, <2>5 DEF Init, TypeOK, Cells, Places
<1>3. \A t \in AppTasks : app[t].pc = "idle"
  BY DEF Init, Idle
<1>4. CallInv
  BY <1>3 DEF Init, CallInv
<1>5. head = 1 /\ 1 \in Nodes
  BY DEF Init
<1>6. \A n \in Nodes : node[n].next = Nil /\ (n = 1 => node[n].tool = tool /\ node[n].state = "live")
                       /\ (n # 1 => node[n].state = "new")
  BY <1>1, <1>5
<1>7. Listed = {1}
  BY <1>3, <1>5, <1>6 DEF Listed
<1>8. Chained
  BY <1>1, <1>5, <1>6, <1>7 DEF Chained, GoesOn
<1>9. CallsInv /\ WalkInv
  BY <1>3 DEF Init, CallsInv, WalkInv
<1> QED
  BY <1>2, <1>4, <1>8, <1>9 DEF IInv, ListInv

\* Every variable keeps to its type, whatever the calls and the freeing of nodes
\* and of the agent do to each other (esp_agent_tools.c, esp_agent_deinit).
THEOREM ToolsTypeCorrect == Spec => []TypeOK
<1>1. Init => TypeOK /\ CallInv
  BY IInvInit DEF IInv
<1>2. TypeOK /\ CallInv /\ [Next]_vars => (TypeOK /\ CallInv)'
  BY CallInvStep
<1> QED
  BY <1>1, <1>2, PTL DEF Spec

-----------------------------------------------------------------------------
(* The list *)

\* What a step starts from as long as no two calls have overlapped.
Sound == TypeOK /\ CallInv /\ Chained /\ CallsInv /\ WalkInv /\ agent = "up" /\ ~overlapped /\ ~corrupt

\* The other tasks are in no call.
LEMMA OthersIdle ==
    ASSUME Sound, NEW t \in AppTasks, Application(t), ~overlapped'
    PROVE  \A u \in AppTasks \ {t} : app[u].pc = "idle" /\ app'[u].pc = "idle"
<1>1. \A u \in AppTasks \ {t} : app[u].pc = "idle"
  <2>1. CASE \E tool \in Tools, pc \in {"register", "unregister"} : Call(t, pc, tool)
    BY <2>1, IdleTyped DEF Call
  <2>2. CASE ~\E tool \in Tools, pc \in {"register", "unregister"} : Call(t, pc, tool)
    <3>1. app[t].pc # "idle"
      BY <2>2 DEF Application, Search, CallFails, Finds, Link, Publish, Unlink, Free, At
    <3> QED
      BY <3>1 DEF Sound, CallInv
  <2> QED
    BY <2>1, <2>2
<1>2. \A u \in AppTasks \ {t} : app'[u] = app[u]
  BY OnlyOneGoes DEF Sound
<1> QED
  BY <1>1, <1>2

\* Only its own node can be missing from the list.
LEMMA ListedNodes ==
    ASSUME Sound, NEW t \in AppTasks, Application(t), ~overlapped'
    PROVE  /\ \A n : n \in Listed <=> /\ n \in Nodes /\ node[n].state = "live"
                                      /\ app[t].pc \in {"publish", "free"} => app[t].at # n
           /\ \A n : n \in Listed' <=> /\ n \in Nodes /\ node'[n].state = "live"
                                       /\ app'[t].pc \in {"publish", "free"} => app'[t].at # n
  BY OthersIdle DEF Listed

\* Only its own place in a call can be wrong afterwards.
LEMMA CallsByOne ==
    ASSUME Sound, NEW t \in AppTasks, Application(t), ~overlapped',
           app'[t].pc \in {"register", "unregister"} => Searching(t)',
           app'[t].pc = "publish" => Publishing(t)',
           app'[t].pc = "free" => Freeing(t)'
    PROVE  CallsInv'
  BY OthersIdle DEF CallsInv

\* A step that touches neither the list nor the walk.
LEMMA Untouched ==
    ASSUME Chained, WalkInv, Listed' = Listed, UNCHANGED <<head, node, registered, walk, absent, status, asked>>
    PROVE  Chained' /\ WalkInv'
<1>1. Chained'
  BY DEF Chained, GoesOn
<1>2. WalkInv'
  BY DEF WalkInv
<1> QED
  BY <1>1, <1>2

LEMMA CallKept ==
    ASSUME Sound, NEW t \in AppTasks, NEW pc \in {"register", "unregister"}, NEW tool \in Tools, Call(t, pc, tool),
           ~overlapped'
    PROVE  Chained' /\ CallsInv' /\ WalkInv'
<1>1. Application(t)
  BY DEF Application
<1>2. app'[t].pc = pc /\ app'[t].tool = tool /\ app'[t].at = head /\ app'[t].prev = Nil
  BY CallStep DEF Sound
<1>3. UNCHANGED <<head, node, registered, walk, absent, status, asked>>
  BY DEF Call, calls
<1>4. app[t].pc = "idle"
  BY DEF Call, At
<1>5. Listed' = Listed
  BY <1>1, <1>2, <1>3, <1>4, ListedNodes
<1>6. Searching(t)'
  <2>1. head \in Listed \cup {Nil} /\ \A k \in Listed : k <= head /\ k \in Nat /\ head \in Nat
    BY DEF Sound, Chained, TypeOK, Listed
  <2> QED
    BY <1>2, <1>3, <1>5, <2>1 DEF Searching
<1>7. CallsInv'
  BY <1>1, <1>2, <1>6, CallsByOne
<1> QED
  BY <1>3, <1>5, <1>7, Untouched DEF Sound

LEMMA SearchKept ==
    ASSUME Sound, NEW t \in AppTasks, NEW pc \in {"register", "unregister"}, Search(t, pc), ~overlapped', ~corrupt'
    PROVE  Chained' /\ CallsInv' /\ WalkInv'
<1>1. Application(t)
  BY DEF Application
<1> DEFINE n == app[t].at
           m == node[n].next
<1>2. /\ app'[t].pc = app[t].pc /\ app'[t].tool = app[t].tool
      /\ node[n].tool # app[t].tool /\ app'[t].at = m /\ app'[t].prev = n
  BY SearchStep DEF Sound
<1>3. UNCHANGED <<head, node, registered, walk, absent, status, asked>>
  BY DEF Search, calls, list
<1>4. app[t].pc \in {"register", "unregister"} /\ n # Nil
  BY DEF Search, At
<1>5. Listed' = Listed
  BY <1>1, <1>2, <1>3, <1>4, ListedNodes
<1>6. n \in Listed /\ \A k \in Listed : k > n => node[k].tool # app[t].tool
  BY <1>4 DEF Sound, CallsInv, Searching
<1>7. GoesOn(n, m)
  BY <1>6 DEF Sound, Chained, Listed
<1>8. \A k \in Listed : k > m => node[k].tool # app[t].tool
  <2> TAKE k \in Listed
  <2> HAVE k > m
  <2>1. k \in Nat /\ n \in Nat /\ m \in Nat
    BY <1>6, <1>7 DEF Listed, GoesOn
  <2>2. ~(k < n)
    BY <1>7, <2>1 DEF GoesOn
  <2> QED
    BY <1>2, <1>6, <2>1, <2>2
<1>9. Searching(t)'
  BY <1>2, <1>3, <1>5, <1>6, <1>7, <1>8 DEF Searching, GoesOn, Listed
<1>10. CallsInv'
  BY <1>1, <1>2, <1>4, <1>9, CallsByOne
<1> QED
  BY <1>3, <1>5, <1>10, Untouched DEF Sound

LEMMA CallFailsKept ==
    ASSUME Sound, NEW t \in AppTasks, CallFails(t), ~overlapped'
    PROVE  Chained' /\ CallsInv' /\ WalkInv'
<1>1. Application(t)
  BY DEF Application
<1>2. app'[t].pc = "idle"
  BY ReturnStep DEF Sound, CallFails
<1>3. UNCHANGED <<head, node, registered, walk, absent, status, asked>>
  BY DEF CallFails, calls, list
<1>4. app[t].pc \in {"register", "unregister"}
  BY DEF CallFails, At, Finds
<1>5. Listed' = Listed
  BY <1>1, <1>2, <1>3, <1>4, ListedNodes
<1>6. CallsInv'
  BY <1>1, <1>2, CallsByOne
<1> QED
  BY <1>3, <1>5, <1>6, Untouched DEF Sound

\* A new node is above all the others.
LEMMA LinkKept ==
    ASSUME Sound, NEW t \in AppTasks, Link(t), ~overlapped'
    PROVE  Chained' /\ CallsInv' /\ WalkInv'
<1>1. Application(t) /\ app[t].pc = "register" /\ app[t].at = Nil
  BY DEF Application, Link, At
<1>2. PICK n \in Nodes :
        /\ node[n].state = "new" /\ \A m \in Nodes : m < n => node[m].state # "new"
        /\ app'[t].pc = "publish" /\ app'[t].tool = app[t].tool /\ app'[t].at = n
        /\ node'[n].tool = app[t].tool /\ node'[n].next = head /\ node'[n].state = "live"
        /\ \A m \in Nodes \ {n} : node'[m] = node[m]
  BY <1>1, LinkStep DEF Sound
<1>3. UNCHANGED <<head, registered, walk, absent, status, asked>>
  BY DEF Link, calls
<1>4. n \notin Listed /\ \A m \in Listed : m \in Nodes /\ node'[m] = node[m]
  BY <1>2 DEF Listed
<1>5. Listed' = Listed
  <2>1. \A m : m \in Listed <=> m \in Nodes /\ node[m].state = "live"
    BY <1>1, ListedNodes
  <2>2. \A m : m \in Listed' <=> m \in Nodes /\ node'[m].state = "live" /\ m # n
    BY <1>1, <1>2, ListedNodes
  <2>3. \A m : m \in Listed' <=> m \in Listed
    <3> TAKE m
    <3>1. CASE m = n
      BY <1>2, <2>1, <2>2, <3>1
    <3>2. CASE m # n
      BY <1>2, <2>1, <2>2, <3>2
    <3> QED
      BY <3>1, <3>2
  <2> QED
    BY <2>3
<1>6. \A m \in Nodes : node[m].state # "new" => m < n
  BY <1>2 DEF Sound, Chained
<1>7. \A m \in Listed : m < n
  BY <1>6 DEF Listed
<1>8. \A m \in Listed : node[m].tool # app[t].tool
  BY <1>1 DEF Sound, CallsInv, Searching, Listed
<1>9. Publishing(t)'
  BY <1>2, <1>3, <1>4, <1>5, <1>7, <1>8 DEF Publishing
<1>10. Chained'
  <2>1. \A l, m \in Nodes : l < m /\ node'[l].state = "new" => node'[m].state = "new"
    <3> TAKE l, m \in Nodes
    <3> HAVE l < m /\ node'[l].state = "new"
    <3>1. node[l].state = "new" /\ l # n
      BY <1>2
    <3>2. node[m].state = "new"
      BY <3>1 DEF Sound, Chained
    <3>3. m # n
      BY <1>2, <3>1
    <3> QED
      BY <1>2, <3>2, <3>3
  <2>2. GoesOn(n, head)
    <3>1. head < n
      BY <1>7 DEF Sound, Chained
    <3> QED
      BY <3>1 DEF Sound, Chained, GoesOn
  <2>3. ASSUME NEW m \in Nodes, node'[m].state = "live" PROVE GoesOn(m, node[m].next)'
    <3>1. GoesOn(m, node'[m].next)
      BY <1>2, <2>2, <2>3 DEF Sound, Chained
    <3> QED
      BY <1>5, <3>1 DEF GoesOn
  <2>4. /\ \A tool \in registered : \E m \in Listed : node'[m].tool = tool
        /\ \A m \in Listed : node'[m].tool \in registered
        /\ \A l, m \in Listed : node'[l].tool = node'[m].tool => l = m
    BY <1>4 DEF Sound, Chained
  <2>5. head \in Listed \cup {Nil} /\ \A k \in Listed : k <= head
    BY DEF Sound, Chained
  <2> QED
    BY <1>3, <1>5, <2>1, <2>3, <2>4, <2>5 DEF Chained
<1>11. WalkInv'
  <2> SUFFICES ASSUME NEW r \in Requests, status'[r] = "walking"
               PROVE  /\ walk' # Nil => node'[walk'].state # "new"
                      /\ absent' \/ \E m \in Listed' : m <= walk' /\ node'[m].tool = asked'[r]
    BY DEF WalkInv
  <2>1. /\ walk # Nil => node[walk].state # "new"
        /\ absent \/ \E m \in Listed : m <= walk /\ node[m].tool = asked[r]
    BY <1>3 DEF Sound, WalkInv
  <2>2. walk # Nil => walk \in Nodes /\ node'[walk] = node[walk]
    BY <1>2, <2>1 DEF Sound, TypeOK
  <2> QED
    BY <1>3, <1>4, <1>5, <2>1, <2>2
<1>12. CallsInv'
  BY <1>1, <1>2, <1>9, CallsByOne
<1> QED
  BY <1>10, <1>11, <1>12

LEMMA PublishKept ==
    ASSUME Sound, NEW t \in AppTasks, Publish(t), ~overlapped'
    PROVE  Chained' /\ CallsInv' /\ WalkInv'
<1>1. Application(t) /\ app[t].pc = "publish"
  BY DEF Application, Publish, At
<1>2. app'[t].pc = "idle"
  BY ReturnStep DEF Sound, Publish
<1> DEFINE n == app[t].at
<1>3. /\ n \in Nodes /\ node[n].state = "live" /\ node[n].tool = app[t].tool /\ node[n].next = head
      /\ \A m \in Listed : m < n /\ node[m].tool # app[t].tool
  BY <1>1 DEF Sound, CallsInv, Publishing
<1>4. UNCHANGED <<node, walk, absent, status, asked>> /\ head' = n /\ registered' = registered \cup {app[t].tool}
  BY DEF Publish, calls
<1>5. Listed' = Listed \cup {n} /\ \A m \in Nodes : node[m].state = "live" => m \in Listed \cup {n}
  BY <1>1, <1>2, <1>3, <1>4, ListedNodes
<1> HIDE DEF n
<1>6. Chained'
  <2>1. ASSUME NEW m \in Nodes, node[m].state = "live" PROVE GoesOn(m, node[m].next)'
    <3>1. GoesOn(m, node[m].next)
      BY <2>1 DEF Sound, Chained
    <3>2. ~(n < m)
      BY <1>3, <1>5, <2>1
    <3> QED
      BY <1>4, <1>5, <3>1, <3>2 DEF GoesOn
  <2>2. \A k \in Listed' : k <= n
    <3>1. n <= n
      BY <1>3
    <3>2. \A k \in Listed : k \in Nodes /\ k < n
      BY <1>3 DEF Listed
    <3>3. \A k \in Listed : k <= n
      BY <1>3, <3>2
    <3> QED
      BY <1>5, <3>1, <3>3
  <2>3. \A tool \in registered' : \E m \in Listed' : node[m].tool = tool
    BY <1>3, <1>4, <1>5 DEF Sound, Chained, n
  <2>4. \A m \in Listed' : node[m].tool \in registered'
    BY <1>3, <1>4, <1>5 DEF Sound, Chained, n
  <2>5. \A l, m \in Listed' : node[l].tool = node[m].tool => l = m
    BY <1>3, <1>5 DEF Sound, Chained
  <2>6. \A l, m \in Nodes : l < m /\ node[l].state = "new" => node[m].state = "new"
    BY DEF Sound, Chained
  <2> QED
    BY <1>4, <1>5, <2>1, <2>2, <2>3, <2>4, <2>5, <2>6 DEF Chained
<1>7. WalkInv'
  BY <1>4, <1>5 DEF Sound, WalkInv
<1>8. CallsInv'
  BY <1>1, <1>2, CallsByOne
<1> QED
  BY <1>6, <1>7, <1>8

LEMMA FreeKept ==
    ASSUME Sound, NEW t \in AppTasks, Free(t), ~overlapped'
    PROVE  Chained' /\ CallsInv' /\ WalkInv'
<1>1. Application(t) /\ app[t].pc = "free"
  BY DEF Application, Free, At
<1> DEFINE n == app[t].at
<1>2. n \in Nodes /\ node[n].state = "live"
  BY <1>1 DEF Sound, CallsInv, Freeing
<1>3. app'[t].pc = "idle" /\ node'[n].state = "freed" /\ \A m \in Nodes \ {n} : node'[m] = node[m]
  BY <1>2, FreeStep DEF Sound
<1>4. UNCHANGED <<head, registered, walk, absent, status, asked>>
  BY DEF Free, calls
<1>5. Listed' = Listed /\ n \notin Listed
  <2>1. \A m : m \in Listed <=> m \in Nodes /\ node[m].state = "live" /\ m # n
    BY <1>1, ListedNodes
  <2>2. \A m : m \in Listed' <=> m \in Nodes /\ node'[m].state = "live"
    BY <1>1, <1>3, ListedNodes
  <2> HIDE DEF n
  <2>3. \A m : m \in Listed' <=> m \in Listed
    <3> TAKE m
    <3>1. CASE m = n
      BY <1>2, <1>3, <2>1, <2>2, <3>1
    <3>2. CASE m # n
      BY <1>3, <2>1, <2>2, <3>2
    <3> QED
      BY <3>1, <3>2
  <2> QED
    BY <2>1, <2>3
<1> HIDE DEF n
<1>6. \A m \in Listed : m \in Nodes /\ node'[m] = node[m]
  BY <1>3, <1>5 DEF Listed
<1>7. Chained'
  <2>1. ASSUME NEW m \in Nodes, node'[m].state = "live" PROVE GoesOn(m, node[m].next)'
    <3>1. m # n /\ GoesOn(m, node[m].next)
      BY <1>3, <2>1 DEF Sound, Chained
    <3> QED
      BY <1>3, <1>5, <3>1 DEF GoesOn
  <2>2. \A l, m \in Nodes : l < m /\ node'[l].state = "new" => node'[m].state = "new"
    BY <1>2, <1>3 DEF Sound, Chained
  <2>3. /\ \A tool \in registered : \E m \in Listed : node'[m].tool = tool
        /\ \A m \in Listed : node'[m].tool \in registered
        /\ \A l, m \in Listed : node'[l].tool = node'[m].tool => l = m
    BY <1>6 DEF Sound, Chained
  <2>4. head \in Listed \cup {Nil} /\ \A k \in Listed : k <= head
    BY DEF Sound, Chained
  <2> QED
    BY <1>4, <1>5, <2>1, <2>2, <2>3, <2>4 DEF Chained
<1>8. WalkInv'
  <2> SUFFICES ASSUME NEW r \in Requests, status'[r] = "walking"
               PROVE  /\ walk' # Nil => node'[walk'].state # "new"
                      /\ absent' \/ \E m \in Listed' : m <= walk' /\ node'[m].tool = asked'[r]
    BY DEF WalkInv
  <2>1. /\ walk # Nil => node[walk].state # "new"
        /\ absent \/ \E m \in Listed : m <= walk /\ node[m].tool = asked[r]
    BY <1>4 DEF Sound, WalkInv
  <2>2. walk # Nil => walk \in Nodes /\ node'[walk].state # "new"
    BY <1>3, <2>1 DEF Sound, TypeOK
  <2> QED
    BY <1>4, <1>5, <1>6, <2>1, <2>2
<1>9. CallsInv'
  BY <1>1, <1>3, CallsByOne
<1> QED
  BY <1>7, <1>8, <1>9

\* The node above the one taken out goes on where that one did.
LEMMA UnlinkKept ==
    ASSUME Sound, NEW t \in AppTasks, Unlink(t), ~overlapped', ~corrupt'
    PROVE  Chained' /\ CallsInv' /\ WalkInv'
<1>1. Application(t) /\ app[t].pc = "unregister"
  BY DEF Application, Unlink, Finds, At
<1> DEFINE n == app[t].at
           p == app[t].prev
<1>2. /\ app'[t].pc = "free" /\ app'[t].tool = app[t].tool /\ app'[t].at = n
      /\ n \in Nodes /\ node[n].state # "freed" /\ node[n].tool = app[t].tool
      /\ \A m \in Nodes : node'[m].state = node[m].state
      /\ \/ p = Nil /\ head' = node[n].next /\ node' = node
         \/ /\ p \in Nodes /\ head' = head /\ node'[p].next = node[n].next /\ node'[p].tool = node[p].tool
            /\ \A m \in Nodes \ {p} : node'[m] = node[m]
  BY UnlinkStep DEF Sound
<1>3. /\ UNCHANGED <<walk, status, asked>> /\ registered' = registered \ {app[t].tool}
      /\ absent' = (absent \/ \E r \in Requests : status[r] = "walking" /\ asked[r] = app[t].tool)
  BY DEF Unlink, calls
<1>4. n \in Listed /\ IF p = Nil THEN n = head ELSE p \in Listed /\ node[p].next = n
  BY <1>1, <1>2 DEF Sound, CallsInv, Searching
<1>5. /\ \A m : m \in Listed <=> m \in Nodes /\ node[m].state = "live"
      /\ \A m : m \in Listed' <=> m \in Nodes /\ node'[m].state = "live" /\ m # n
  BY <1>1, <1>2, ListedNodes
<1> HIDE DEF n, p
<1>6. Listed' = Listed \ {n}
  BY <1>2, <1>5
<1>7. \A m \in Nodes : node'[m].tool = node[m].tool
  BY <1>2
<1>8. GoesOn(n, node[n].next) /\ node[n].next \in Listed' \cup {Nil}
  <2>1. GoesOn(n, node[n].next)
    BY <1>4, <1>5 DEF Sound, Chained
  <2> QED
    BY <1>2, <1>6, <2>1 DEF GoesOn
<1>9. head' \in Listed' \cup {Nil} /\ \A k \in Listed' : k <= head'
  <2>1. CASE p = Nil
    <3>1. head' = node[n].next /\ n = head
      BY <1>2, <1>4, <2>1
    <3>2. \A k \in Listed' : k \in Listed /\ k \in Nat /\ n \in Nat /\ k <= n /\ k # n
      BY <1>2, <1>5, <1>6, <3>1 DEF Sound, Chained
    <3>3. \A k \in Listed' : k < n
      BY <3>2
    <3> QED
      BY <1>8, <3>1, <3>2, <3>3 DEF GoesOn
  <2>2. CASE p # Nil
    <3>1. head' = head /\ p \in Listed /\ GoesOn(p, n)
      BY <1>2, <1>4, <1>5, <2>2 DEF Sound, Chained
    <3>2. n < p /\ p <= head /\ n \in Nat /\ p \in Nat /\ head \in Nat
      BY <1>2, <1>5, <3>1 DEF Sound, Chained, GoesOn, TypeOK
    <3> QED
      BY <1>6, <3>1, <3>2 DEF Sound, Chained
  <2> QED
    BY <2>1, <2>2
<1>10. ASSUME NEW m \in Nodes, node'[m].state = "live" PROVE GoesOn(m, node[m].next)'
  <2>1. m \in Listed /\ GoesOn(m, node[m].next) /\ m \in Nat
    BY <1>2, <1>5, <1>10 DEF Sound, Chained
  <2>2. CASE node'[m].next = node[m].next /\ node[m].next # n
    BY <1>6, <2>1, <2>2 DEF GoesOn
  <2>3. CASE node[m].next = n
    <3>1. p # Nil
      <4>1. n < m /\ m <= head
        BY <2>1, <2>3 DEF Sound, Chained, GoesOn
      <4> QED
        BY <1>2, <1>4, <4>1
    <3>2. p \in Listed /\ GoesOn(p, n) /\ p \in Nat /\ n \in Nat
      BY <1>2, <1>4, <1>5, <3>1 DEF Sound, Chained
    <3>3. m = p
      <4>1. n < m /\ n < p /\ (p < m => p <= n) /\ (m < p => m <= n)
        BY <2>1, <2>3, <3>2 DEF GoesOn
      <4> QED
        BY <2>1, <3>2, <4>1
    <3>4. node'[m].next = node[n].next
      BY <1>2, <3>1, <3>3
    <3>5. \A k \in Listed' : k < m => k < n
      <4> TAKE k \in Listed'
      <4> HAVE k < m
      <4>1. k \in Listed /\ k # n /\ k \in Nat
        BY <1>5, <1>6
      <4>2. k <= n
        BY <2>1, <2>3, <4>1 DEF GoesOn
      <4> QED
        BY <3>2, <4>1, <4>2
    <3>6. node[n].next < m
      <4>1. node[n].next < n /\ n < m /\ node[n].next \in Nat
        BY <1>2, <1>5, <1>8, <2>1, <2>3 DEF GoesOn
      <4> QED
        BY <2>1, <3>2, <4>1
    <3> QED
      BY <1>6, <1>8, <3>4, <3>5, <3>6 DEF GoesOn
  <2>4. CASE m = p /\ node[m].next # n
    BY <1>4, <2>4, <1>2
  <2> QED
    BY <1>2, <2>2, <2>3, <2>4
<1>11. Chained'
  <2>1. \A l, m \in Nodes : l < m /\ node'[l].state = "new" => node'[m].state = "new"
    BY <1>2 DEF Sound, Chained
  <2>2. \A m \in Listed : node[m].tool = app[t].tool => m = n
    BY <1>2, <1>4 DEF Sound, Chained
  <2>3. \A tool \in registered' : \E m \in Listed' : node'[m].tool = tool
    BY <1>2, <1>3, <1>5, <1>6, <1>7 DEF Sound, Chained
  <2>4. \A m \in Listed' : node'[m].tool \in registered'
    BY <1>3, <1>5, <1>6, <1>7, <2>2 DEF Sound, Chained
  <2>5. \A l, m \in Listed' : node'[l].tool = node'[m].tool => l = m
    BY <1>5, <1>6, <1>7 DEF Sound, Chained
  <2> QED
    BY <1>9, <1>10, <2>1, <2>3, <2>4, <2>5 DEF Chained
<1>12. WalkInv'
  <2> SUFFICES ASSUME NEW r \in Requests, status'[r] = "walking"
               PROVE  /\ walk' # Nil => node'[walk'].state # "new"
                      /\ absent' \/ \E m \in Listed' : m <= walk' /\ node'[m].tool = asked'[r]
    BY DEF WalkInv
  <2>1. /\ walk # Nil => node[walk].state # "new"
        /\ absent \/ \E m \in Listed : m <= walk /\ node[m].tool = asked[r]
    BY <1>3 DEF Sound, WalkInv
  <2>2. walk # Nil => walk \in Nodes /\ node'[walk].state # "new"
    BY <1>2, <2>1 DEF Sound, TypeOK
  <2>3. CASE absent'
    BY <1>3, <2>2, <2>3
  <2>4. CASE ~absent'
    <3>1. PICK m \in Listed : m <= walk /\ node[m].tool = asked[r]
      BY <1>3, <2>1, <2>4
    <3>2. m # n
      BY <1>2, <1>3, <2>4, <3>1
    <3> QED
      BY <1>3, <1>5, <1>6, <1>7, <2>2, <3>1, <3>2
  <2> QED
    BY <2>3, <2>4
<1>13. CallsInv'
  <2>1. Freeing(t)'
    BY <1>2, <1>5, <1>4 DEF Freeing, n
  <2> QED
    BY <1>1, <1>2, <2>1, CallsByOne
<1> QED
  BY <1>11, <1>12, <1>13

\* The steps of the agent's tasks leave the list and the calls alone.
LEMMA ListUntouched ==
    ASSUME Sound, UNCHANGED <<head, node, registered, app>>
    PROVE  Chained' /\ CallsInv' /\ Listed' = Listed
<1>1. Listed' = Listed
  BY DEF Listed
<1>2. Chained'
  BY <1>1 DEF Sound, Chained, GoesOn
<1>3. CallsInv'
  BY <1>1 DEF Sound, CallsInv, Searching, Publishing, Freeing
<1> QED
  BY <1>1, <1>2, <1>3

LEMMA RequestKept ==
    ASSUME Sound, NEW r \in Requests, Request(r) \/ ToolTask(r), ~corrupt'
    PROVE  Chained' /\ CallsInv' /\ WalkInv'
<1>1. UNCHANGED <<head, node, registered, app, asked>>
  BY DEF Request, ToolTask, MessageTask, WalkFinds, WalkNext, WalkEnds, UsesAgent, ToolRuns, ReplyCheck, ReplyPush,
         list, calls
<1>2. Chained' /\ CallsInv' /\ Listed' = Listed
  BY <1>1, ListUntouched
<1>3. \A n \in Listed : n \in Nodes /\ node[n].state = "live"
  BY DEF Listed
<1>4. \A q \in Requests : status[q] = "walking" /\ status[r] = "walking" => q = r
  BY DEF Sound, CallInv
<1>5. CASE MessageTask(r)
  <2>1. \A q \in Requests : status[q] # "walking"
    BY <1>5 DEF MessageTask
  <2>2. CASE Become(r, "malformed")
    BY <1>2, <2>1, <2>2, StatusTyped DEF Sound, Statuses, Settled, WalkInv
  <2>3. CASE Become(r, "walking") /\ walk' = head /\ absent' = (asked[r] \notin registered)
    <3>1. \A q \in Requests : status'[q] = "walking" => q = r
      BY <2>1, <2>3, StatusTyped DEF Sound, Statuses
    <3>2. head # Nil => node[head].state # "new"
      BY <1>3 DEF Sound, Chained
    <3>3. absent' \/ \E n \in Listed : n <= head /\ node[n].tool = asked[r]
      BY <2>3 DEF Sound, Chained
    <3> QED
      BY <1>1, <1>2, <2>3, <3>1, <3>2, <3>3 DEF WalkInv
  <2> QED
    BY <1>5, <2>2, <2>3 DEF MessageTask
<1>6. CASE WalkFinds(r) \/ WalkEnds(r)
  <2>1. status[r] = "walking" /\ \E s \in {"running", "taskless", "unknown"} : Become(r, s)
    BY <1>6 DEF WalkFinds, WalkEnds, Walking
  <2>2. \A q \in Requests : status'[q] # "walking"
    BY <1>4, <2>1, StatusTyped DEF Sound, Statuses, Settled
  <2> QED
    BY <1>2, <2>2 DEF WalkInv
<1>7. CASE WalkNext(r)
  <2>1. status[r] = "walking" /\ walk # Nil /\ UNCHANGED <<status, absent>>
    BY <1>7 DEF WalkNext, Walking, calls
  <2>2. ~Freed(walk) /\ node[walk].tool # asked[r] /\ walk' = node[walk].next
    BY <1>7 DEF WalkNext, Corrupted
  <2>3. walk \in Nodes /\ node[walk].state = "live"
    <3>1. walk \in Nodes /\ node[walk].state # "new"
      BY <2>1 DEF Sound, TypeOK, WalkInv
    <3> QED
      BY <2>2, <3>1, Typed DEF Sound, Freed
  <2>4. GoesOn(walk, walk')
    BY <2>2, <2>3 DEF Sound, Chained
  <2>5. walk' # Nil => node[walk'].state # "new"
    BY <1>3, <2>4 DEF GoesOn
  <2>6. absent \/ \E n \in Listed : n <= walk' /\ node[n].tool = asked[r]
    <3>1. CASE \E n \in Listed : n <= walk /\ node[n].tool = asked[r]
      <4>1. PICK n \in Listed : n <= walk /\ node[n].tool = asked[r]
        BY <3>1
      <4>2. n # walk /\ n \in Nat /\ walk \in Nat
        BY <1>3, <2>2, <2>3, <4>1
      <4>3. n < walk
        BY <4>1, <4>2
      <4> QED
        BY <2>4, <4>1, <4>3 DEF GoesOn
    <3> QED
      BY <2>1, <3>1 DEF Sound, WalkInv
  <2>7. \A q \in Requests : status'[q] = "walking" => q = r
    BY <1>4, <2>1
  <2> QED
    BY <1>1, <1>2, <2>1, <2>5, <2>6, <2>7 DEF WalkInv
<1>8. CASE ToolTask(r)
  <2>1. UNCHANGED <<walk, absent>>
    BY <1>8 DEF ToolTask, UsesAgent, ToolRuns, ReplyCheck, ReplyPush
  <2>2. \A q \in Requests : status'[q] = "walking" => status[q] = "walking"
    <3>1. \E s \in {"replying", "dropped", "pushing", "sent"} : Become(r, s)
      BY <1>8 DEF ToolTask, UsesAgent, ToolRuns, ReplyCheck, ReplyPush, Sound
    <3> QED
      BY <3>1, StatusTyped DEF Sound, Statuses, Settled
  <2> QED
    BY <1>1, <1>2, <2>1, <2>2 DEF Sound, WalkInv
<1> QED
  BY <1>2, <1>5, <1>6, <1>7, <1>8 DEF Request

\* What happens to the list outside a call of the application ends the agent.
LEMMA OthersKept ==
    ASSUME Sound, DeinitStop \/ DeinitFree \/ ServerRequests \/ SessionChanges \/ SendTask, agent' = "up"
    PROVE  Chained' /\ CallsInv' /\ WalkInv'
<1>1. ServerRequests \/ SessionChanges \/ SendTask
  BY DEF DeinitStop, DeinitFree
<1>2. UNCHANGED <<head, node, registered, app, walk, absent>>
  BY <1>1 DEF ServerRequests, SessionChanges, SendTask, list, calls
<1>3. Chained' /\ CallsInv' /\ Listed' = Listed
  BY <1>2, ListUntouched
<1>4. CASE ServerRequests
  <2>1. PICK r \in Requests, tool \in Tools : Become(r, "queued") /\ asked' = [asked EXCEPT ![r] = tool]
    BY <1>4 DEF ServerRequests
  <2>2. /\ status'[r] = "queued" /\ \A q \in Requests \ {r} : status'[q] = status[q]
        /\ \A q \in Requests \ {r} : asked'[q] = asked[q]
    BY <2>1, StatusTyped DEF Sound, TypeOK, Statuses
  <2>3. \A q \in Requests : status'[q] = "walking" => status[q] = "walking" /\ asked'[q] = asked[q]
    BY <2>2
  <2> QED
    BY <1>2, <1>3, <2>3 DEF Sound, WalkInv
<1>5. CASE UNCHANGED <<status, asked>>
  BY <1>2, <1>3, <1>5 DEF Sound, WalkInv
<1> QED
  BY <1>1, <1>3, <1>4, <1>5 DEF SessionChanges, SendTask, calls

LEMMA ApplicationKept ==
    ASSUME Sound, NEW t \in AppTasks, Application(t), ~overlapped', ~corrupt'
    PROVE  Chained' /\ CallsInv' /\ WalkInv'
  BY CallKept, SearchKept, CallFailsKept, LinkKept, PublishKept, UnlinkKept, FreeKept DEF Application

LEMMA IInvStep == IInv /\ [Next]_vars => IInv'
<1> SUFFICES ASSUME IInv, [Next]_vars PROVE IInv'
  OBVIOUS
<1>1. TypeOK' /\ CallInv'
  BY CallInvStep DEF IInv
<1>2. ListInv'
  <2>1. CASE Next
    <3> SUFFICES ASSUME agent' = "up", ~corrupt', ~overlapped' PROVE Chained' /\ CallsInv' /\ WalkInv'
      BY DEF ListInv
    <3>1. UNCHANGED agent \/ DeinitStop \/ DeinitFree
      BY <2>1 DEF Next, Application, Call, Search, CallFails, Link, Publish, Unlink, Free, ServerRequests,
                  SessionChanges, SendTask, Request, ToolTask, MessageTask, WalkFinds, WalkNext, WalkEnds, UsesAgent,
                  ToolRuns, ReplyCheck, ReplyPush
    <3>2. agent = "up"
      BY <3>1 DEF DeinitStop, DeinitFree
    <3>3. overlapped' = overlapped \/ \E t \in AppTasks : Application(t)
      BY <2>1 DEF Next, ServerRequests, SessionChanges, SendTask, Request, ToolTask, MessageTask, WalkFinds, WalkNext,
                  WalkEnds, UsesAgent, ToolRuns, ReplyCheck, ReplyPush, DeinitStop, DeinitFree, list
    <3>4. ~overlapped
      BY <3>3 DEF Application, Call, Search, CallFails, Link, Publish, Unlink, Free, list
    <3>5. Sound
      BY <2>1, <3>2, <3>4 DEF IInv, ListInv, Sound, Next
    <3> QED
      BY <2>1, <3>5, ApplicationKept, OthersKept, RequestKept DEF Next
  <2>2. CASE UNCHANGED vars
    <3>1. UNCHANGED <<head, node, registered, overlapped, app, asked, status, walk, absent, agent, corrupt>>
      BY <2>2 DEF vars, list, calls
    <3>2. Listed' = Listed
      BY <3>1 DEF Listed
    <3> QED
      BY <3>1, <3>2 DEF IInv, ListInv, Chained, GoesOn, CallsInv, Searching, Publishing, Freeing, WalkInv
  <2> QED
    BY <2>1, <2>2
<1> QED
  BY <1>1, <1>2 DEF IInv

\* A walk that has come to the end of the list has nothing ahead of it.
LEMMA UnknownStep ==
    ASSUME IInv, [Next]_vars, NEW r \in Requests, status[r] = "walking", status'[r] = "unknown"
    PROVE  absent \/ overlapped
<1> SUFFICES ASSUME ~overlapped PROVE absent
  OBVIOUS
<1>1. Next /\ UNCHANGED agent /\ agent = "up" /\ walk = Nil
  <2>1. status' # status
    OBVIOUS
  <2>2. Next
    BY <2>1 DEF vars, calls
  <2>3. PICK q \in Requests : Request(q) \/ ToolTask(q) \/ ServerRequests
    BY <2>1, <2>2 DEF Next, Application, Call, Search, CallFails, Link, Publish, Unlink, Free, DeinitStop, DeinitFree,
                      SessionChanges, SendTask, calls
  <2>4. CASE WalkEnds(q)
    BY <2>2, <2>4 DEF WalkEnds, Walking
  <2>5. CASE ~WalkEnds(q)
    <3>1. UNCHANGED status \/ \E p \in Requests, s \in Statuses \ {"unknown"} : Become(p, s)
      BY <2>3, <2>5 DEF ServerRequests, Request, ToolTask, MessageTask, WalkFinds, WalkNext, UsesAgent, ToolRuns,
                        ReplyCheck, ReplyPush, calls, Statuses, Settled
    <3>2. status'[r] = status[r] \/ status'[r] # "unknown"
      BY <3>1, StatusTyped DEF IInv
    <3> QED
      BY <3>2
  <2> QED
    BY <2>4, <2>5
<1>2. absent \/ \E n \in Listed : n <= walk /\ node[n].tool = asked[r]
  BY <1>1 DEF IInv, ListInv, WalkInv, Next
<1>3. \A n \in Listed : n \in Nodes /\ ~(n <= 0)
  BY DEF Listed
<1> QED
  BY <1>1, <1>2, <1>3

\* A request finds the tool it names when that was registered before the walk
\* began and all through it, whatever else is registered and unregistered under
\* the walk, as long as no two tasks were ever in a call at once
\* (esp_agent_execute_tool, and esp_agent_tools.h:66).
THEOREM FindsTheorem == Spec => FindsRegistered
<1>1. Init => IInv
  BY IInvInit
<1>2. IInv /\ [Next]_vars => IInv'
  BY IInvStep
<1>3. IInv /\ [Next]_vars =>
        [\A r \in Requests : status[r] = "walking" /\ status'[r] = "unknown" => absent \/ overlapped]_vars
  BY UnknownStep
<1> QED
  BY <1>1, <1>2, <1>3, PTL DEF Spec, FindsRegistered
=============================================================================
