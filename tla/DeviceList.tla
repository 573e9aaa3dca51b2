---------------------------- MODULE DeviceList ----------------------------
(***************************************************************************)
(* The list of Matter devices: the device manager's task that fetches it   *)
(* (app_matter_device_manager.cpp, the node part of controller_rest_apis.c)*)
(* and the get_device_list tool that copies it and reads the copy out      *)
(* (app_controller_tool_cb.cpp).                                           *)
(*                                                                         *)
(* A fetch is one request for the size of the list, one for the list, and  *)
(* one for each device on it; the cloud's group changes in between.  The   *)
(* published list is read and replaced under a mutex; the tools' copy is a *)
(* static pointer that every tool task frees, sets and follows without a   *)
(* lock.  Every request of the agent is a tool task of its own.            *)
(*                                                                         *)
(* A use of freed memory has no meaning: the program is corrupt from there,*)
(* and nothing more is said of it.                                         *)
(***************************************************************************)
EXTENDS Naturals, Sequences, SequencesExt

CONSTANTS
    Devices,      \* the devices; the controller itself, which is skipped, is left out
    Named,        \* those of which the cloud has metadata
    Callers,      \* tasks that call update_device_list, once each
    ToolTasks,    \* tasks that execute get_device_list, once each
    Former,       \* the one of them that has answered before Init
    Known,        \* what it answered
    Nil,
    QueueSize,    \* of the device manager's queue, 8 in the code
    Changes       \* bound: how often the group and the handle change

ASSUME NamesAssumption == Named \subseteq Devices /\ Former \in ToolTasks /\ Known \in Named /\ Nil \notin ToolTasks
ASSUME BoundAssumption == QueueSize \in Nat \ {0} /\ Changes \in Nat

VARIABLES
    group,       \* the cloud's: the nodes of the group, in order
    groups,      \* history: all that group has been
    complete,    \* the handle has its base URL, access token and group id
    queued,      \* s_mt_ctl_dev_mgr_task_queue: all its actions are updates
    caller,      \* of each caller: "calling" or "returned"
    mgr,         \* the device manager's task: its step, what it has fetched
    mutex,       \* s_mt_ctl_dev_mgr_mutex: the tool task that holds it
    published,   \* s_mt_ctl_dev_list
    devList,     \* s_dev_list: the tool task whose copy it points to
    copy,        \* of each tool task: the list fetch_device_list returned to it
    tool,        \* of each tool task: its step, where it reads, its answer
    lists,       \* history: all that was published
    corrupt,     \* freed memory was used
    left         \* bound: what remains of Changes

cloud   == <<group, groups>>
manager == <<queued, mgr, published>>
tools   == <<mutex, devList, copy, tool>>
vars    == <<cloud, complete, manager, caller, tools, lists, corrupt, left>>

\* No fetch under way; the handle's strings are captured as a fetch begins.
Resting == [pc |-> "idle", size |-> 0, list |-> << >>, pos |-> 0, freed |-> FALSE]

Asleep == [pc |-> "none", list |-> Nil, pos |-> 0, answer |-> << >>]

\* Init is after a first update and a first answer, of a group with one device.
Init ==
    /\ group = <<Known>> /\ groups = {group}
    /\ complete = TRUE
    /\ queued = 0 /\ mgr = Resting /\ published = <<Known>> /\ lists = {published}
    /\ caller = [c \in Callers |-> "calling"]
    /\ mutex = Nil /\ devList = Former
    /\ copy = [t \in ToolTasks |-> IF t = Former THEN [list |-> <<Known>>, state |-> "live"]
                                   ELSE [list |-> << >>, state |-> "none"]]
    /\ tool = [t \in ToolTasks |-> IF t = Former THEN [Asleep EXCEPT !.pc = "done", !.answer = <<Known>>]
                                   ELSE Asleep]
    /\ corrupt = FALSE /\ left = Changes

Change == left > 0 /\ left' = left - 1

-----------------------------------------------------------------------------
(* The surroundings *)

\* A device joins the group, or leaves it.
GroupChanges ==
    /\ Change
    /\ \/ \E d \in Devices : ~Contains(group, d) /\ group' = Append(group, d)
       \/ \E i \in DOMAIN group : group' = RemoveAt(group, i)
    /\ groups' = groups \cup {group'}
    /\ UNCHANGED <<complete, manager, caller, tools, lists, corrupt>>

\* A string of the handle is freed; it is replaced, or missing from now on.
HandleChanges ==
    /\ Change
    /\ complete' \in BOOLEAN
    /\ mgr' = [mgr EXCEPT !.freed = mgr.pc # "idle"]
    /\ UNCHANGED <<cloud, queued, published, caller, tools, lists, corrupt>>

\* Faulty variant of UpdateDeviceList: the queue's size is not looked at.
UpdateDeviceListUnchecked(c) ==
    /\ caller[c] = "calling" /\ caller' = [caller EXCEPT ![c] = "returned"]
    /\ queued' = queued + 1
    /\ UNCHANGED <<cloud, complete, mgr, published, tools, lists, corrupt, left>>

\* update_device_list waits without a timeout for room in the queue.
UpdateDeviceList(c) ==
    /\ caller[c] = "calling" /\ caller' = [caller EXCEPT ![c] = "returned"]
    /\ queued < QueueSize /\ queued' = queued + 1
    /\ UNCHANGED <<cloud, complete, mgr, published, tools, lists, corrupt, left>>

-----------------------------------------------------------------------------
(* The device manager's task *)

Goes(next)  == mgr' = next /\ UNCHANGED <<cloud, complete, queued, published, caller, tools, lists, corrupt, left>>
Step(label) == mgr.pc = label /\ ~mgr.freed

\* update_device_list_handler: a handle without its strings ends the fetch.
Take ==
    /\ mgr.pc = "idle" /\ queued > 0
    /\ queued' = queued - 1
    /\ mgr' = IF complete THEN [mgr EXCEPT !.pc = "size"] ELSE mgr
    /\ UNCHANGED <<cloud, complete, published, caller, tools, lists, corrupt, left>>

\* A request of the fetch is under way, or the next is about to be made.
Requesting == mgr.pc \in {"size", "list"} \/ (mgr.pc = "metadata" /\ mgr.pos <= Len(mgr.list))
Fetched    == mgr.pc = "unparsed" \/ (mgr.pc = "metadata" /\ mgr.pos > Len(mgr.list))

\* Any request may fail: no memory, no connection, an answer that is refused.
\* What the other requests obtained is freed.
Fails == Requesting /\ ~mgr.freed /\ Goes(Resting)

\* A request is made with strings that were freed since the fetch began.
UsesFreed ==
    /\ Requesting /\ mgr.freed /\ corrupt' = TRUE
    /\ UNCHANGED <<cloud, complete, manager, caller, tools, lists, left>>

\* fetch_matter_node_list_size
FetchSize == Step("size") /\ Goes([mgr EXCEPT !.pc = "list", !.size = Len(group)])

\* parse_node_list puts each node in front of the list.
Parsed == Reverse(group)

\* Faulty variant of FetchList: what was parsed of a list is kept.
FetchListInPart ==
    /\ Step("list")
    /\ \/ /\ Len(group) <= mgr.size
          /\ Goes([mgr EXCEPT !.pc = "metadata", !.list = Parsed, !.pos = 1])
       \/ \E n \in 0 .. Len(Parsed) : Goes([mgr EXCEPT !.pc = "unparsed", !.list = SubSeq(Parsed, 1, n)])

\* fetch_matter_node_list: an answer longer than the size asked for before is
\* cut off, and no list that can be parsed; a list that cannot be parsed is
\* freed, and the fetch succeeds with none.
FetchList ==
    /\ Step("list")
    /\ \/ /\ Len(group) <= mgr.size
          /\ Goes([mgr EXCEPT !.pc = "metadata", !.list = Parsed, !.pos = 1])
       \/ Goes([mgr EXCEPT !.pc = "unparsed"])

\* fetch_matter_node_metadata of one device; there may be none.
FetchMetadata ==
    /\ Step("metadata") /\ Requesting
    /\ Goes([mgr EXCEPT !.pos = @ + 1])

Replace ==
    /\ Fetched /\ mgr' = Resting
    /\ published' = mgr.list
    /\ lists' = lists \cup {published'}
    /\ UNCHANGED <<cloud, complete, queued, caller, tools, corrupt, left>>

\* Faulty variant of Publish: the mutex is not taken.
PublishUnlocked == Replace

\* The former list is freed and replaced in one critical section.
Publish == mutex = Nil /\ Replace

-----------------------------------------------------------------------------
(* matter_controller_get_device_list, in a task of its own *)

ToolAt(t, pc)   == tool[t].pc = pc
Moves(t, next)  == tool' = [tool EXCEPT ![t] = next]
OnlyTool        == UNCHANGED <<cloud, complete, manager, caller, lists, left>>

ToolRequested(t) ==
    /\ ToolAt(t, "none")
    /\ Moves(t, [tool[t] EXCEPT !.pc = IF devList = Nil THEN "lock" ELSE "free"])
    /\ UNCHANGED <<mutex, devList, copy, corrupt>> /\ OnlyTool

\* The former copy is freed, unless another task has just set the pointer to
\* null; it may have been freed already.
FreeFormer(t) ==
    /\ ToolAt(t, "free")
    /\ IF devList = Nil THEN UNCHANGED <<copy, corrupt>>
       ELSE /\ corrupt' = (copy[devList].state = "freed")
            /\ copy' = [copy EXCEPT ![devList] = [list |-> << >>, state |-> "freed"]]
    /\ Moves(t, [tool[t] EXCEPT !.pc = "reset"])
    /\ UNCHANGED <<mutex, devList>> /\ OnlyTool

Reset(t) ==
    /\ ToolAt(t, "reset") /\ devList' = Nil
    /\ Moves(t, [tool[t] EXCEPT !.pc = "lock"])
    /\ UNCHANGED <<mutex, copy, corrupt>> /\ OnlyTool

\* fetch_device_list
Lock(t) ==
    /\ ToolAt(t, "lock") /\ mutex = Nil /\ mutex' = t
    /\ copy' = [copy EXCEPT ![t].state = "live"]
    /\ Moves(t, [tool[t] EXCEPT !.pc = "clone", !.pos = 1])
    /\ UNCHANGED <<devList, corrupt>> /\ OnlyTool

\* clone_dev_info: every copy is put in front of those before it.
Clone(t) ==
    /\ ToolAt(t, "clone") /\ tool[t].pos <= Len(published)
    /\ copy' = [copy EXCEPT ![t].list = <<published[tool[t].pos]>> \o @]
    /\ Moves(t, [tool[t] EXCEPT !.pos = @ + 1])
    /\ UNCHANGED <<mutex, devList, corrupt>> /\ OnlyTool

\* Faulty variant of CloneFails: it returns with the mutex held.
CloneFailsLocked(t) ==
    /\ ToolAt(t, "clone") /\ tool[t].pos <= Len(published)
    /\ copy' = [copy EXCEPT ![t] = [list |-> << >>, state |-> "none"]]
    /\ Moves(t, [tool[t] EXCEPT !.pc = "assign", !.pos = 0])
    /\ UNCHANGED <<mutex, devList, corrupt>> /\ OnlyTool

\* Without memory for the next copy the others are freed, and there is no list.
CloneFails(t) ==
    /\ ToolAt(t, "clone") /\ tool[t].pos <= Len(published)
    /\ copy' = [copy EXCEPT ![t] = [list |-> << >>, state |-> "none"]]
    /\ mutex' = Nil
    /\ Moves(t, [tool[t] EXCEPT !.pc = "assign", !.pos = 0])
    /\ UNCHANGED <<devList, corrupt>> /\ OnlyTool

Unlock(t) ==
    /\ ToolAt(t, "clone") /\ tool[t].pos > Len(published) /\ mutex' = Nil
    /\ Moves(t, [tool[t] EXCEPT !.pc = "assign", !.pos = 0])
    /\ UNCHANGED <<devList, copy, corrupt>> /\ OnlyTool

\* An empty list is a null pointer.
Assign(t) ==
    /\ ToolAt(t, "assign")
    /\ devList' = IF copy[t].list = << >> THEN Nil ELSE t
    /\ Moves(t, [tool[t] EXCEPT !.pc = "start"])
    /\ UNCHANGED <<mutex, copy, corrupt>> /\ OnlyTool

\* The walk starts at the list the pointer is at by now, whoever set it.
StartWalk(t) ==
    /\ ToolAt(t, "start")
    /\ Moves(t, [tool[t] EXCEPT !.pc = "walk", !.list = devList, !.pos = 1])
    /\ UNCHANGED <<mutex, devList, copy, corrupt>> /\ OnlyTool

Walking(t) == ToolAt(t, "walk") /\ tool[t].list # Nil
CopyFreed(t) == copy[tool[t].list].state = "freed"

\* A device with metadata goes into the answer.
WalkNext(t) ==
    /\ Walking(t) /\ ~CopyFreed(t)
    /\ LET list == copy[tool[t].list].list  pos == tool[t].pos IN
         /\ pos <= Len(list)
         /\ Moves(t, [tool[t] EXCEPT !.pos = @ + 1,
                                     !.answer = IF list[pos] \in Named THEN Append(@, list[pos]) ELSE @])
    /\ UNCHANGED <<mutex, devList, copy, corrupt>> /\ OnlyTool

WalkFreed(t) ==
    /\ Walking(t) /\ CopyFreed(t) /\ corrupt' = TRUE
    /\ UNCHANGED <<mutex, devList, copy, tool>> /\ OnlyTool

WalkEnds(t) ==
    /\ ToolAt(t, "walk")
    /\ tool[t].list # Nil => ~CopyFreed(t) /\ tool[t].pos > Len(copy[tool[t].list].list)
    /\ Moves(t, [tool[t] EXCEPT !.pc = "done", !.list = Nil, !.pos = 0])
    /\ UNCHANGED <<mutex, devList, copy, corrupt>> /\ OnlyTool

\* Without memory for the answer there is none.
AnswerFails(t) ==
    /\ tool[t].pc \in {"start", "walk"}
    /\ Moves(t, [pc |-> "done", list |-> Nil, pos |-> 0, answer |-> << >>])
    /\ UNCHANGED <<mutex, devList, copy, corrupt>> /\ OnlyTool

-----------------------------------------------------------------------------
DeviceManager ==
    \/ Take \/ Fails \/ UsesFreed
    \/ FetchSize \/ FetchList \/ FetchMetadata \/ Publish

ToolTask(t) ==
    \/ FreeFormer(t) \/ Reset(t)
    \/ Lock(t) \/ Clone(t) \/ CloneFails(t) \/ Unlock(t) \/ Assign(t)
    \/ StartWalk(t) \/ WalkNext(t) \/ WalkFreed(t) \/ WalkEnds(t) \/ AnswerFails(t)

Next ==
    /\ ~corrupt
    /\ \/ GroupChanges \/ HandleChanges
       \/ \E c \in Callers : UpdateDeviceList(c)
       \/ DeviceManager
       \/ \E t \in ToolTasks : ToolRequested(t) \/ ToolTask(t)

Spec == Init /\ [][Next]_vars

\* The tasks are scheduled, and a request to the cloud ends.
Fairness ==
    /\ WF_vars(~corrupt /\ DeviceManager)
    /\ WF_vars(~corrupt /\ \E c \in Callers : UpdateDeviceList(c))
    /\ \A t \in ToolTasks : WF_vars(~corrupt /\ ToolTask(t))

FairSpec == Spec /\ Fairness

-----------------------------------------------------------------------------
(* Properties *)

TypeOK ==
    /\ group \in Seq(Devices) /\ complete \in BOOLEAN
    /\ queued \in 0 .. QueueSize
    /\ caller \in [Callers -> {"calling", "returned"}]
    /\ mgr \in [pc : {"idle", "size", "list", "metadata", "unparsed"}, size : Nat,
                list : Seq(Devices), pos : Nat, freed : BOOLEAN]
    /\ mutex \in ToolTasks \cup {Nil} /\ devList \in ToolTasks \cup {Nil}
    /\ published \in Seq(Devices)
    /\ copy \in [ToolTasks -> [list : Seq(Devices), state : {"none", "live", "freed"}]]
    /\ tool \in [ToolTasks -> [pc : {"none", "free", "reset", "lock", "clone", "assign",
                                     "start", "walk", "done"},
                               list : ToolTasks \cup {Nil}, pos : Nat, answer : Seq(Devices)]]
    /\ corrupt \in BOOLEAN

\* The answer holds those of the first n devices of the list that have metadata,
\* each once, in the order of the list.
AreNamed(answer, list, n) ==
    \E place \in [DOMAIN answer -> 1 .. n] :
        /\ \A k \in DOMAIN answer : answer[k] = list[place[k]] /\ answer[k] \in Named
        /\ \A j, k \in DOMAIN answer : j < k => place[j] < place[k]
        /\ \A i \in 1 .. n : list[i] \in Named => \E k \in DOMAIN answer : place[k] = i

\* app_matter_device_manager.cpp:51 and :95: an answer is one whole list that was
\* published, in the order of the cloud's group, never a mixture or a part of
\* one, though the list is copied and read step by step while it is replaced and
\* while other tool tasks change the pointer to the copy.  (Without memory the
\* answer is empty.)
AnswersOneList ==
    \A t \in ToolTasks : ToolAt(t, "done") /\ ~corrupt =>
        tool[t].answer = << >> \/ \E list \in lists : AreNamed(tool[t].answer, Reverse(list), Len(list))

\* app_matter_device_manager.cpp:95: what a tool keeps of fetch_device_list is a
\* whole published list, in the order of the cloud's group, whoever follows the
\* pointer to it.
CopiesAreWhole ==
    \A t \in ToolTasks : copy[t].state = "live" /\ mutex # t =>
        \E list \in lists : copy[t].list = Reverse(list)

\* controller_rest_apis.h:130, "Fetch Matter device list in Matter Fabric": the
\* published list is the group as it was at one moment, in whole, or empty;
\* requests that fail midway and changes of the group between them never leave
\* a part of it.
PublishesOneGroup == published = << >> \/ Reverse(published) \in groups

\* update_device_list and the tool wait without a timeout, on the queue and on
\* the mutex: each call returns all the same.
CallsReturn ==
    []<>(~corrupt => /\ \A c \in Callers : caller[c] = "returned"
                     /\ \A t \in ToolTasks : tool[t].pc \in {"none", "done"})

-----------------------------------------------------------------------------
(* What the documentation says and the code does not do *)

\* controller_rest_apis.h:140, "@return ESP_OK on success" and "@return error in
\* case of failure": a list that could not be fetched does not replace the former.
FailedFetchReported == [][published' # published => mgr.pos > Len(mgr.list)]_vars

\* controller_rest_apis.h:136, "The access token to be passed in the
\* Authorization HTTP header": the strings of a request and the list a tool
\* walks are there while they are used.
NothingFreedIsUsed == ~corrupt

=============================================================================
