------------------------- MODULE DeviceListProofs -------------------------
(***************************************************************************)
(* Proofs about DeviceList, for every set of devices and tasks and every   *)
(* size of the queue: the types, that the published list is one group, and *)
(* that what a tool copies is one published list.                          *)
(***************************************************************************)
EXTENDS DeviceList, TLAPS

\* The histories hold what there is now.
HistoryInv ==
    /\ groups \subseteq Seq(Devices) /\ group \in groups
    /\ lists \subseteq Seq(Devices) /\ published \in lists

\* What a fetch holds is the whole list of one moment, or nothing.
FetchInv == IF mgr.pc = "metadata" THEN Reverse(mgr.list) \in groups ELSE mgr.list = << >>

\* The mutex is held by the tool task that copies, and by no other.
MutexInv == \A t \in ToolTasks : tool[t].pc = "clone" <=> mutex = t

\* The static pointer is at the copy of a task that has set it.
PointerInv == devList # Nil => tool[devList].pc \in {"start", "walk", "done"}

\* Before a task has the mutex it has no copy.
NoCopyInv ==
    \A t \in ToolTasks : tool[t].pc \in {"none", "free", "reset", "lock"} =>
        copy[t] = [list |-> << >>, state |-> "none"]

\* While a task copies, it has what is before pos in the published list, the
\* other way round.
IsCopied(list, pos) ==
    Len(list) = pos - 1 /\ \A i \in 1 .. pos - 1 : list[i] = published[pos - i]

CloneInv ==
    \A t \in ToolTasks : mutex = t =>
        /\ tool[t].pos \in 1 .. Len(published) + 1
        /\ IsCopied(copy[t].list, tool[t].pos)

ListInv == TypeOK /\ HistoryInv /\ FetchInv /\ MutexInv /\ PointerInv /\ NoCopyInv /\ CloneInv

-----------------------------------------------------------------------------
(* Sequences *)

LEMMA ReverseLemma ==
    ASSUME NEW S, NEW s \in Seq(S)
    PROVE  Reverse(s) \in Seq(S) /\ Reverse(Reverse(s)) = s
<1>1. Reverse(s) \in Seq(S) /\ Len(Reverse(s)) = Len(s)
  BY DEF Reverse
<1>2. \A i \in 1 .. Len(s) : Reverse(Reverse(s))[i] = s[i]
  BY <1>1 DEF Reverse
<1>3. Reverse(Reverse(s)) = [i \in 1 .. Len(s) |-> s[i]]
  BY <1>1, <1>2 DEF Reverse
<1> QED
  BY <1>1, <1>3

\* A change of the group leaves a sequence of devices.
LEMMA GroupLemma ==
    ASSUME NEW g \in Seq(Devices)
    PROVE  /\ \A d \in Devices : Append(g, d) \in Seq(Devices)
           /\ \A i \in DOMAIN g : RemoveAt(g, i) \in Seq(Devices)
<1>1. ASSUME NEW i \in DOMAIN g PROVE SubSeq(g, 1, i - 1) \in Seq(Devices) /\ SubSeq(g, i + 1, Len(g)) \in Seq(Devices)
  OBVIOUS
<1> QED
  BY <1>1 DEF RemoveAt

\* One more device is put in front of the copy.
LEMMA CloneLemma ==
    ASSUME published \in Seq(Devices), NEW old \in Seq(Devices), NEW pos \in 1 .. Len(published),
           IsCopied(old, pos)
    PROVE  LET new == <<published[pos]>> \o old
           IN  new \in Seq(Devices) /\ IsCopied(new, pos + 1)
<1> DEFINE new == <<published[pos]>> \o old
<1>1. Len(published) \in Nat /\ pos \in Nat /\ Len(old) = pos - 1
  BY DEF IsCopied
<1>2. <<published[pos]>> \in Seq(Devices) /\ Len(<<published[pos]>>) = 1 /\ <<published[pos]>>[1] = published[pos]
  OBVIOUS
<1>3. new \in Seq(Devices) /\ Len(new) = pos
  BY <1>1, <1>2
<1>4. \A i \in 1 .. pos : new[i] = published[pos + 1 - i]
  <2> TAKE i \in 1 .. pos
  <2>1. CASE i = 1
    BY <1>1, <1>2, <2>1
  <2>2. CASE i > 1
    <3>1. new[i] = old[i - 1]
      BY <1>1, <1>2, <2>2
    <3> QED
      BY <1>1, <2>2, <3>1 DEF IsCopied
  <2>3. i = 1 \/ i > 1
    BY <1>1
  <2> QED
    BY <2>1, <2>2, <2>3
<1>5. (pos + 1) - 1 = pos
  BY <1>1
<1> QED
  BY <1>3, <1>4, <1>5 DEF IsCopied

-----------------------------------------------------------------------------
(* The invariant *)

LEMMA ListInit == Init => ListInv
<1> SUFFICES ASSUME Init PROVE ListInv
  OBVIOUS
<1>1. <<Known>> \in Seq(Devices) /\ << >> \in Seq(Devices)
  BY NamesAssumption
<1>2. TypeOK
  <2>1. QueueSize \in Nat /\ 0 \in 0 .. QueueSize
    BY BoundAssumption
  <2>2. copy \in [ToolTasks -> [list : Seq(Devices), state : {"none", "live", "freed"}]]
    BY <1>1 DEF Init
  <2>3. tool \in [ToolTasks -> [pc : {"none", "free", "reset", "lock", "clone", "assign",
                                      "start", "walk", "done"},
                                list : ToolTasks \cup {Nil}, pos : Nat, answer : Seq(Devices)]]
    BY <1>1 DEF Init, Asleep
  <2>4. mgr \in [pc : {"idle", "size", "list", "metadata", "unparsed"}, size : Nat,
                 list : Seq(Devices), pos : Nat, freed : BOOLEAN]
    BY <1>1 DEF Init, Resting
  <2> QED
    BY <1>1, <2>1, <2>2, <2>3, <2>4, NamesAssumption DEF Init, TypeOK
<1>3. HistoryInv
  BY <1>1 DEF Init, HistoryInv
<1>4. FetchInv
  BY DEF Init, FetchInv, Resting
<1>5. MutexInv /\ PointerInv /\ NoCopyInv /\ CloneInv
  BY NamesAssumption DEF Init, MutexInv, PointerInv, NoCopyInv, CloneInv, IsCopied, Asleep
<1> QED
  BY <1>2, <1>3, <1>4, <1>5 DEF ListInv

-----------------------------------------------------------------------------
(* The steps of the surroundings and of the device manager's task *)

LEMMA GroupStep == ListInv /\ GroupChanges => ListInv'
<1> SUFFICES ASSUME ListInv, GroupChanges PROVE ListInv'
  OBVIOUS
<1>1. group' \in Seq(Devices)
  <2>1. group \in Seq(Devices)
    BY DEF ListInv, TypeOK
  <2>2. CASE \E d \in Devices : group' = Append(group, d)
    BY <2>1, <2>2, GroupLemma
  <2>3. CASE \E i \in DOMAIN group : group' = RemoveAt(group, i)
    BY <2>1, <2>3, GroupLemma
  <2> QED
    BY <2>2, <2>3 DEF GroupChanges
<1>2. TypeOK'
  BY <1>1 DEF ListInv, TypeOK, GroupChanges, manager, tools
<1>3. HistoryInv'
  BY <1>1 DEF ListInv, HistoryInv, GroupChanges, manager
<1>4. FetchInv'
  BY DEF ListInv, FetchInv, GroupChanges, manager
<1>5. (MutexInv /\ PointerInv /\ NoCopyInv /\ CloneInv)'
  BY DEF ListInv, MutexInv, PointerInv, NoCopyInv, CloneInv, IsCopied, GroupChanges, manager, tools
<1> QED
  BY <1>2, <1>3, <1>4, <1>5 DEF ListInv

\* Steps that leave the lists and the tool tasks alone.
LEMMA QuietStep ==
    ASSUME ListInv, complete' \in BOOLEAN, corrupt' \in BOOLEAN, queued' \in 0 .. QueueSize,
           caller' \in [Callers -> {"calling", "returned"}],
           mgr' \in [pc : {"idle", "size", "list", "metadata", "unparsed"}, size : Nat,
                     list : Seq(Devices), pos : Nat, freed : BOOLEAN],
           FetchInv', UNCHANGED <<cloud, published, lists, tools>>
    PROVE  ListInv'
<1>1. TypeOK'
  BY DEF ListInv, TypeOK, cloud, tools
<1>2. HistoryInv'
  BY DEF ListInv, HistoryInv, cloud
<1>3. (MutexInv /\ PointerInv /\ NoCopyInv /\ CloneInv)'
  BY DEF ListInv, MutexInv, PointerInv, NoCopyInv, CloneInv, IsCopied, tools
<1> QED
  BY <1>1, <1>2, <1>3 DEF ListInv

LEMMA HandleStep == ListInv /\ HandleChanges => ListInv'
<1> SUFFICES ASSUME ListInv, HandleChanges PROVE ListInv'
  OBVIOUS
<1>1. FetchInv'
  BY DEF ListInv, FetchInv, TypeOK, HandleChanges, cloud
<1> QED
  BY <1>1, QuietStep DEF ListInv, TypeOK, HandleChanges

LEMMA CallerStep == ASSUME ListInv, NEW c \in Callers, UpdateDeviceList(c) PROVE ListInv'
<1>1. FetchInv'
  BY DEF ListInv, FetchInv, UpdateDeviceList, cloud
<1>2. queued' \in 0 .. QueueSize
  BY BoundAssumption DEF ListInv, TypeOK, UpdateDeviceList
<1>3. caller' \in [Callers -> {"calling", "returned"}]
  BY DEF ListInv, TypeOK, UpdateDeviceList
<1> QED
  BY <1>1, <1>2, <1>3, QuietStep DEF ListInv, TypeOK, UpdateDeviceList

LEMMA TakeStep == ListInv /\ Take => ListInv'
<1> SUFFICES ASSUME ListInv, Take PROVE ListInv'
  OBVIOUS
<1>1. FetchInv'
  BY DEF ListInv, FetchInv, TypeOK, Take, cloud
<1>2. queued' \in 0 .. QueueSize
  BY BoundAssumption DEF ListInv, TypeOK, Take
<1>3. mgr' \in [pc : {"idle", "size", "list", "metadata", "unparsed"}, size : Nat,
                list : Seq(Devices), pos : Nat, freed : BOOLEAN]
  BY DEF ListInv, TypeOK, Take
<1> QED
  BY <1>1, <1>2, <1>3, QuietStep DEF ListInv, TypeOK, Take

LEMMA FetchStep ==
    ListInv /\ (Fails \/ UsesFreed \/ FetchSize \/ FetchList \/ FetchMetadata) => ListInv'
<1> DEFINE MgrType == [pc : {"idle", "size", "list", "metadata", "unparsed"}, size : Nat,
                       list : Seq(Devices), pos : Nat, freed : BOOLEAN]
<1> SUFFICES ASSUME ListInv, Fails \/ UsesFreed \/ FetchSize \/ FetchList \/ FetchMetadata
             PROVE  ListInv'
  OBVIOUS
<1>1. CASE Fails
  <2>1. mgr' \in MgrType /\ FetchInv'
    BY <1>1 DEF Fails, Goes, Resting, FetchInv
  <2> QED
    BY <1>1, <2>1, QuietStep DEF ListInv, TypeOK, Fails, Goes
<1>2. CASE UsesFreed
  <2>1. FetchInv'
    BY <1>2 DEF ListInv, UsesFreed, FetchInv, cloud, manager
  <2> QED
    BY <1>2, <2>1, QuietStep DEF ListInv, TypeOK, UsesFreed, manager
<1>3. CASE FetchSize
  <2>1. mgr' \in MgrType /\ FetchInv'
    <3>1. Len(group) \in Nat
      BY DEF ListInv, TypeOK
    <3> QED
      BY <1>3, <3>1 DEF ListInv, TypeOK, FetchInv, FetchSize, Step, Goes
  <2> QED
    BY <1>3, <2>1, QuietStep DEF ListInv, TypeOK, FetchSize, Goes
<1>4. CASE FetchList
  <2>1. Parsed \in Seq(Devices) /\ Reverse(Parsed) \in groups
    BY ReverseLemma DEF ListInv, TypeOK, HistoryInv, Parsed
  <2>2. mgr' \in MgrType /\ FetchInv'
    <3>1. CASE Goes([mgr EXCEPT !.pc = "metadata", !.list = Parsed, !.pos = 1])
      <4>1. mgr' \in MgrType /\ mgr'.pc = "metadata" /\ mgr'.list = Parsed
        BY <2>1, <3>1 DEF ListInv, TypeOK, Goes
      <4> QED
        BY <2>1, <3>1, <4>1 DEF FetchInv, Goes, cloud
    <3>2. CASE Goes([mgr EXCEPT !.pc = "unparsed"])
      BY <1>4, <3>2 DEF ListInv, TypeOK, FetchInv, FetchList, Step, Goes
    <3> QED
      BY <1>4, <3>1, <3>2 DEF FetchList
  <2> QED
    BY <1>4, <2>2, QuietStep DEF ListInv, TypeOK, FetchList, Goes
<1>5. CASE FetchMetadata
  <2>1. mgr.pc = "metadata" /\ mgr' = [mgr EXCEPT !.pos = @ + 1] /\ UNCHANGED groups
    BY <1>5 DEF FetchMetadata, Step, Goes, cloud
  <2>2. mgr' \in MgrType /\ mgr'.pc = "metadata" /\ mgr'.list = mgr.list
    <3>1. mgr \in MgrType
      BY DEF ListInv, TypeOK
    <3>2. mgr.pos + 1 \in Nat
      BY <3>1
    <3>3. mgr' = [mgr EXCEPT !.pos = mgr.pos + 1]
      BY <2>1
    <3> HIDE DEF ListInv
    <3> QED
      BY <2>1, <3>1, <3>2, <3>3
  <2>3. FetchInv'
    BY <2>1, <2>2 DEF ListInv, FetchInv
  <2> QED
    BY <1>5, <2>2, <2>3, QuietStep DEF ListInv, TypeOK, FetchMetadata, Goes
<1> QED
  BY <1>1, <1>2, <1>3, <1>4, <1>5

\* Nobody copies while the list is replaced.
LEMMA PublishStep == ListInv /\ Publish => ListInv'
<1> SUFFICES ASSUME ListInv, Publish PROVE ListInv'
  OBVIOUS
<1> USE DEF Publish, Replace
<1>1. mgr.list \in Seq(Devices)
  BY DEF ListInv, TypeOK
<1>2. TypeOK'
  BY <1>1 DEF ListInv, TypeOK, Resting, cloud, tools
<1>3. HistoryInv'
  BY <1>1 DEF ListInv, HistoryInv, cloud
<1>4. FetchInv'
  BY DEF FetchInv, Resting
<1>5. (MutexInv /\ PointerInv /\ NoCopyInv)'
  BY DEF ListInv, MutexInv, PointerInv, NoCopyInv, tools
<1>6. CloneInv'
  BY NamesAssumption DEF CloneInv, IsCopied, tools
<1> QED
  BY <1>2, <1>3, <1>4, <1>5, <1>6 DEF ListInv

-----------------------------------------------------------------------------
(* The steps of a tool task *)

ToolType == [pc : {"none", "free", "reset", "lock", "clone", "assign", "start", "walk", "done"},
             list : ToolTasks \cup {Nil}, pos : Nat, answer : Seq(Devices)]
CopyType == [list : Seq(Devices), state : {"none", "live", "freed"}]

\* What a step of a tool task must not disturb, said of the task alone: it stays
\* in the types, and the mutex, the pointer and the copies agree with its step.
LEMMA ToolStep ==
    ASSUME ListInv, NEW t \in ToolTasks, OnlyTool, corrupt' \in BOOLEAN,
           tool' = [tool EXCEPT ![t] = tool'[t]], tool'[t] \in ToolType,
           copy' \in [ToolTasks -> CopyType],
           mutex' \in ToolTasks \cup {Nil}, devList' \in ToolTasks \cup {Nil},
           MutexInv', PointerInv', NoCopyInv', CloneInv'
    PROVE  ListInv'
<1>1. tool' \in [ToolTasks -> ToolType]
  BY DEF ListInv, TypeOK, ToolType
<1>2. TypeOK'
  BY <1>1 DEF ListInv, TypeOK, OnlyTool, cloud, manager, ToolType, CopyType
<1>3. HistoryInv'
  BY DEF ListInv, HistoryInv, OnlyTool, cloud, manager
<1>4. FetchInv'
  BY DEF ListInv, FetchInv, OnlyTool, cloud, manager
<1> QED
  BY <1>2, <1>3, <1>4 DEF ListInv

\* The steps that only move the task, and neither begin nor end its copying.
LEMMA MoveStep ==
    ASSUME ListInv, NEW t \in ToolTasks, OnlyTool, corrupt' \in BOOLEAN,
           UNCHANGED <<mutex, devList, copy>>,
           NEW next \in ToolType, Moves(t, next), tool[t].pc # "clone", next.pc # "clone",
           next.pc \in {"none", "free", "reset", "lock"} => tool[t].pc \in {"none", "free", "reset", "lock"},
           tool[t].pc \in {"start", "walk", "done"} => next.pc \in {"start", "walk", "done"}
    PROVE  ListInv'
<1>1. tool \in [ToolTasks -> ToolType] /\ copy \in [ToolTasks -> CopyType]
  BY DEF ListInv, TypeOK, ToolType, CopyType
<1>2. tool'[t] = next /\ \A u \in ToolTasks : u # t => tool'[u] = tool[u]
  BY <1>1 DEF Moves
<1>3. MutexInv'
  BY <1>2 DEF ListInv, MutexInv
<1>4. PointerInv'
  BY <1>2 DEF ListInv, PointerInv, TypeOK
<1>5. NoCopyInv'
  BY <1>2 DEF ListInv, NoCopyInv
<1>6. CloneInv'
  <2>1. mutex # t
    BY DEF ListInv, MutexInv
  <2> QED
    BY <1>2, <2>1 DEF ListInv, CloneInv, IsCopied, OnlyTool, manager
<1>7. tool' = [tool EXCEPT ![t] = tool'[t]] /\ tool'[t] \in ToolType
  BY <1>2 DEF Moves
<1> QED
  BY <1>1, <1>3, <1>4, <1>5, <1>6, <1>7, ToolStep DEF ListInv, TypeOK

LEMMA WalkStep ==
    ASSUME ListInv, NEW t \in ToolTasks,
           ToolRequested(t) \/ StartWalk(t) \/ WalkNext(t) \/ WalkFreed(t) \/ WalkEnds(t) \/ AnswerFails(t)
    PROVE  ListInv'
<1>1. tool[t] \in ToolType /\ tool \in [ToolTasks -> ToolType] /\ corrupt \in BOOLEAN
  BY DEF ListInv, TypeOK, ToolType
<1>2. CASE ToolRequested(t)
  <2> DEFINE next == [tool[t] EXCEPT !.pc = IF devList = Nil THEN "lock" ELSE "free"]
  <2>1. next \in ToolType /\ next.pc \in {"lock", "free"} /\ tool[t].pc = "none"
    BY <1>1, <1>2 DEF ToolRequested, ToolAt, ToolType
  <2> QED
    BY <1>1, <1>2, <2>1, MoveStep DEF ToolRequested
<1>3. CASE StartWalk(t)
  <2> DEFINE next == [tool[t] EXCEPT !.pc = "walk", !.list = devList, !.pos = 1]
  <2>1. next \in ToolType /\ next.pc = "walk" /\ tool[t].pc = "start"
    BY <1>1, <1>3 DEF ListInv, TypeOK, StartWalk, ToolAt, ToolType
  <2> QED
    BY <1>1, <1>3, <2>1, MoveStep DEF StartWalk
<1>4. CASE WalkNext(t)
  <2>1. tool[t].list \in ToolTasks /\ tool[t].pc = "walk"
    BY <1>1, <1>4 DEF WalkNext, Walking, ToolAt, ToolType
  <2> DEFINE list == copy[tool[t].list].list
             pos == tool[t].pos
             answer == IF list[pos] \in Named THEN Append(tool[t].answer, list[pos]) ELSE tool[t].answer
             next == [tool[t] EXCEPT !.pos = pos + 1, !.answer = answer]
  <2>2. list[pos] \in Named => list[pos] \in Devices
    BY NamesAssumption
  <2>3. answer \in Seq(Devices) /\ pos + 1 \in Nat
    BY <1>1, <2>2 DEF ToolType
  <2>4. next \in ToolType /\ next.pc = "walk"
    <3> HIDE DEF answer
    <3> QED
      BY <1>1, <2>1, <2>3 DEF ToolType
  <2>5. Moves(t, next)
    BY <1>4 DEF WalkNext, Moves
  <2> QED
    BY <1>1, <1>4, <2>1, <2>4, <2>5, MoveStep DEF WalkNext
<1>5. CASE WalkFreed(t)
  <2>1. Moves(t, tool[t]) /\ tool[t].pc = "walk"
    BY <1>1, <1>5 DEF WalkFreed, Walking, ToolAt, Moves
  <2> QED
    BY <1>1, <1>5, <2>1, MoveStep DEF WalkFreed
<1>6. CASE WalkEnds(t)
  <2> DEFINE next == [tool[t] EXCEPT !.pc = "done", !.list = Nil, !.pos = 0]
  <2>1. next \in ToolType /\ next.pc = "done" /\ tool[t].pc = "walk"
    BY <1>1, <1>6 DEF WalkEnds, ToolAt, ToolType
  <2> QED
    BY <1>1, <1>6, <2>1, MoveStep DEF WalkEnds
<1>7. CASE AnswerFails(t)
  <2> DEFINE next == [pc |-> "done", list |-> Nil, pos |-> 0, answer |-> << >>]
  <2>1. next \in ToolType
    <3>1. << >> \in Seq(Devices)
      OBVIOUS
    <3> QED
      BY <3>1 DEF ToolType
  <2> QED
    BY <1>1, <1>7, <2>1, MoveStep DEF AnswerFails
<1> QED
  BY <1>2, <1>3, <1>4, <1>5, <1>6, <1>7

\* The former copy is not one that is being made.
LEMMA FormerStep == ASSUME ListInv, NEW t \in ToolTasks, FreeFormer(t) \/ Reset(t) PROVE ListInv'
<1>1. /\ tool[t] \in ToolType /\ tool \in [ToolTasks -> ToolType] /\ corrupt \in BOOLEAN
      /\ copy \in [ToolTasks -> CopyType]
      /\ mutex \in ToolTasks \cup {Nil} /\ devList \in ToolTasks \cup {Nil}
  BY DEF ListInv, TypeOK, ToolType, CopyType
<1>2. ASSUME NEW pc \in {"lock", "reset"}, tool[t].pc \in {"free", "reset"},
             Moves(t, [tool[t] EXCEPT !.pc = pc])
      PROVE  /\ tool' = [tool EXCEPT ![t] = tool'[t]] /\ tool'[t] \in ToolType
             /\ tool'[t].pc = pc /\ \A u \in ToolTasks : u # t => tool'[u] = tool[u]
  BY <1>1, <1>2 DEF Moves, ToolType
<1>3. CASE FreeFormer(t)
  <2>1. tool[t].pc = "free" /\ UNCHANGED <<mutex, devList, published>> /\ OnlyTool
    BY <1>3 DEF FreeFormer, ToolAt, OnlyTool, manager
  <2>2. /\ tool' = [tool EXCEPT ![t] = tool'[t]] /\ tool'[t] \in ToolType
        /\ tool'[t].pc = "reset" /\ \A u \in ToolTasks : u # t => tool'[u] = tool[u]
    BY <1>2, <1>3, <2>1 DEF FreeFormer
  <2>3. copy' \in [ToolTasks -> CopyType] /\ corrupt' \in BOOLEAN
    <3>1. [list |-> << >>, state |-> "freed"] \in CopyType
      <4>1. << >> \in Seq(Devices)
        OBVIOUS
      <4> QED
        BY <4>1 DEF CopyType
    <3> QED
      BY <1>1, <1>3, <3>1 DEF FreeFormer
  <2>4. \A u \in ToolTasks : u # devList => copy'[u] = copy[u]
    BY <1>1, <1>3 DEF FreeFormer
  <2>5. MutexInv'
    BY <2>1, <2>2 DEF ListInv, MutexInv
  <2>6. PointerInv'
    <3> SUFFICES ASSUME devList # Nil PROVE tool'[devList].pc \in {"start", "walk", "done"}
      BY <2>1 DEF PointerInv
    <3>1. devList \in ToolTasks /\ tool[devList].pc \in {"start", "walk", "done"}
      BY <1>1 DEF ListInv, PointerInv
    <3>2. devList # t
      BY <2>1, <3>1
    <3> QED
      BY <2>2, <3>1, <3>2
  <2>7. NoCopyInv'
    <3> SUFFICES ASSUME NEW u \in ToolTasks, tool'[u].pc \in {"none", "free", "reset", "lock"}
                 PROVE  copy'[u] = [list |-> << >>, state |-> "none"]
      BY DEF NoCopyInv
    <3>1. tool[u].pc \in {"none", "free", "reset", "lock"}
      BY <2>1, <2>2
    <3>2. u # devList
      BY NamesAssumption, <3>1 DEF ListInv, PointerInv
    <3> QED
      BY <2>4, <3>1, <3>2 DEF ListInv, NoCopyInv
  <2>8. CloneInv'
    <3> SUFFICES ASSUME NEW u \in ToolTasks, mutex = u
                 PROVE  tool'[u] = tool[u] /\ copy'[u] = copy[u]
      BY <2>1 DEF ListInv, CloneInv, IsCopied
    <3>1. tool[u].pc = "clone"
      BY DEF ListInv, MutexInv
    <3>2. u # t
      BY <2>1, <3>1
    <3>3. u # devList
      BY NamesAssumption, <3>1 DEF ListInv, PointerInv
    <3> QED
      BY <2>2, <2>4, <3>2, <3>3
  <2> QED
    BY <1>1, <2>1, <2>2, <2>3, <2>5, <2>6, <2>7, <2>8, ToolStep
<1>4. CASE Reset(t)
  <2>1. tool[t].pc = "reset" /\ devList' = Nil /\ UNCHANGED <<mutex, copy, corrupt, published>> /\ OnlyTool
    BY <1>4 DEF Reset, ToolAt, OnlyTool, manager
  <2>2. /\ tool' = [tool EXCEPT ![t] = tool'[t]] /\ tool'[t] \in ToolType
        /\ tool'[t].pc = "lock" /\ \A u \in ToolTasks : u # t => tool'[u] = tool[u]
    BY <1>2, <1>4, <2>1 DEF Reset
  <2>3. MutexInv' /\ PointerInv'
    BY <2>1, <2>2 DEF ListInv, MutexInv, PointerInv
  <2>4. NoCopyInv'
    BY <2>1, <2>2 DEF ListInv, NoCopyInv
  <2>5. CloneInv'
    <3>1. mutex # t
      BY <2>1 DEF ListInv, MutexInv
    <3> QED
      BY <2>1, <2>2, <3>1 DEF ListInv, CloneInv, IsCopied
  <2> QED
    BY <1>1, <2>1, <2>2, <2>3, <2>4, <2>5, ToolStep
<1> QED
  BY <1>3, <1>4

\* What every step of a copying task does: it touches its own copy only.
LEMMA CopyStep ==
    ASSUME ListInv, NEW t \in ToolTasks, OnlyTool, corrupt' \in BOOLEAN,
           NEW pc \in {"clone", "assign"}, NEW pos \in Nat, NEW copied \in CopyType,
           tool[t].pc \in {"lock", "clone"},
           mutex = Nil \/ mutex = t,
           Moves(t, [tool[t] EXCEPT !.pc = pc, !.pos = pos]),
           copy' = [copy EXCEPT ![t] = copied],
           mutex' = IF pc = "clone" THEN t ELSE Nil, devList' = devList,
           pc = "clone" => /\ pos \in 1 .. Len(published) + 1
                           /\ IsCopied(copied.list, pos)
    PROVE  ListInv'
<1>1. /\ tool[t] \in ToolType /\ tool \in [ToolTasks -> ToolType] /\ copy \in [ToolTasks -> CopyType]
      /\ devList \in ToolTasks \cup {Nil}
  BY DEF ListInv, TypeOK, ToolType, CopyType
<1>2. /\ tool' = [tool EXCEPT ![t] = tool'[t]] /\ tool'[t] \in ToolType
      /\ tool'[t].pc = pc /\ tool'[t].pos = pos
      /\ \A u \in ToolTasks : u # t => tool'[u] = tool[u]
  BY <1>1 DEF Moves, ToolType
<1>3. copy' \in [ToolTasks -> CopyType] /\ copy'[t] = copied /\ \A u \in ToolTasks : u # t => copy'[u] = copy[u]
  BY <1>1
<1>4. MutexInv'
  BY <1>2, NamesAssumption DEF ListInv, MutexInv
<1>5. PointerInv'
  <2>1. devList # t
    BY NamesAssumption DEF ListInv, PointerInv
  <2> QED
    BY <1>1, <1>2, <2>1 DEF ListInv, PointerInv
<1>6. NoCopyInv'
  BY <1>2, <1>3 DEF ListInv, NoCopyInv
<1>7. CloneInv'
  <2> SUFFICES ASSUME NEW u \in ToolTasks, mutex' = u
               PROVE  /\ tool'[u].pos \in 1 .. Len(published) + 1
                      /\ IsCopied(copy'[u].list, tool'[u].pos)
    BY DEF CloneInv, IsCopied, OnlyTool, manager
  <2>1. pc = "clone" /\ u = t
    BY NamesAssumption
  <2> QED
    BY <1>2, <1>3, <2>1
<1>8. mutex' \in ToolTasks \cup {Nil}
  OBVIOUS
<1> QED
  BY <1>1, <1>2, <1>3, <1>4, <1>5, <1>6, <1>7, <1>8, ToolStep

LEMMA CopyingStep ==
    ASSUME ListInv, NEW t \in ToolTasks, Lock(t) \/ Clone(t) \/ CloneFails(t) \/ Unlock(t)
    PROVE  ListInv'
<1>1. /\ tool[t] \in ToolType /\ copy \in [ToolTasks -> CopyType] /\ corrupt \in BOOLEAN
      /\ published \in Seq(Devices) /\ Len(published) \in Nat
  BY DEF ListInv, TypeOK, ToolType, CopyType
<1>2. << >> \in Seq(Devices)
  OBVIOUS
<1>3. CASE Lock(t)
  <2> DEFINE copied == [copy[t] EXCEPT !.state = "live"]
  <2>1. tool[t].pc = "lock" /\ copy[t].list = << >>
    BY <1>3 DEF ListInv, NoCopyInv, Lock, ToolAt
  <2>2. copied \in CopyType /\ IsCopied(copied.list, 1)
    BY <1>1, <1>2, <2>1 DEF CopyType, IsCopied
  <2>3. copy' = [copy EXCEPT ![t] = copied]
    BY <1>3 DEF Lock
  <2>4. 1 \in Nat /\ 1 \in 1 .. Len(published) + 1
    BY <1>1
  <2>5. mutex = Nil /\ mutex' = t /\ devList' = devList /\ OnlyTool /\ UNCHANGED corrupt
    BY <1>3 DEF Lock
  <2>6. Moves(t, [tool[t] EXCEPT !.pc = "clone", !.pos = 1])
    BY <1>3 DEF Lock
  <2> HIDE DEF copied
  <2> QED
    BY <1>1, <2>1, <2>2, <2>3, <2>4, <2>5, <2>6, CopyStep
<1>4. ASSUME Clone(t) \/ CloneFails(t) \/ Unlock(t) PROVE tool[t].pc = "clone" /\ mutex = t
  BY <1>4 DEF ListInv, MutexInv, Clone, CloneFails, Unlock, ToolAt
<1>5. CASE Clone(t)
  <2> DEFINE pos == tool[t].pos
  <2>1. pos \in 1 .. Len(published) /\ pos + 1 \in 1 .. Len(published) + 1 /\ pos + 1 \in Nat
    <3>1. pos \in 1 .. Len(published) + 1
      BY <1>4, <1>5 DEF ListInv, CloneInv, IsCopied
    <3>2. pos <= Len(published)
      BY <1>5 DEF Clone
    <3> HIDE DEF pos
    <3> QED
      BY <1>1, <3>1, <3>2
  <2>2. IsCopied(copy[t].list, pos) /\ copy[t].list \in Seq(Devices)
    BY <1>1, <1>4, <1>5 DEF ListInv, CloneInv, IsCopied, CopyType
  <2> DEFINE new == <<published[pos]>> \o copy[t].list
             copied == [copy[t] EXCEPT !.list = new]
  <2>3. new \in Seq(Devices) /\ IsCopied(new, pos + 1)
    BY <1>1, <2>1, <2>2, CloneLemma
  <2>4. copied \in CopyType /\ copied.list = new
    <3> HIDE DEF new
    <3> QED
      BY <1>1, <2>3 DEF CopyType
  <2>5. Moves(t, [tool[t] EXCEPT !.pc = "clone", !.pos = pos + 1])
    <3>1. [tool[t] EXCEPT !.pos = pos + 1] = [tool[t] EXCEPT !.pc = "clone", !.pos = pos + 1]
      BY <1>1, <1>4, <1>5 DEF ToolType
    <3> QED
      BY <1>5, <3>1 DEF Clone, Moves
  <2>6. copy' = [copy EXCEPT ![t] = copied]
    BY <1>5 DEF Clone
  <2>7. mutex = t /\ mutex' = t /\ devList' = devList /\ OnlyTool /\ corrupt' \in BOOLEAN
    BY <1>1, <1>4, <1>5 DEF Clone
  <2> HIDE DEF copied, pos, new
  <2> QED
    BY <1>4, <1>5, <2>1, <2>3, <2>4, <2>5, <2>6, <2>7, CopyStep
<1>6. CASE CloneFails(t)
  <2> DEFINE copied == [list |-> << >>, state |-> "none"]
  <2>1. copied \in CopyType
    BY <1>2 DEF CopyType
  <2> QED
    BY <1>1, <1>4, <1>6, <2>1, CopyStep DEF CloneFails
<1>7. CASE Unlock(t)
  <2>1. copy' = [copy EXCEPT ![t] = copy[t]] /\ copy[t] \in CopyType
    BY <1>1, <1>7 DEF Unlock
  <2> QED
    BY <1>1, <1>4, <1>7, <2>1, CopyStep DEF Unlock
<1> QED
  BY <1>3, <1>5, <1>6, <1>7

LEMMA AssignStep == ASSUME ListInv, NEW t \in ToolTasks, Assign(t) PROVE ListInv'
<1>1. /\ tool[t] \in ToolType /\ tool \in [ToolTasks -> ToolType] /\ corrupt \in BOOLEAN
      /\ copy \in [ToolTasks -> CopyType] /\ mutex \in ToolTasks \cup {Nil}
  BY DEF ListInv, TypeOK, ToolType, CopyType
<1>2. tool[t].pc = "assign" /\ devList' \in {t, Nil} /\ UNCHANGED <<mutex, copy, corrupt, published>> /\ OnlyTool
  BY DEF Assign, ToolAt, OnlyTool, manager
<1>3. /\ tool' = [tool EXCEPT ![t] = tool'[t]] /\ tool'[t] \in ToolType
      /\ tool'[t].pc = "start" /\ \A u \in ToolTasks : u # t => tool'[u] = tool[u]
  BY <1>1 DEF Assign, Moves, ToolType
<1>4. MutexInv' /\ PointerInv' /\ NoCopyInv'
  BY <1>2, <1>3 DEF ListInv, MutexInv, PointerInv, NoCopyInv
<1>5. CloneInv'
  <2>1. mutex # t
    BY <1>2 DEF ListInv, MutexInv
  <2> QED
    BY <1>2, <1>3, <2>1 DEF ListInv, CloneInv, IsCopied
<1> QED
  BY <1>1, <1>2, <1>3, <1>4, <1>5, ToolStep

-----------------------------------------------------------------------------
(* The theorems *)

LEMMA ListStep == ListInv /\ [Next]_vars => ListInv'
<1> SUFFICES ASSUME ListInv, [Next]_vars PROVE ListInv'
  OBVIOUS
<1>1. CASE Next
  <2>1. CASE GroupChanges \/ HandleChanges \/ DeviceManager
    BY <2>1, GroupStep, HandleStep, TakeStep, FetchStep, PublishStep DEF DeviceManager
  <2>2. CASE \E c \in Callers : UpdateDeviceList(c)
    BY <2>2, CallerStep
  <2>3. CASE \E t \in ToolTasks : ToolRequested(t) \/ ToolTask(t)
    BY <2>3, WalkStep, FormerStep, CopyingStep, AssignStep DEF ToolTask
  <2> QED
    BY <1>1, <2>1, <2>2, <2>3 DEF Next
<1>2. CASE UNCHANGED vars
  BY <1>2 DEF vars, cloud, manager, tools, ListInv, TypeOK, HistoryInv, FetchInv, MutexInv,
              PointerInv, NoCopyInv, CloneInv, IsCopied
<1> QED
  BY <1>1, <1>2

LEMMA ListInvariant == Spec => []ListInv
BY ListInit, ListStep, PTL DEF Spec

\* The types hold for every size of the queue: an update is never put into a
\* full queue, whoever calls.
THEOREM ListTypeCorrect == Spec => []TypeOK
<1>1. ListInv => TypeOK
  BY DEF ListInv
<1> QED
  BY <1>1, ListInvariant, PTL

\* The published list is the group of one moment in whole, or empty, for every
\* number of devices, of changes, and of failures in between: only a list that
\* was parsed to its end and asked of each device is published.
THEOREM OneGroupTheorem == Spec => []PublishesOneGroup
<1>1. Init => PublishesOneGroup
  <2>1. Reverse(<<Known>>) = <<Known>>
    BY DEF Reverse
  <2> QED
    BY <2>1 DEF Init, PublishesOneGroup
<1>2. ListInv /\ PublishesOneGroup /\ [Next]_vars => PublishesOneGroup'
  <2> SUFFICES ASSUME ListInv, PublishesOneGroup, [Next]_vars PROVE PublishesOneGroup'
    OBVIOUS
  <2>1. CASE Publish
    <3>1. published' = mgr.list /\ UNCHANGED groups
      BY <2>1 DEF Publish, Replace, cloud
    <3>2. mgr.list = << >> \/ Reverse(mgr.list) \in groups
      BY DEF ListInv, FetchInv
    <3> QED
      BY <3>1, <3>2 DEF PublishesOneGroup
  <2>2. CASE GroupChanges
    BY <2>2 DEF GroupChanges, PublishesOneGroup, manager
  <2>3. CASE HandleChanges \/ (\E c \in Callers : UpdateDeviceList(c)) \/ Take \/ Fails \/ UsesFreed
             \/ FetchSize \/ FetchList \/ FetchMetadata
    BY <2>3 DEF HandleChanges, UpdateDeviceList, Take, Fails, UsesFreed, FetchSize, FetchList,
                FetchMetadata, Goes, PublishesOneGroup, cloud, manager
  <2>4. ASSUME NEW t \in ToolTasks, ToolRequested(t) \/ ToolTask(t) PROVE PublishesOneGroup'
    <3>1. OnlyTool
      BY <2>4 DEF ToolTask, ToolRequested, FreeFormer, Reset, Lock, Clone, CloneFails, Unlock, Assign,
                  StartWalk, WalkNext, WalkFreed, WalkEnds, AnswerFails
    <3> QED
      BY <3>1 DEF OnlyTool, PublishesOneGroup, cloud, manager
  <2>5. CASE UNCHANGED vars
    BY <2>5 DEF vars, PublishesOneGroup, cloud, manager
  <2> QED
    BY <2>1, <2>2, <2>3, <2>4, <2>5 DEF Next, DeviceManager
<1> QED
  BY <1>1, <1>2, ListInvariant, PTL DEF Spec

\* A finished copy is one whole published list, however often the list is
\* replaced and whoever else copies it meanwhile.
THEOREM CopiesTheorem == Spec => []CopiesAreWhole
<1>1. Init => CopiesAreWhole
  <2>1. Reverse(<<Known>>) = <<Known>>
    BY DEF Reverse
  <2> QED
    BY <2>1 DEF Init, CopiesAreWhole
<1>2. ListInv /\ CopiesAreWhole /\ [Next]_vars => CopiesAreWhole'
  <2> SUFFICES ASSUME ListInv, CopiesAreWhole, [Next]_vars,
                      NEW t \in ToolTasks, copy'[t].state = "live", mutex' # t
               PROVE  \E list \in lists' : copy'[t].list = Reverse(list)
    BY DEF CopiesAreWhole
  <2>1. lists \subseteq lists'
    BY DEF Next, GroupChanges, HandleChanges, UpdateDeviceList, DeviceManager, Take, Fails, UsesFreed,
           FetchSize, FetchList, FetchMetadata, Goes, Publish, Replace, ToolRequested, ToolTask, FreeFormer,
           Reset, Lock, Clone, CloneFails, Unlock, Assign, StartWalk, WalkNext, WalkFreed, WalkEnds,
           AnswerFails, OnlyTool, vars
  <2>2. CASE copy'[t] = copy[t] /\ mutex # t
    BY <2>1, <2>2 DEF CopiesAreWhole
  <2>3. CASE Unlock(t)
    <3>1. IsCopied(copy[t].list, tool[t].pos) /\ tool[t].pos \in 1 .. Len(published) + 1
      BY <2>3 DEF ListInv, CloneInv, MutexInv, Unlock, ToolAt
    <3>2. Len(published) \in Nat /\ tool[t].pos > Len(published) /\ copy[t].list \in Seq(Devices)
      BY <2>3 DEF ListInv, TypeOK, Unlock
    <3>3. Len(copy[t].list) = Len(published)
          /\ \A i \in 1 .. Len(published) : copy[t].list[i] = published[Len(published) - i + 1]
      BY <3>1, <3>2 DEF IsCopied
    <3>4. copy[t].list = Reverse(published)
      BY <3>2, <3>3 DEF Reverse
    <3>5. copy'[t] = copy[t] /\ published \in lists
      BY <2>3 DEF ListInv, HistoryInv, Unlock
    <3> QED
      BY <2>1, <3>4, <3>5
  <2>4. CASE GroupChanges \/ HandleChanges \/ (\E c \in Callers : UpdateDeviceList(c)) \/ DeviceManager
             \/ UNCHANGED vars
    <3>1. UNCHANGED tools
      BY <2>4 DEF GroupChanges, HandleChanges, UpdateDeviceList, DeviceManager, Take, Fails, UsesFreed,
                  FetchSize, FetchList, FetchMetadata, Goes, Publish, Replace, vars
    <3> QED
      BY <2>2, <3>1 DEF tools
  <2>5. ASSUME NEW u \in ToolTasks, ToolRequested(u) \/ ToolTask(u)
        PROVE  (copy'[t] = copy[t] /\ mutex # t) \/ Unlock(t)
    <3>1. copy \in [ToolTasks -> [list : Seq(Devices), state : {"none", "live", "freed"}]]
          /\ devList \in ToolTasks \cup {Nil}
      BY DEF ListInv, TypeOK
    <3>2. CASE UNCHANGED <<copy, mutex>>
      BY <3>2
    <3>3. CASE FreeFormer(u)
      BY <3>1, <3>3 DEF FreeFormer
    <3>4. CASE Lock(u) \/ Clone(u)
      <4>1. mutex' = u /\ mutex \in {Nil, u}
        BY <3>4 DEF ListInv, MutexInv, Lock, Clone, ToolAt
      <4> QED
        BY <3>1, <3>4, <4>1, NamesAssumption DEF Lock, Clone
    <3>5. CASE CloneFails(u) \/ Unlock(u)
      <4>1. mutex = u
        BY <3>5 DEF ListInv, MutexInv, CloneFails, Unlock, ToolAt
      <4>2. CASE u = t
        <5>1. CASE CloneFails(t)
          <6>1. copy'[t].state = "none"
            BY <3>1, <5>1 DEF CloneFails
          <6> QED
            BY <6>1
        <5> QED
          BY <3>5, <4>2, <5>1
      <4>3. CASE u # t
        BY <3>1, <3>5, <4>1, <4>3 DEF CloneFails, Unlock
      <4> QED
        BY <4>2, <4>3
    <3> QED
      BY <2>5, <3>2, <3>3, <3>4, <3>5
         DEF ToolTask, ToolRequested, Reset, Assign, StartWalk, WalkNext, WalkFreed, WalkEnds, AnswerFails
  <2> QED
    BY <2>2, <2>3, <2>4, <2>5 DEF Next
<1> QED
  BY <1>1, <1>2, ListInvariant, PTL DEF Spec


-----------------------------------------------------------------------------
(* The answers *)

\* A task that has set the pointer has made its copy, and leaves it alone.
Settled == {"start", "walk", "done"}

\* A task walks such a copy, and as long as that is not freed its answer holds
\* those of the devices before pos that have metadata.
WalkInv ==
    \A t \in ToolTasks :
        /\ tool[t].pc \notin {"walk", "done"} => tool[t].answer = << >>
        /\ tool[t].pc = "walk" =>
             IF tool[t].list = Nil THEN tool[t].answer = << >>
             ELSE /\ tool[tool[t].list].pc \in Settled
                  /\ copy[tool[t].list].state # "freed" =>
                       /\ tool[t].pos \in 1 .. Len(copy[tool[t].list].list) + 1
                       /\ AreNamed(tool[t].answer, copy[tool[t].list].list, tool[t].pos - 1)

\* A copy is there from its first device on; there is nothing in one that is not.
PresentInv ==
    \A t \in ToolTasks :
        /\ tool[t].pc = "clone" => copy[t].state = "live"
        /\ copy[t].state # "live" => copy[t].list = << >>

LEMMA NoneNamed == ASSUME NEW list PROVE AreNamed(<< >>, list, 0)
<1>1. DOMAIN << >> = {}
  OBVIOUS
<1> DEFINE place == [k \in {} |-> 1]
<1>2. place \in [DOMAIN << >> -> 1 .. 0]
  BY <1>1
<1>3. \A i : i \notin 1 .. 0
  OBVIOUS
<1> QED
  BY <1>1, <1>2, <1>3 DEF AreNamed

LEMMA NamedOfNone ==
    ASSUME NEW answer \in Seq(Devices), NEW list, AreNamed(answer, list, 0)
    PROVE  answer = << >>
<1>1. PICK place \in [DOMAIN answer -> 1 .. 0] : TRUE
  BY DEF AreNamed
<1>2. \A k \in 1 .. Len(answer) : place[k] \in 1 .. 0
  <2>1. DOMAIN answer = 1 .. Len(answer)
    OBVIOUS
  <2> QED
    BY <2>1
<1>3. \A i : i \notin 1 .. 0
  OBVIOUS
<1>4. Len(answer) = 0
  BY <1>2, <1>3
<1> QED
  BY <1>4

\* The answer follows the walk by one device.
LEMMA NamedStep ==
    ASSUME NEW answer \in Seq(Devices), NEW list \in Seq(Devices), NEW n \in Nat, n < Len(list),
           AreNamed(answer, list, n)
    PROVE  AreNamed(IF list[n + 1] \in Named THEN Append(answer, list[n + 1]) ELSE answer, list, n + 1)
<1>1. PICK place \in [DOMAIN answer -> 1 .. n] :
        /\ \A k \in DOMAIN answer : answer[k] = list[place[k]] /\ answer[k] \in Named
        /\ \A j, k \in DOMAIN answer : j < k => place[j] < place[k]
        /\ \A i \in 1 .. n : list[i] \in Named => \E k \in DOMAIN answer : place[k] = i
  BY DEF AreNamed
<1>2. DOMAIN answer = 1 .. Len(answer) /\ Len(answer) \in Nat
  OBVIOUS
<1>3. \A i \in 1 .. n + 1 : i \in 1 .. n \/ i = n + 1
  OBVIOUS
<1>4. CASE list[n + 1] \notin Named
  <2>1. place \in [DOMAIN answer -> 1 .. n + 1]
    BY <1>1
  <2>2. \A i \in 1 .. n + 1 : list[i] \in Named => \E k \in DOMAIN answer : place[k] = i
    BY <1>1, <1>3, <1>4
  <2> QED
    BY <1>1, <1>4, <2>1, <2>2 DEF AreNamed
<1>5. CASE list[n + 1] \in Named
  <2> DEFINE new == Append(answer, list[n + 1])
             last == Len(answer) + 1
             put == [k \in 1 .. last |-> IF k = last THEN n + 1 ELSE place[k]]
  <2>1. /\ DOMAIN new = 1 .. last /\ new[last] = list[n + 1]
        /\ \A k \in 1 .. Len(answer) : new[k] = answer[k] /\ k < last
    BY <1>2
  <2>2. \A k \in 1 .. last : k = last \/ k \in 1 .. Len(answer)
    BY <1>2
  <2>3. put[last] = n + 1 /\ \A k \in 1 .. Len(answer) : put[k] = place[k] /\ place[k] \in 1 .. n
    BY <1>1, <1>2
  <2>4. put \in [1 .. last -> 1 .. n + 1]
    BY <1>1, <1>2, <2>2
  <2> HIDE DEF new, last, put
  <2>5. \A k \in 1 .. last : new[k] = list[put[k]] /\ new[k] \in Named
    BY <1>1, <1>2, <1>5, <2>1, <2>2, <2>3
  <2>6. ASSUME NEW j \in 1 .. last, NEW k \in 1 .. last, j < k PROVE put[j] < put[k]
    <3>1. j \in 1 .. Len(answer)
      BY <2>2, <2>6 DEF last
    <3>2. CASE k = last
      BY <2>3, <3>1, <3>2
    <3>3. CASE k \in 1 .. Len(answer)
      BY <1>1, <1>2, <2>3, <2>6, <3>1, <3>3
    <3> QED
      BY <2>2, <3>2, <3>3
  <2>7. \A i \in 1 .. n + 1 : list[i] \in Named => \E k \in 1 .. last : put[k] = i
    <3> TAKE i \in 1 .. n + 1
    <3> HAVE list[i] \in Named
    <3>1. last \in 1 .. last /\ \A k \in 1 .. Len(answer) : k \in 1 .. last
      BY <1>2 DEF last
    <3>2. CASE i = n + 1
      BY <2>3, <3>1, <3>2
    <3>3. CASE i \in 1 .. n
      BY <1>1, <1>2, <2>3, <3>1, <3>3
    <3> QED
      BY <1>3, <3>2, <3>3
  <2>8. AreNamed(new, list, n + 1)
    <3> DEFINE all == DOMAIN new
    <3>1. all = 1 .. last
      BY <2>1
    <3> HIDE DEF all
    <3>2. put \in [all -> 1 .. n + 1]
      BY <2>4, <3>1
    <3>3. \A k \in all : new[k] = list[put[k]] /\ new[k] \in Named
      BY <2>5, <3>1
    <3>4. \A j, k \in all : j < k => put[j] < put[k]
      BY <2>6, <3>1
    <3>5. \A i \in 1 .. n + 1 : list[i] \in Named => \E k \in all : put[k] = i
      BY <2>7, <3>1
    <3> QED
      BY <3>2, <3>3, <3>4, <3>5, Zenon DEF AreNamed, all
  <2> QED
    BY <1>5, <2>8 DEF new
<1> QED
  BY <1>4, <1>5

\* What a step of one tool task does to the copies and to the other tasks.
LEMMA ToolEffect ==
    ASSUME ListInv, PresentInv, NEW u \in ToolTasks, ToolRequested(u) \/ ToolTask(u)
    PROVE  /\ OnlyTool /\ \A t \in ToolTasks : t # u => tool'[t] = tool[t]
           /\ tool[u].pc \in Settled => tool'[u].pc \in Settled
           /\ \A t \in ToolTasks : tool[t].pc \in Settled => copy'[t] = copy[t] \/ copy'[t].state = "freed"
           /\ PresentInv'
<1>1. /\ tool \in [ToolTasks -> ToolType] /\ tool[u] \in ToolType /\ copy \in [ToolTasks -> CopyType]
      /\ devList \in ToolTasks \cup {Nil}
  BY DEF ListInv, TypeOK, ToolType, CopyType
<1>2. OnlyTool /\ \A t \in ToolTasks : t # u => tool'[t] = tool[t]
  BY <1>1 DEF Moves, ToolTask, ToolRequested, FreeFormer, Reset, Lock, Clone, CloneFails, Unlock, Assign, StartWalk,
              WalkNext,
         WalkFreed, WalkEnds, AnswerFails
<1>3. CASE ToolRequested(u) \/ Reset(u) \/ Assign(u) \/ Unlock(u)
  <2>1. UNCHANGED copy /\ tool[u].pc \notin Settled /\ tool'[u].pc # "clone"
    BY <1>1, <1>3 DEF ToolRequested, Reset, Assign, Unlock, ToolAt, Moves, ToolType, Settled
  <2> QED
    BY <1>2, <2>1 DEF PresentInv
<1>4. CASE StartWalk(u) \/ WalkNext(u) \/ WalkFreed(u) \/ WalkEnds(u) \/ AnswerFails(u)
  <2>1. UNCHANGED copy /\ tool'[u].pc \in {"walk", "done"}
    <3>1. CASE StartWalk(u)
      BY <1>1, <3>1 DEF StartWalk, Moves, ToolType
    <3>2. CASE WalkNext(u)
      BY <1>1, <3>2 DEF WalkNext, Walking, ToolAt, Moves, ToolType
    <3>3. CASE WalkFreed(u)
      BY <3>3 DEF WalkFreed, Walking, ToolAt
    <3>4. CASE WalkEnds(u)
      BY <1>1, <3>4 DEF WalkEnds, Moves, ToolType
    <3>5. CASE AnswerFails(u)
      BY <1>1, <3>5 DEF AnswerFails, Moves
    <3> QED
      BY <1>4, <3>1, <3>2, <3>3, <3>4, <3>5
  <2> QED
    BY <1>2, <2>1 DEF PresentInv, Settled
<1>5. CASE FreeFormer(u)
  <2>1. tool[u].pc \notin Settled /\ tool'[u].pc = "reset"
    BY <1>1, <1>5 DEF FreeFormer, ToolAt, Moves, ToolType, Settled
  <2>2. CASE UNCHANGED copy
    BY <1>2, <2>1, <2>2 DEF PresentInv
  <2>3. CASE devList # Nil /\ copy' = [copy EXCEPT ![devList] = [list |-> << >>, state |-> "freed"]]
    <3>1. /\ copy'[devList].list = << >> /\ copy'[devList].state = "freed" /\ tool[devList].pc \in Settled
          /\ \A t \in ToolTasks : t # devList => copy'[t] = copy[t]
      BY <1>1, <2>3 DEF ListInv, PointerInv, Settled
    <3> QED
      BY <1>2, <2>1, <3>1 DEF PresentInv, Settled
  <2> QED
    BY <1>5, <2>2, <2>3 DEF FreeFormer
<1>6. CASE Lock(u) \/ Clone(u) \/ CloneFails(u)
  <2>1. /\ tool[u].pc \in {"lock", "clone"} /\ tool'[u].pc \in {"clone", "assign"}
        /\ \A t \in ToolTasks : t # u => copy'[t] = copy[t]
    <3>1. CASE Lock(u)
      BY <1>1, <3>1 DEF Lock, ToolAt, Moves, ToolType
    <3>2. CASE Clone(u)
      BY <1>1, <3>2 DEF Clone, ToolAt, Moves, ToolType
    <3>3. CASE CloneFails(u)
      BY <1>1, <3>3 DEF CloneFails, ToolAt, Moves, ToolType
    <3> QED
      BY <1>6, <3>1, <3>2, <3>3
  <2>2. CASE Lock(u) \/ Clone(u)
    <3>1. copy'[u].state = "live"
      BY <1>1, <2>2 DEF Lock, Clone, ToolAt, PresentInv, CopyType
    <3> QED
      BY <1>2, <2>1, <3>1 DEF PresentInv, Settled
  <2>3. CASE CloneFails(u)
    <3>1. copy'[u].list = << >> /\ copy'[u].state = "none" /\ tool'[u].pc = "assign"
      BY <1>1, <2>3 DEF CloneFails, Moves, ToolType
    <3> QED
      BY <1>2, <2>1, <3>1 DEF PresentInv, Settled
  <2> QED
    BY <1>6, <2>2, <2>3
<1> QED
  BY <1>2, <1>3, <1>4, <1>5, <1>6 DEF ToolTask

LEMMA AnswerStep ==
    ASSUME ListInv, PresentInv, WalkInv, NEW u \in ToolTasks, ToolRequested(u) \/ ToolTask(u)
    PROVE  WalkInv'
<1>1. /\ tool \in [ToolTasks -> ToolType] /\ tool[u] \in ToolType /\ copy \in [ToolTasks -> CopyType]
      /\ devList \in ToolTasks \cup {Nil}
  BY DEF ListInv, TypeOK, ToolType, CopyType
<1>2. /\ \A t \in ToolTasks : t # u => tool'[t] = tool[t]
      /\ \A t \in ToolTasks : tool[t].pc \in Settled => tool'[t].pc \in Settled
      /\ \A t \in ToolTasks : tool[t].pc \in Settled => copy'[t] = copy[t] \/ copy'[t].state = "freed"
  BY ToolEffect
<1> DEFINE Good(t) ==
      /\ tool[t].pc \notin {"walk", "done"} => tool[t].answer = << >>
      /\ tool[t].pc = "walk" =>
           IF tool[t].list = Nil THEN tool[t].answer = << >>
           ELSE /\ tool[tool[t].list].pc \in Settled
                /\ copy[tool[t].list].state # "freed" =>
                     /\ tool[t].pos \in 1 .. Len(copy[tool[t].list].list) + 1
                     /\ AreNamed(tool[t].answer, copy[tool[t].list].list, tool[t].pos - 1)
<1>3. ASSUME NEW t \in ToolTasks, tool'[t] = tool[t] PROVE Good(t)'
  <2>1. Good(t) /\ tool[t].list \in ToolTasks \cup {Nil}
    BY <1>1 DEF WalkInv, ToolType
  <2>2. CASE tool[t].pc # "walk" \/ tool[t].list = Nil
    BY <1>3, <2>1, <2>2
  <2>3. CASE tool[t].pc = "walk" /\ tool[t].list # Nil
    <3> DEFINE w == tool[t].list
    <3>1. w \in ToolTasks /\ tool'[w].pc \in Settled /\ (copy'[w] = copy[w] \/ copy'[w].state = "freed")
      BY <1>2, <2>1, <2>3
    <3> QED
      BY <1>3, <2>1, <2>3, <3>1
  <2> QED
    BY <2>2, <2>3
<1>4. Good(u)'
  <2>1. Good(u)
    BY DEF WalkInv
  <2>2. CASE ToolRequested(u) \/ FreeFormer(u) \/ Reset(u) \/ Lock(u) \/ Clone(u) \/ CloneFails(u) \/ Unlock(u)
             \/ Assign(u)
    <3>1. tool[u].pc \notin {"walk", "done"}
      BY <2>2 DEF ToolRequested, FreeFormer, Reset, Lock, Clone, CloneFails, Unlock, Assign, ToolAt
    <3>2. tool'[u].pc \notin {"walk", "done"} /\ tool'[u].answer = tool[u].answer
      <4>1. CASE ToolRequested(u)
        BY <1>1, <4>1 DEF ToolRequested, ToolAt, Moves, ToolType
      <4>2. CASE FreeFormer(u)
        BY <1>1, <4>2 DEF FreeFormer, ToolAt, Moves, ToolType
      <4>3. CASE Reset(u)
        BY <1>1, <4>3 DEF Reset, ToolAt, Moves, ToolType
      <4>4. CASE Lock(u)
        BY <1>1, <4>4 DEF Lock, ToolAt, Moves, ToolType
      <4>5. CASE Clone(u)
        BY <1>1, <4>5 DEF Clone, ToolAt, Moves, ToolType
      <4>6. CASE CloneFails(u)
        BY <1>1, <4>6 DEF CloneFails, ToolAt, Moves, ToolType
      <4>7. CASE Unlock(u)
        BY <1>1, <4>7 DEF Unlock, ToolAt, Moves, ToolType
      <4>8. CASE Assign(u)
        BY <1>1, <4>8 DEF Assign, ToolAt, Moves, ToolType
      <4> QED
        BY <2>2, <4>1, <4>2, <4>3, <4>4, <4>5, <4>6, <4>7, <4>8
    <3> QED
      BY <2>1, <3>1, <3>2
  <2>3. CASE StartWalk(u)
    <3>1. /\ tool'[u].pc = "walk" /\ tool'[u].list = devList /\ tool'[u].pos = 1 /\ tool'[u].answer = << >>
          /\ UNCHANGED copy
      BY <1>1, <2>1, <2>3 DEF StartWalk, ToolAt, Moves, ToolType
    <3>2. CASE devList = Nil
      BY <3>1, <3>2
    <3>3. CASE devList # Nil
      <4>1. devList \in ToolTasks /\ tool[devList].pc \in Settled
        BY <1>1, <3>3 DEF ListInv, PointerInv, Settled
      <4>2. 1 \in 1 .. Len(copy[devList].list) + 1
        BY <1>1, <4>1 DEF CopyType
      <4>3. AreNamed(<< >>, copy[devList].list, 1 - 1)
        BY NoneNamed
      <4> QED
        BY <1>2, <3>1, <3>3, <4>1, <4>2, <4>3
    <3> QED
      BY <3>2, <3>3
  <2>4. CASE WalkNext(u)
    <3> DEFINE w == tool[u].list
               list == copy[w].list
               pos == tool[u].pos
               answer == IF list[pos] \in Named THEN Append(tool[u].answer, list[pos]) ELSE tool[u].answer
    <3>1. /\ tool[u].pc = "walk" /\ w # Nil /\ copy[w].state # "freed" /\ pos <= Len(list) /\ UNCHANGED copy
          /\ Moves(u, [tool[u] EXCEPT !.pos = pos + 1, !.answer = answer])
      BY <2>4 DEF WalkNext, Walking, ToolAt, CopyFreed
    <3>2. w \in ToolTasks /\ list \in Seq(Devices) /\ tool[u].answer \in Seq(Devices) /\ pos \in Nat
      BY <1>1, <3>1 DEF ToolType, CopyType
    <3> HIDE DEF answer
    <3>3. /\ tool'[u].pc = "walk" /\ tool'[u].list = w /\ tool'[u].pos = pos + 1 /\ tool'[u].answer = answer
      BY <1>1, <3>1 DEF Moves, ToolType
    <3>4. pos \in 1 .. Len(list) + 1 /\ AreNamed(tool[u].answer, list, pos - 1) /\ tool[w].pc \in Settled
      BY <2>1, <3>1
    <3>5. pos - 1 \in Nat /\ pos - 1 < Len(list) /\ (pos - 1) + 1 = pos /\ (pos + 1) - 1 = pos
          /\ pos + 1 \in 1 .. Len(list) + 1
      BY <3>1, <3>2, <3>4
    <3>6. AreNamed(answer, list, pos)
      <4> HIDE DEF list, pos
      <4> QED
        BY <3>2, <3>4, <3>5, NamedStep DEF answer
    <3> QED
      BY <1>2, <3>1, <3>2, <3>3, <3>4, <3>5, <3>6
  <2>5. CASE WalkFreed(u)
    BY <1>3, <2>5 DEF WalkFreed
  <2>6. CASE WalkEnds(u) \/ AnswerFails(u)
    <3>1. tool'[u].pc = "done"
      <4>1. CASE WalkEnds(u)
        BY <1>1, <4>1 DEF WalkEnds, Moves, ToolType
      <4>2. CASE AnswerFails(u)
        BY <1>1, <4>2 DEF AnswerFails, Moves
      <4> QED
        BY <2>6, <4>1, <4>2
    <3> QED
      BY <3>1
  <2> QED
    BY <2>2, <2>3, <2>4, <2>5, <2>6 DEF ToolTask
<1>5. \A t \in ToolTasks : Good(t)'
  BY <1>2, <1>3, <1>4
<1> QED
  BY <1>5 DEF WalkInv

\* The surroundings and the device manager's task leave the tools alone.
LEMMA OtherSteps ==
    ASSUME GroupChanges \/ HandleChanges \/ (\E c \in Callers : UpdateDeviceList(c)) \/ DeviceManager
    PROVE  UNCHANGED <<copy, tool, mutex>> /\ lists \subseteq lists'
  BY DEF GroupChanges, HandleChanges, UpdateDeviceList, DeviceManager, Take, Fails, UsesFreed, FetchSize, FetchList,
         FetchMetadata, Goes, Publish, Replace, tools

LEMMA AnswerInvInit == Init => WalkInv /\ PresentInv /\ AnswersOneList
<1> SUFFICES ASSUME Init PROVE WalkInv /\ PresentInv /\ AnswersOneList
  OBVIOUS
<1>1. WalkInv /\ PresentInv
  BY DEF Init, Asleep, WalkInv, PresentInv
<1>2. AreNamed(<<Known>>, Reverse(<<Known>>), Len(<<Known>>))
  <2>1. DOMAIN <<Known>> = {1} /\ <<Known>>[1] = Known /\ Len(<<Known>>) = 1 /\ Known \in Named /\ 1 .. 1 = {1}
    BY NamesAssumption
  <2> DEFINE place == [k \in {1} |-> 1]
  <2>2. place \in [{1} -> {1}] /\ place[1] = 1
    OBVIOUS
  <2> HIDE DEF place
  <2>3. AreNamed(<<Known>>, <<Known>>, 1)
    BY <2>1, <2>2 DEF AreNamed
  <2>4. Reverse(<<Known>>) = <<Known>>
    BY DEF Reverse
  <2> QED
    BY <2>1, <2>3, <2>4
<1>3. AnswersOneList
  BY <1>2 DEF Init, Asleep, ToolAt, AnswersOneList
<1> QED
  BY <1>1, <1>3

\* The answer of a walk that has come to the end of its copy.
LEMMA WholeAnswer ==
    ASSUME ListInv, CopiesAreWhole, PresentInv, WalkInv, NEW t \in ToolTasks, WalkEnds(t)
    PROVE  tool[t].answer = << >> \/ \E list \in lists : AreNamed(tool[t].answer, Reverse(list), Len(list))
<1> DEFINE w == tool[t].list
           answer == tool[t].answer
<1>1. tool[t].pc = "walk" /\ w \in ToolTasks \cup {Nil} /\ answer \in Seq(Devices)
  BY DEF WalkEnds, ToolAt, ListInv, TypeOK
<1>2. CASE w = Nil
  BY <1>1, <1>2 DEF WalkInv
<1>3. CASE w # Nil
  <2>1. w \in ToolTasks /\ copy[w].state # "freed" /\ tool[t].pos > Len(copy[w].list)
    BY <1>1, <1>3 DEF WalkEnds, CopyFreed
  <2>2. /\ tool[w].pc \in Settled /\ tool[t].pos \in 1 .. Len(copy[w].list) + 1
        /\ AreNamed(answer, copy[w].list, tool[t].pos - 1)
    BY <1>1, <1>3, <2>1 DEF WalkInv
  <2>3. copy[w].list \in Seq(Devices)
    BY <2>1 DEF ListInv, TypeOK
  <2>4. tool[t].pos - 1 = Len(copy[w].list)
    BY <2>1, <2>2, <2>3
  <2>5. AreNamed(answer, copy[w].list, Len(copy[w].list))
    BY <2>2, <2>4
  <2>6. CASE copy[w].state = "live"
    <3>1. mutex # w
      BY <2>1, <2>2 DEF ListInv, MutexInv, Settled
    <3>2. PICK list \in lists : copy[w].list = Reverse(list)
      BY <2>1, <2>6, <3>1 DEF CopiesAreWhole
    <3>3. list \in Seq(Devices) /\ Len(Reverse(list)) = Len(list)
      BY DEF ListInv, HistoryInv, Reverse
    <3> QED
      BY <2>5, <3>2, <3>3
  <2>7. CASE copy[w].state # "live"
    <3>1. copy[w].list = << >> /\ Len(<< >>) = 0
      BY <2>1, <2>7 DEF PresentInv
    <3>2. AreNamed(answer, << >>, 0)
      BY <2>5, <3>1
    <3> QED
      BY <1>1, <3>2, NamedOfNone
  <2> QED
    BY <2>6, <2>7
<1> QED
  BY <1>2, <1>3

LEMMA AnswersStep ==
    ASSUME ListInv, CopiesAreWhole, PresentInv, WalkInv, AnswersOneList, [Next]_vars
    PROVE  WalkInv' /\ PresentInv' /\ AnswersOneList'
<1>1. CASE UNCHANGED <<copy, tool, mutex>> /\ lists \subseteq lists' /\ (corrupt => corrupt')
  BY <1>1 DEF WalkInv, PresentInv, AnswersOneList, ToolAt
<1>2. ASSUME Next, NEW u \in ToolTasks, ToolRequested(u) \/ ToolTask(u)
      PROVE  WalkInv' /\ PresentInv' /\ AnswersOneList'
  <2>1. /\ lists' = lists /\ PresentInv' /\ WalkInv'
        /\ \A t \in ToolTasks : t # u => tool'[t] = tool[t]
    BY <1>2, ToolEffect, AnswerStep DEF OnlyTool
  <2> SUFFICES ASSUME NEW t \in ToolTasks, tool'[t].pc = "done"
               PROVE  tool'[t].answer = << >> \/
                      \E list \in lists' : AreNamed(tool'[t].answer, Reverse(list), Len(list))
    BY <2>1 DEF AnswersOneList, ToolAt
  <2>2. CASE tool'[t] = tool[t]
    BY <1>2, <2>1, <2>2 DEF AnswersOneList, ToolAt, Next
  <2>3. CASE tool'[t] # tool[t]
    <3>1. t = u /\ tool[t] \in ToolType /\ tool \in [ToolTasks -> ToolType]
      BY <2>1, <2>3 DEF ListInv, TypeOK, ToolType
    <3>2. CASE WalkEnds(t)
      <4>1. tool'[t].answer = tool[t].answer
        BY <3>1, <3>2 DEF WalkEnds, Moves, ToolType
      <4> QED
        BY <2>1, <3>2, <4>1, WholeAnswer
    <3>3. CASE AnswerFails(t)
      BY <3>1, <3>3 DEF AnswerFails, Moves
    <3>4. CASE ToolRequested(t)
      BY <3>1, <3>4 DEF ToolRequested, ToolAt, Moves, ToolType
    <3>5. CASE FreeFormer(t)
      BY <3>1, <3>5 DEF FreeFormer, ToolAt, Moves, ToolType
    <3>6. CASE Reset(t)
      BY <3>1, <3>6 DEF Reset, ToolAt, Moves, ToolType
    <3>7. CASE Lock(t)
      BY <3>1, <3>7 DEF Lock, ToolAt, Moves, ToolType
    <3>8. CASE Clone(t)
      BY <3>1, <3>8 DEF Clone, ToolAt, Moves, ToolType
    <3>9. CASE CloneFails(t)
      BY <3>1, <3>9 DEF CloneFails, ToolAt, Moves, ToolType
    <3>10. CASE Unlock(t)
      BY <3>1, <3>10 DEF Unlock, ToolAt, Moves, ToolType
    <3>11. CASE Assign(t)
      BY <3>1, <3>11 DEF Assign, ToolAt, Moves, ToolType
    <3>12. CASE StartWalk(t)
      BY <3>1, <3>12 DEF StartWalk, ToolAt, Moves, ToolType
    <3>13. CASE WalkNext(t)
      BY <3>1, <3>13 DEF WalkNext, Walking, ToolAt, Moves, ToolType
    <3>14. CASE WalkFreed(t)
      BY <2>3, <3>14 DEF WalkFreed
    <3> QED
      BY <1>2, <3>1, <3>2, <3>3, <3>4, <3>5, <3>6, <3>7, <3>8, <3>9, <3>10, <3>11, <3>12, <3>13, <3>14
         DEF ToolTask
  <2> QED
    BY <2>2, <2>3
<1>3. CASE Next /\ ~\E u \in ToolTasks : ToolRequested(u) \/ ToolTask(u)
  BY <1>1, <1>3, OtherSteps DEF Next
<1>4. CASE UNCHANGED vars
  BY <1>1, <1>4 DEF vars, tools
<1> QED
  BY <1>2, <1>3, <1>4

\* An answer names those devices of one whole published list that have metadata,
\* in the order of the cloud's group, whatever the list, the pointer and the
\* copies go through while the tool walks (app_controller_tool_cb.cpp:18).
THEOREM AnswersTheorem == Spec => []AnswersOneList
<1>1. Init => WalkInv /\ PresentInv /\ AnswersOneList
  BY AnswerInvInit
<1>2. ListInv /\ CopiesAreWhole /\ (WalkInv /\ PresentInv /\ AnswersOneList) /\ [Next]_vars
      => (WalkInv /\ PresentInv /\ AnswersOneList)'
  BY AnswersStep
<1> QED
  BY <1>1, <1>2, ListInvariant, CopiesTheorem, PTL DEF Spec
=============================================================================
