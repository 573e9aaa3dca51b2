------------------------ MODULE MatterControllerProofs ------------------------
(***************************************************************************)
(* Proofs about MatterController for every value of its constants.         *)
(*                                                                         *)
(*  - MatterTypeCorrect: TypeOK is an invariant.                           *)
(*  - ChainTheorem: ChainMatches is an invariant, for any number of        *)
(*    updates at the same time, from ChainInv.                             *)
(*  - HandleTheorem: HandleConsistent is an invariant, from HandleInv.     *)
(***************************************************************************)
EXTENDS MatterController, TLAPS

USE TasksAssumption, NullAssumption, QueueAssumption

-----------------------------------------------------------------------------
(* Type correctness *)

\* What the request of a task at a step carries.
Fits(label, request) ==
    /\ label = "authorize" => request.token \in Tokens
    /\ label \in {"fabric", "rcac", "create"} => request.group \in Groups
    /\ label \in {"create", "issue", "storeKey", "storeNoc"} => request.key \in Keys
    /\ label \in {"storeKey", "storeNoc"} => request.node \in Groups

\* A task that goes to a step with a request that fits it keeps CallsOK.
LEMMA GotoTyped ==
    ASSUME CallsOK, NEW t \in Tasks, NEW label \in Steps, NEW request \in Args,
           Fits(label, request), Goto(t, label, request)
    PROVE  CallsOK'
  BY DEF CallsOK, Goto, Fits

\* The two requests the updates are built from.
LEMMA NoArgTyped == NoArg \in Args
  BY DEF NoArg, Args, AccessVals

LEMMA RequestTyped ==
    ASSUME HandleOK
    PROVE  /\ Request \in Args
           /\ Request.group = groupId /\ Request.token = accessToken
           /\ Request.key = NULL /\ Request.node = NULL
  BY DEF HandleOK, Request, NoArg, Args, AccessVals

\* Going on with the same request, to a step that asks for nothing, or returning.
LEMMA StepTyped ==
    ASSUME CallsOK, NEW t \in Tasks,
           NEW label \in Steps \ {"authorize", "fabric", "rcac", "create", "issue", "storeKey", "storeNoc"},
           Step(t, label) \/ Goto(t, label, NoArg) \/ Return(t)
    PROVE  CallsOK'
<1>1. "idle" \in Steps
  BY DEF Steps
<1>2. arg[t] \in Args
  BY DEF CallsOK
<1>3. \A l \in {label, "idle"}, r \in Args : Fits(l, r)
  BY <1>1 DEF Fits
<1> QED BY <1>1, <1>2, <1>3, GotoTyped, NoArgTyped DEF Step, Return

LEMMA EnterTyped == ASSUME CallsOK, NEW t \in Tasks, Enter(t) \/ Abandon(t) PROVE CallsOK'
<1>1. "update" \in Steps
  BY DEF Steps
<1>2. CASE Enter(t)
  BY <1>1, <1>2 DEF CallsOK, Enter, Begin
<1>3. CASE Abandon(t)
  BY <1>3 DEF CallsOK, Abandon, Begin
<1> QED BY <1>2, <1>3

LEMMA QueueTyped ==
    ASSUME deviceQueue \in 0..DeviceQueueSize, UpdateDeviceList
    PROVE  deviceQueue' \in 0..DeviceQueueSize
  BY DEF UpdateDeviceList

\* The set-up returns: the calls stay typed, the lock is free.
LEMMA SetupReturnsTyped ==
    ASSUME CallsOK, NEW t \in Tasks, NEW ok \in BOOLEAN, SetupReturns(t, ok)
    PROVE  CallsOK' /\ controllerSetup' = TRUE /\ chipLock' = NULL
<1>1. "report" \in Steps
  BY DEF Steps
<1> QED BY <1>1, StepTyped DEF SetupReturns

\* Writes of parameters, commands and the starts of updates.
LEMMA StartTyped == ASSUME TypeOK, Start PROVE TypeOK'
<1> USE DEF TypeOK, params, ids, storage, stack, rest
<1>1. ASSUME NEW url \in BOOLEAN, WriteBaseUrl(url), "writer" \in Tasks PROVE TypeOK'
  BY <1>1, EnterTyped DEF WriteBaseUrl, HandleOK, StorageOK, AccessVals
<1>2. ASSUME NEW token \in Tokens \cup {NULL}, WriteUserToken(token), "writer" \in Tasks PROVE TypeOK'
  BY <1>2, EnterTyped DEF WriteUserToken, HandleOK, StorageOK, AccessVals
<1>3. ASSUME NEW group \in Groups \cup {NULL}, WriteGroupId(group), "writer" \in Tasks PROVE TypeOK'
  BY <1>3, EnterTyped DEF WriteGroupId, HandleOK, StorageOK
<1>4. ASSUME CommandUpdateNoc, "writer" \in Tasks PROVE TypeOK'
  BY <1>4, EnterTyped DEF CommandUpdateNoc, HandleOK, StorageOK
<1>5. ASSUME CommandUpdateDeviceList, "writer" \in Tasks PROVE TypeOK'
  BY <1>5, EnterTyped, QueueTyped DEF CommandUpdateDeviceList, HandleOK, StorageOK
<1>6. ASSUME GotIp, "loop" \in Tasks PROVE TypeOK'
  BY <1>6, EnterTyped DEF GotIp, HandleOK, StorageOK
<1>7. ASSUME Renew, "timer" \in Tasks PROVE TypeOK'
  BY <1>7, EnterTyped DEF Renew, HandleOK, StorageOK, AccessVals
<1>8. ASSUME NEW token \in Tokens \cup {NULL}, WriteUserTokenFails(token), "writer" \in Tasks PROVE TypeOK'
  BY <1>8, EnterTyped DEF WriteUserTokenFails, HandleOK, StorageOK, Left
<1>9. ASSUME NEW group \in Groups \cup {NULL}, WriteGroupIdFails(group), "writer" \in Tasks PROVE TypeOK'
  BY <1>9, EnterTyped DEF WriteGroupIdFails, HandleOK, StorageOK, Left
<1>10. ASSUME NEW url \in BOOLEAN, WriteBaseUrlFails(url), "writer" \in Tasks PROVE TypeOK'
  <2>1. CallsOK'
    BY <1>10, EnterTyped DEF WriteBaseUrlFails
  <2>2. HandleOK'
    BY <1>10 DEF WriteBaseUrlFails, HandleOK, AccessVals, Left
  <2> QED BY <1>10, <2>1, <2>2 DEF WriteBaseUrlFails, StorageOK
<1> QED BY <1>1, <1>2, <1>3, <1>4, <1>5, <1>6, <1>7, <1>8, <1>9, <1>10 DEF Start, Write

\* The steps of an update before the set-up of the controller.
LEMMA UpdateTyped ==
    ASSUME TypeOK, NEW t \in Tasks,
           \/ UpdateBegin(t) \/ Authorized(t) \/ AuthorizeFails(t) \/ AuthorizeRejected(t)
           \/ FabricCheck(t) \/ FabricFetched(t) \/ FetchFails(t)
    PROVE  TypeOK'
<1> USE DEF TypeOK, params, ids, storage, stack, rest
<1>1. CASE UpdateBegin(t)
  <2>1. CASE baseUrl /\ userToken # NULL /\ accessToken = NULL
    <3> DEFINE request == [NoArg EXCEPT !.token = userToken]
    <3>1. request \in Args /\ request.token \in Tokens /\ Fits("authorize", request)
      BY <2>1 DEF HandleOK, NoArg, Args, AccessVals, Fits
    <3>2. Goto(t, "authorize", request)
      BY <1>1, <2>1 DEF UpdateBegin
    <3>3. CallsOK'
      BY <3>1, <3>2, GotoTyped DEF Steps
    <3> QED BY <1>1, <2>1, <3>3 DEF UpdateBegin, HandleOK, StorageOK, AccessVals
  <2>2. CASE ~(baseUrl /\ userToken # NULL /\ accessToken = NULL)
    BY <1>1, <2>2, StepTyped DEF UpdateBegin, HandleOK, StorageOK, Steps
  <2> QED BY <2>1, <2>2
<1>2. CASE Authorized(t)
  <2>1. arg[t].token \in Tokens
    BY <1>2 DEF Authorized, CallsOK
  <2>2. CallsOK'
    BY <1>2, StepTyped DEF Authorized, Steps
  <2>3. renewing' \in BOOLEAN /\ accessToken' \in AccessVals
    BY <1>2, <2>1 DEF Authorized, HandleOK, StorageOK, AccessVals
  <2> QED BY <1>2, <2>2, <2>3 DEF Authorized, HandleOK, StorageOK
<1>3. CASE AuthorizeFails(t) \/ AuthorizeRejected(t)
  <2>1. CallsOK'
    BY <1>3, StepTyped DEF AuthorizeFails, AuthorizeRejected, Steps
  <2> QED BY <1>3, <2>1 DEF AuthorizeFails, AuthorizeRejected, HandleOK, StorageOK, AccessVals
<1>4. CASE FabricCheck(t)
  <2>1. CASE baseUrl /\ accessToken # NULL /\ groupId # NULL /\ fabricId = NULL
    <3>1. Fits("fabric", Request)
      BY <2>1, RequestTyped DEF Fits, HandleOK
    <3>2. CallsOK'
      BY <1>4, <2>1, <3>1, RequestTyped, GotoTyped DEF FabricCheck, Steps
    <3> QED BY <1>4, <3>2 DEF FabricCheck, HandleOK, StorageOK
  <2>2. CASE ~(baseUrl /\ accessToken # NULL /\ groupId # NULL /\ fabricId = NULL)
    BY <1>4, <2>2, StepTyped DEF FabricCheck, HandleOK, StorageOK, Steps
  <2> QED BY <2>1, <2>2
<1>5. CASE FabricFetched(t)
  <2>1. arg[t].group \in Groups
    BY <1>5 DEF FabricFetched, CallsOK
  <2>2. CallsOK'
    BY <1>5, StepTyped DEF FabricFetched, Steps
  <2> QED BY <1>5, <2>1, <2>2 DEF FabricFetched, HandleOK, StorageOK
<1>6. CASE FetchFails(t)
  <2>1. CallsOK'
    BY <1>6, StepTyped DEF FetchFails, Steps
  <2> QED BY <1>6, <2>1 DEF FetchFails, HandleOK, StorageOK
<1> QED BY <1>1, <1>2, <1>3, <1>4, <1>5, <1>6

\* The set-up up to the root certificate, and the report.
LEMMA SetupTyped ==
    ASSUME TypeOK, NEW t \in Tasks,
           \/ SetupCheck(t) \/ SetupController(t) \/ IpkFetched(t) \/ LockStack(t)
           \/ RcacCheck(t) \/ RcacFetched(t)
           \/ Report(t)
    PROVE  TypeOK'
<1> USE DEF TypeOK, params, ids, storage, stack, rest
<1>1. CASE SetupController(t)
  <2>1. deviceQueue' \in 0..DeviceQueueSize
    BY <1>1, QueueTyped DEF SetupController, StorageOK
  <2>2. CallsOK'
    <3>1. CASE Goto(t, "ipk", Request)
      BY <3>1, RequestTyped, GotoTyped DEF Steps, Fits
    <3>2. CASE Step(t, "report") \/ Step(t, "lock") \/ Return(t)
      BY <3>2, StepTyped DEF Steps
    <3> QED BY <1>1, <3>1, <3>2 DEF SetupController, IpkBegin
  <2> QED BY <1>1, <2>1, <2>2 DEF SetupController, HandleOK, StorageOK
<1>7. CASE SetupCheck(t)
  <2>1. CASE Step(t, "setup") \/ Step(t, "report")
    <3>1. CallsOK'
      BY <2>1, StepTyped DEF Steps
    <3> QED BY <1>7, <3>1 DEF SetupCheck, HandleOK, StorageOK
  <2> QED BY <1>7, <2>1 DEF SetupCheck
<1>2. CASE IpkFetched(t)
  <2>1. CallsOK'
    BY <1>2, StepTyped DEF IpkFetched, Steps
  <2> QED BY <1>2, <2>1 DEF IpkFetched, HandleOK, StorageOK
<1>3. CASE LockStack(t)
  <2>1. CallsOK'
    BY <1>3, StepTyped DEF LockStack, Steps
  <2> QED BY <1>3, <2>1 DEF LockStack, HandleOK, StorageOK
<1>4. CASE RcacCheck(t)
  <2>1. CallsOK'
    <3>1. CASE groupId # NULL /\ Goto(t, "rcac", Request)
      <4>1. Fits("rcac", Request)
        BY <3>1, RequestTyped DEF Fits, HandleOK
      <4> QED BY <3>1, <4>1, RequestTyped, GotoTyped DEF Steps
    <3>2. CASE Step(t, "chain") \/ SetupReturns(t, FALSE)
      BY <3>2, StepTyped, SetupReturnsTyped DEF Steps
    <3> QED BY <1>4, <3>1, <3>2 DEF RcacCheck
  <2>2. controllerSetup' \in BOOLEAN /\ chipLock' \in Tasks \cup {NULL}
    BY <1>4 DEF RcacCheck, SetupReturns, StorageOK
  <2> QED BY <1>4, <2>1, <2>2 DEF RcacCheck, HandleOK, StorageOK
<1>5. CASE RcacFetched(t)
  <2>1. arg[t].group \in Groups
    BY <1>5 DEF RcacFetched, CallsOK
  <2>2. CallsOK'
    BY <1>5, StepTyped DEF RcacFetched, Steps
  <2> QED BY <1>5, <2>1, <2>2 DEF RcacFetched, HandleOK, StorageOK
<1>6. CASE Report(t)
  <2>1. CallsOK'
    BY <1>6, StepTyped DEF Report, Steps
  <2>2. deviceQueue' \in 0..DeviceQueueSize /\ gotIpHandler' \in BOOLEAN
    BY <1>6, QueueTyped DEF Report, StorageOK
  <2> QED BY <1>6, <2>1, <2>2 DEF Report, HandleOK, StorageOK
<1> QED BY <1>1, <1>2, <1>3, <1>4, <1>5, <1>6, <1>7

\* The steps that create the certificate chain.
LEMMA ChainTyped ==
    ASSUME TypeOK, NEW t \in Tasks,
           \/ ChainStored(t) \/ ChainNew(t) \/ Created(t) \/ Issued(t)
           \/ StoreKey(t) \/ StoreNoc(t) \/ ChainFails(t)
    PROVE  TypeOK'
<1> USE DEF TypeOK, params, ids, storage, stack, rest
<1>1. CASE ChainStored(t)
  <2>1. noc.node \in Groups
    BY <1>1 DEF ChainStored, StorageOK, Certs
  <2>2. CallsOK' /\ controllerSetup' = TRUE /\ chipLock' = NULL
    BY <1>1, SetupReturnsTyped DEF ChainStored
  <2> QED BY <1>1, <2>1, <2>2 DEF ChainStored, HandleOK, StorageOK
<1>2. CASE ChainNew(t)
  <2>1. CASE baseUrl /\ NULL \notin {accessToken, groupId}
    <3>1. PICK k \in Keys : Goto(t, "create", [Request EXCEPT !.key = k]) /\ UNCHANGED stack
      BY <1>2, <2>1 DEF ChainNew
    <3>2. [Request EXCEPT !.key = k] \in Args /\ Fits("create", [Request EXCEPT !.key = k])
      BY <2>1, RequestTyped DEF Args, Fits, HandleOK
    <3>3. CallsOK'
      BY <3>1, <3>2, GotoTyped DEF Steps
    <3> QED BY <1>2, <3>1, <3>3 DEF ChainNew, HandleOK, StorageOK
  <2>2. CASE ~(baseUrl /\ NULL \notin {accessToken, groupId})
    <3>1. SetupReturns(t, FALSE)
      BY <1>2, <2>2 DEF ChainNew
    <3>2. CallsOK' /\ controllerSetup' = TRUE /\ chipLock' = NULL
      BY <3>1, SetupReturnsTyped
    <3> QED BY <1>2, <3>2 DEF ChainNew, HandleOK, StorageOK
  <2> QED BY <2>1, <2>2
<1>3. CASE Created(t)
  <2>1. nodeId' \in Groups \cup {NULL}
    BY <1>3 DEF Created, HandleOK, CallsOK
  <2>2. CASE NULL \in {accessToken, groupId}
    <3>1. CallsOK' /\ controllerSetup' = TRUE /\ chipLock' = NULL
      BY <1>3, <2>2, SetupReturnsTyped DEF Created
    <3> QED BY <1>3, <2>1, <3>1 DEF Created, HandleOK, StorageOK
  <2>3. CASE NULL \notin {accessToken, groupId}
    <3> DEFINE request == [Request EXCEPT !.key = arg[t].key, !.node = nodeId']
    <3>1. arg[t].key \in Keys
      BY <1>3 DEF Created, CallsOK
    <3>2. request \in Args /\ request.key = arg[t].key
      BY <2>1, <3>1, RequestTyped DEF Args
    <3>3. Fits("issue", request)
      BY <3>1, <3>2 DEF Fits
    <3>4. CallsOK'
      BY <1>3, <2>3, <3>2, <3>3, GotoTyped DEF Created, Steps
    <3> QED BY <1>3, <2>1, <2>3, <3>4 DEF Created, HandleOK, StorageOK
  <2> QED BY <2>2, <2>3
<1>4. CASE Issued(t)
  <2>1. arg[t] \in Args /\ arg[t].key \in Keys /\ arg[t].node \in Groups
    BY <1>4 DEF Issued, CallsOK, Args
  <2>2. CallsOK'
    BY <1>4, <2>1, GotoTyped DEF Issued, Step, Steps, Fits
  <2> QED BY <1>4, <2>2 DEF Issued, HandleOK, StorageOK
<1>5. CASE StoreKey(t)
  <2>1. arg[t] \in Args /\ arg[t].key \in Keys /\ arg[t].node \in Groups
    BY <1>5 DEF StoreKey, CallsOK
  <2>2. CallsOK'
    BY <1>5, <2>1, GotoTyped DEF StoreKey, Step, Steps, Fits
  <2> QED BY <1>5, <2>1, <2>2 DEF StoreKey, HandleOK, StorageOK
<1>6. CASE StoreNoc(t)
  <2>1. arg[t].key \in Keys /\ arg[t].node \in Groups
    BY <1>6 DEF StoreNoc, CallsOK
  <2>2. CallsOK' /\ controllerSetup' = TRUE /\ chipLock' = NULL
    BY <1>6, SetupReturnsTyped DEF StoreNoc
  <2> QED BY <1>6, <2>1, <2>2 DEF StoreNoc, HandleOK, StorageOK, Certs
<1>7. CASE ChainFails(t)
  <2>1. CallsOK' /\ controllerSetup' = TRUE /\ chipLock' = NULL
    BY <1>7, SetupReturnsTyped DEF ChainFails
  <2> QED BY <1>7, <2>1 DEF ChainFails, HandleOK, StorageOK
<1> QED BY <1>1, <1>2, <1>3, <1>4, <1>5, <1>6, <1>7

LEMMA RebootTyped == ASSUME TypeOK, Reboot PROVE TypeOK'
<1>1. CallsOK'
  <2>1. 0 \in 0..MaxFailures
    OBVIOUS
  <2> QED BY <2>1, NoArgTyped DEF Reboot, CallsOK, Steps
<1>2. HandleOK'
  BY DEF Reboot, TypeOK, HandleOK, params, AccessVals
<1>3. StorageOK'
  <2>1. 0 \in 0..DeviceQueueSize
    OBVIOUS
  <2> QED BY <2>1 DEF Reboot, TypeOK, StorageOK, storage
<1> QED BY <1>1, <1>2, <1>3 DEF TypeOK

\* Every step keeps TypeOK.
LEMMA TypeStep == TypeOK /\ [Next]_vars => TypeOK'
<1> SUFFICES ASSUME TypeOK, [Next]_vars PROVE TypeOK'
  OBVIOUS
<1>1. CASE Start
  BY <1>1, StartTyped
<1>2. ASSUME NEW t \in Tasks, Continue(t) PROVE TypeOK'
  BY <1>2, UpdateTyped, SetupTyped, ChainTyped DEF Continue
<1>3. CASE DeviceManager
  BY <1>3 DEF DeviceManager, TypeOK, HandleOK, StorageOK, CallsOK, params, ids, storage, stack, calls
<1>4. CASE Reboot
  BY <1>4, RebootTyped
<1>5. CASE UNCHANGED vars
  BY <1>5 DEF TypeOK, HandleOK, StorageOK, CallsOK, vars, params, ids, storage, stack, rest, calls
<1> QED BY <1>1, <1>2, <1>3, <1>4, <1>5 DEF Next

LEMMA TypeInit == Init => TypeOK
<1> SUFFICES ASSUME Init PROVE TypeOK
  OBVIOUS
<1>1. CallsOK
  <2>1. 0 \in 0..MaxFailures
    OBVIOUS
  <2> QED BY <2>1, NoArgTyped DEF Init, CallsOK, Steps
<1>2. HandleOK
  BY DEF Init, HandleOK, AccessVals
<1>3. StorageOK
  <2>1. 0 \in 0..DeviceQueueSize
    OBVIOUS
  <2> QED BY <2>1 DEF Init, StorageOK
<1> QED BY <1>1, <1>2, <1>3 DEF TypeOK

\* Every field keeps its range and the device manager's queue its size, over
\* every interleaving of updates, writes and resets: a request never carries
\* less than its step needs.
THEOREM MatterTypeCorrect == Spec => []TypeOK
<1> QED BY TypeInit, TypeStep, PTL DEF Spec

-----------------------------------------------------------------------------
(* The certificate chain *)

LEMMA ChainInit == Init => ChainInv
  BY DEF Init, ChainInv, ChainMatches, LockedSteps

\* What the lock of the Matter stack protects.
chain == <<noc, keypair, nodeId, chipLock>>

\* A step of a task that does not have the lock, nor takes it.
LEMMA OutsideLock ==
    ASSUME CallsOK, ChainInv, NEW t \in Tasks, pc[t] \notin LockedSteps, UNCHANGED chain,
           NEW label \in Steps \ LockedSteps, NEW request,
           Enter(t) \/ Abandon(t) \/ Goto(t, label, request)
    PROVE  ChainInv'
<1>1. pc'[t] \notin LockedSteps /\ \A u \in Tasks \ {t} : pc'[u] = pc[u] /\ arg'[u] = arg[u]
  BY DEF Enter, Abandon, Begin, Goto, CallsOK, LockedSteps
<1> QED BY <1>1 DEF ChainInv, ChainMatches, LockedSteps, chain

\* A task that has the lock is the only one; where it goes must fit.
LEMMA InsideLock ==
    ASSUME CallsOK, ChainInv, ChainMatches', NEW t \in Tasks, pc[t] \in LockedSteps,
           NEW label \in Steps, NEW request, Goto(t, label, request),
           label \in LockedSteps => chipLock' = t,
           label \in {"create", "issue", "storeKey", "storeNoc"} => noc' = NULL,
           label \in {"issue", "storeKey", "storeNoc"} => request.node = nodeId',
           label = "storeNoc" => keypair' = request.key
    PROVE  ChainInv'
<1>1. \A u \in Tasks \ {t} : pc[u] \notin LockedSteps
  BY DEF ChainInv
<1>2. \A u \in Tasks \ {t} : pc'[u] \notin LockedSteps
  BY <1>1 DEF Goto, CallsOK
<1>3. pc'[t] = label /\ arg'[t] = request
  BY DEF Goto, CallsOK
<1>4. \A u \in Tasks : pc'[u] \in LockedSteps => u = t
  BY <1>2
<1> QED BY <1>3, <1>4 DEF ChainInv, LockedSteps

LEMMA ReturnInsideLock ==
    ASSUME CallsOK, ChainInv, ChainMatches', NEW t \in Tasks, pc[t] \in LockedSteps,
           NEW ok \in BOOLEAN, SetupReturns(t, ok)
    PROVE  ChainInv'
<1>1. \A l \in {"report", "idle"} : l \in Steps \ LockedSteps
  BY DEF Steps, LockedSteps
<1>2. PICK l \in {"report", "idle"} : Goto(t, l, NoArg)
  BY DEF SetupReturns, Return
<1> QED BY <1>1, <1>2, InsideLock DEF LockedSteps

\* Every step keeps ChainInv.
LEMMA ChainStep == TypeOK /\ ChainInv /\ [Next]_vars => ChainInv'
<1> SUFFICES ASSUME TypeOK, ChainInv, [Next]_vars PROVE ChainInv'
  OBVIOUS
<1> USE DEF TypeOK, params, ids, storage, stack, rest
<1>1. CASE Start
  <2>1. ASSUME NEW t \in Tasks, Enter(t) \/ Abandon(t), UNCHANGED chain PROVE ChainInv'
    <3>1. pc[t] \notin LockedSteps
      BY <2>1 DEF Enter, Abandon, Begin, LockedSteps
    <3>2. "idle" \in Steps \ LockedSteps
      BY DEF Steps, LockedSteps
    <3> QED BY <2>1, <3>1, <3>2, OutsideLock
  <2> QED
    BY <1>1, <2>1 DEF Start, Write, WriteBaseUrl, WriteUserToken, WriteGroupId, WriteBaseUrlFails,
       WriteUserTokenFails, WriteGroupIdFails, CommandUpdateNoc, CommandUpdateDeviceList, GotIp, Renew, chain
<1>2. ASSUME NEW t \in Tasks, Continue(t) PROVE ChainInv'
  <2>1. ASSUME NEW label \in {"authorize", "fabricCheck", "fabric", "setupCheck", "setup", "report", "lock", "ipk", "idle"},
               NEW request, Goto(t, label, request), pc[t] \notin LockedSteps, UNCHANGED chain
        PROVE  ChainInv'
    <3>1. label \in Steps \ LockedSteps
      BY DEF Steps, LockedSteps
    <3> QED BY <2>1, <3>1, OutsideLock
  <2>2. CASE \/ UpdateBegin(t) \/ Authorized(t) \/ AuthorizeFails(t) \/ AuthorizeRejected(t)
             \/ FabricCheck(t) \/ FabricFetched(t) \/ FetchFails(t)
    BY <2>1, <2>2 DEF UpdateBegin, Authorized, AuthorizeFails, AuthorizeRejected, FabricCheck,
       FabricFetched, FetchFails, Step, Return, LockedSteps, chain
  <2>3. CASE SetupCheck(t) \/ SetupController(t) \/ IpkFetched(t) \/ Report(t)
    BY <2>1, <2>3 DEF SetupCheck, SetupController, IpkBegin, IpkFetched, Report, Step, Return, LockedSteps, chain
  <2>4. CASE LockStack(t)
    <3>1. \A u \in Tasks : pc[u] \notin LockedSteps
      BY <2>4 DEF LockStack, ChainInv
    <3>2. pc'[t] = "rcacCheck" /\ \A u \in Tasks \ {t} : pc'[u] \notin LockedSteps
      BY <2>4, <3>1 DEF LockStack, Step, Goto, CallsOK
    <3> QED BY <2>4, <3>2 DEF LockStack, ChainInv, ChainMatches, LockedSteps
  <2>5. CASE RcacCheck(t)
    <3>1. ChainMatches' /\ pc[t] \in LockedSteps /\ chipLock = t
      BY <2>5 DEF RcacCheck, ChainInv, ChainMatches, LockedSteps
    <3>2. CASE \E label \in {"chain", "rcac"} : \E request : Goto(t, label, request) /\ UNCHANGED stack
      BY <2>5, <3>1, <3>2, InsideLock DEF Steps
    <3>3. CASE SetupReturns(t, FALSE)
      BY <3>1, <3>3, ReturnInsideLock
    <3> QED BY <2>5, <3>2, <3>3 DEF RcacCheck, Step
  <2>6. CASE RcacFetched(t)
    <3>1. ChainMatches' /\ pc[t] \in LockedSteps /\ chipLock' = t
      BY <2>6 DEF RcacFetched, ChainInv, ChainMatches, LockedSteps
    <3> QED BY <2>6, <3>1, InsideLock DEF RcacFetched, Steps
  <2>7. CASE ChainStored(t)
    <3>1. ChainMatches' /\ pc[t] \in LockedSteps
      BY <2>7 DEF ChainStored, ChainInv, ChainMatches, LockedSteps
    <3> QED BY <2>7, <3>1, ReturnInsideLock DEF ChainStored
  <2>8. CASE ChainNew(t)
    <3>1. ChainMatches' /\ pc[t] \in LockedSteps /\ chipLock = t
      BY <2>8 DEF ChainNew, ChainInv, ChainMatches, LockedSteps
    <3>2. noc = NULL
      BY <2>8 DEF ChainNew, ChainInv, ChainMatches, StorageOK, Certs
    <3>3. CASE \E request : Goto(t, "create", request) /\ UNCHANGED stack
      BY <2>8, <3>1, <3>2, <3>3, InsideLock DEF ChainNew, Steps
    <3>4. CASE SetupReturns(t, FALSE)
      BY <3>1, <3>4, ReturnInsideLock
    <3> QED BY <2>8, <3>3, <3>4 DEF ChainNew
  <2>9. CASE Created(t)
    <3>1. pc[t] \in LockedSteps /\ chipLock = t /\ noc' = NULL /\ ChainMatches'
      BY <2>9 DEF Created, ChainInv, ChainMatches, LockedSteps
    <3>2. CASE SetupReturns(t, FALSE)
      BY <3>1, <3>2, ReturnInsideLock
    <3>3. CASE Goto(t, "issue", [Request EXCEPT !.key = arg[t].key, !.node = nodeId']) /\ UNCHANGED stack
      <4>1. [Request EXCEPT !.key = arg[t].key, !.node = nodeId'].node = nodeId'
        BY RequestTyped DEF Args
      <4> QED BY <3>1, <3>3, <4>1, InsideLock DEF Steps
    <3> QED BY <2>9, <3>2, <3>3 DEF Created
  <2>10. CASE Issued(t)
    <3>1. ChainMatches' /\ pc[t] \in LockedSteps /\ chipLock' = t /\ noc' = NULL /\ arg[t].node = nodeId'
      BY <2>10 DEF Issued, ChainInv, ChainMatches, LockedSteps
    <3> QED BY <2>10, <3>1, InsideLock DEF Issued, Step, Steps
  <2>11. CASE StoreKey(t)
    <3>1. pc[t] \in LockedSteps /\ chipLock' = t /\ noc' = NULL /\ arg[t].node = nodeId'
      BY <2>11 DEF StoreKey, ChainInv, LockedSteps
    <3>2. ChainMatches' /\ keypair' = arg[t].key
      BY <2>11, <3>1 DEF StoreKey, ChainMatches
    <3> QED BY <2>11, <3>1, <3>2, InsideLock DEF StoreKey, Step, Steps
  <2>12. CASE StoreNoc(t)
    <3>1. pc[t] \in LockedSteps /\ arg[t].node = nodeId' /\ keypair' = arg[t].key
      BY <2>12 DEF StoreNoc, ChainInv, LockedSteps
    <3>2. ChainMatches'
      BY <2>12, <3>1 DEF StoreNoc, ChainMatches
    <3> QED BY <2>12, <3>1, <3>2, ReturnInsideLock DEF StoreNoc
  <2>13. CASE ChainFails(t)
    <3>1. ChainMatches' /\ pc[t] \in LockedSteps
      BY <2>13 DEF ChainFails, ChainInv, ChainMatches, LockedSteps
    <3> QED BY <2>13, <3>1, ReturnInsideLock DEF ChainFails
  <2> QED
    BY <1>2, <2>2, <2>3, <2>4, <2>5, <2>6, <2>7, <2>8, <2>9, <2>10, <2>11, <2>12, <2>13 DEF Continue
<1>3. CASE Reboot
  BY <1>3 DEF Reboot, ChainInv, ChainMatches, LockedSteps
<1>4. CASE DeviceManager \/ UNCHANGED vars
  BY <1>4 DEF DeviceManager, vars, calls, ChainInv, ChainMatches
<1> QED BY <1>1, <1>2, <1>3, <1>4 DEF Next

\* A stored certificate was issued for the stored key pair and names the node
\* id in use: for any tasks, groups and keys, any number of updates at the same
\* time and resets between any two steps.
THEOREM ChainTheorem == Spec => []ChainMatches
<1>1. ChainInv => ChainMatches
  BY DEF ChainInv
<1> QED BY <1>1, ChainInit, ChainStep, MatterTypeCorrect, PTL DEF Spec

-----------------------------------------------------------------------------
(* The handle, while updates run one at a time *)

LEMMA HandleInit == Init => HandleInv
  BY DEF Init, HandleInv

\* The handle's two derived values fit their parameters, or are known not to.
TokenFits  == accessToken \in {NULL, FREED, userToken} \/ "access" \in stale
FabricFits == fabricId \in {NULL, groupId} \/ "fabric" \in stale

\* An update begins on its own, or a write fails, with a handle that fits.
LEMMA HandleBegin ==
    ASSUME CallsOK, HandleInv, NEW t \in Tasks, Enter(t) \/ Abandon(t),
           FabricFits => FabricFits', TokenFits => TokenFits'
    PROVE  HandleInv'
<1> SUFFICES ASSUME ~overlapped' PROVE HandleInv'
  BY DEF HandleInv
<1>1. ~overlapped /\ \A u \in Tasks : pc[u] = "idle"
  BY DEF Enter, Abandon, Begin
<1>2. pc'[t] \in {"idle", "update"} /\ \A u \in Tasks \ {t} : pc'[u] = "idle"
  BY <1>1 DEF Enter, Abandon, CallsOK
<1>3. FabricFits' /\ TokenFits'
  BY <1>1 DEF HandleInv, FabricFits, TokenFits
<1> QED BY <1>2, <1>3 DEF HandleInv, FabricFits, TokenFits

\* So it is at every start.
LEMMA HandleStart == ASSUME TypeOK, HandleInv, Start PROVE HandleInv'
<1> USE DEF TypeOK, params, ids, FabricFits, TokenFits
<1>1. ASSUME NEW url \in BOOLEAN, WriteBaseUrl(url), "writer" \in Tasks PROVE HandleInv'
  BY <1>1, HandleBegin DEF WriteBaseUrl
<1>2. ASSUME NEW token, WriteUserToken(token), "writer" \in Tasks PROVE HandleInv'
  BY <1>2, HandleBegin DEF WriteUserToken
<1>3. ASSUME NEW group, WriteGroupId(group), "writer" \in Tasks PROVE HandleInv'
  BY <1>3, HandleBegin DEF WriteGroupId
<1>4. ASSUME NEW token, WriteUserTokenFails(token), "writer" \in Tasks PROVE HandleInv'
  BY <1>4, HandleBegin DEF WriteUserTokenFails, Left
<1>5. ASSUME NEW group, WriteGroupIdFails(group), "writer" \in Tasks PROVE HandleInv'
  BY <1>5, HandleBegin DEF WriteGroupIdFails, Left
<1>6. ASSUME NEW url, WriteBaseUrlFails(url), "writer" \in Tasks PROVE HandleInv'
  <2>1. Abandon("writer")
    BY <1>6 DEF WriteBaseUrlFails
  <2>2. FabricFits => FabricFits'
    BY <1>6 DEF WriteBaseUrlFails, Left
  <2>3. TokenFits => TokenFits'
    BY <1>6 DEF WriteBaseUrlFails, Left
  <2> QED BY <1>6, <2>1, <2>2, <2>3, HandleBegin
<1>7. CASE ("writer" \in Tasks /\ (CommandUpdateNoc \/ CommandUpdateDeviceList)) \/ ("loop" \in Tasks /\ GotIp)
  BY <1>7, HandleBegin DEF CommandUpdateNoc, CommandUpdateDeviceList, GotIp
<1>8. CASE "timer" \in Tasks /\ Renew
  BY <1>8, HandleBegin DEF Renew
<1> QED BY <1>1, <1>2, <1>3, <1>4, <1>5, <1>6, <1>7, <1>8 DEF Start, Write

\* An update goes on: the handle must still fit its parameters, and what its
\* request carries must be theirs.
LEMMA HandleGoto ==
    ASSUME CallsOK, HandleInv, NEW t \in Tasks, pc[t] # "idle", NEW label \in Steps, NEW request,
           Goto(t, label, request),
           ~overlapped => FabricFits',
           ~overlapped => \/ TokenFits'
                          \/ accessToken' = t /\ label = "authorize",
           label = "authorize" => request.token = userToken',
           label = "fabric" => request.group = groupId'
    PROVE  HandleInv'
<1> SUFFICES ASSUME ~overlapped PROVE HandleInv'
  BY DEF HandleInv, Goto
<1>1. \A u \in Tasks \ {t} : pc[u] = "idle"
  BY DEF HandleInv
<1>2. \A u \in Tasks \ {t} : pc'[u] = "idle"
  BY <1>1 DEF Goto, CallsOK
<1>3. pc'[t] = label /\ arg'[t] = request
  BY DEF Goto, CallsOK
<1> QED BY <1>2, <1>3 DEF HandleInv, FabricFits, TokenFits

\* Most steps leave the parameters and the handle alone.
LEMMA HandleStays ==
    ASSUME TypeOK, HandleInv, NEW t \in Tasks, pc[t] \notin {"idle", "authorize"},
           NEW label \in Steps \ {"authorize"}, NEW request, Goto(t, label, request),
           label = "fabric" => request.group = groupId,
           UNCHANGED <<params, accessToken, fabricId>>
    PROVE  HandleInv'
<1>1. ~overlapped => FabricFits'
  BY DEF HandleInv, params, FabricFits
<1>2. ~overlapped => TokenFits'
  BY DEF HandleInv, params, TokenFits
<1>3. label = "fabric" => request.group = groupId'
  BY DEF params
<1> QED BY <1>1, <1>2, <1>3, HandleGoto DEF TypeOK

\* Every step keeps HandleInv.
LEMMA HandleStep == TypeOK /\ HandleInv /\ [Next]_vars => HandleInv'
<1> SUFFICES ASSUME TypeOK, HandleInv, [Next]_vars PROVE HandleInv'
  OBVIOUS
<1> USE DEF params, ids
<1>1. CASE Start
  BY <1>1, HandleStart
<1>2. ASSUME NEW t \in Tasks, Continue(t) PROVE HandleInv'
  <2>1. CASE UpdateBegin(t)
    <3>1. CASE baseUrl /\ userToken # NULL /\ accessToken = NULL
      <4> DEFINE request == [NoArg EXCEPT !.token = userToken]
      <4>1. request.token = userToken'
        BY <2>1 DEF UpdateBegin, NoArg
      <4>2. Goto(t, "authorize", request) /\ accessToken' = t
        BY <2>1, <3>1 DEF UpdateBegin
      <4>3. ~overlapped => FabricFits'
        BY <2>1 DEF UpdateBegin, HandleInv, FabricFits
      <4>4. pc[t] # "idle"
        BY <2>1 DEF UpdateBegin
      <4>5. "authorize" \in Steps /\ CallsOK
        BY DEF Steps, TypeOK
      <4> HIDE DEF request
      <4> QED BY <4>1, <4>2, <4>3, <4>4, <4>5, HandleGoto
    <3>2. CASE ~(baseUrl /\ userToken # NULL /\ accessToken = NULL)
      BY <2>1, <3>2, HandleStays DEF UpdateBegin, Step, Steps
    <3> QED BY <3>1, <3>2
  <2>2. CASE Authorized(t)
    <3>1. ~overlapped => FabricFits'
      BY <2>2 DEF Authorized, HandleInv, FabricFits
    <3>2. ~overlapped => TokenFits'
      <4> SUFFICES ASSUME ~overlapped PROVE TokenFits'
        OBVIOUS
      <4>1. arg[t].token = userToken /\ (accessToken \in {NULL, FREED, userToken, t} \/ "access" \in stale)
        BY <2>2 DEF Authorized, HandleInv
      <4> QED BY <2>2, <4>1 DEF Authorized, TokenFits
    <3> QED BY <2>2, <3>1, <3>2, HandleGoto DEF Authorized, Return, Steps, TypeOK
  <2>3. CASE AuthorizeFails(t) \/ AuthorizeRejected(t)
    <3>1. ~overlapped => FabricFits'
      BY <2>3 DEF AuthorizeFails, AuthorizeRejected, HandleInv, FabricFits
    <3>2. TokenFits'
      BY <2>3 DEF AuthorizeFails, AuthorizeRejected, TokenFits
    <3> QED BY <2>3, <3>1, <3>2, HandleGoto DEF AuthorizeFails, AuthorizeRejected, Return, Steps, TypeOK
  <2>4. CASE FabricCheck(t)
    BY <2>4, HandleStays, RequestTyped DEF FabricCheck, Steps, TypeOK
  <2>5. CASE FabricFetched(t)
    <3>1. ~overlapped => FabricFits'
      BY <2>5 DEF FabricFetched, HandleInv, FabricFits
    <3>2. ~overlapped => TokenFits'
      BY <2>5 DEF FabricFetched, HandleInv, TokenFits
    <3> QED BY <2>5, <3>1, <3>2, HandleGoto DEF FabricFetched, Steps, TypeOK
  <2>6. CASE FetchFails(t) \/ SetupCheck(t) \/ SetupController(t) \/ IpkFetched(t) \/ LockStack(t) \/ Report(t)
    BY <2>6, HandleStays DEF FetchFails, SetupCheck, SetupController, IpkBegin, IpkFetched, LockStack, Report, Step, Return, Steps
  <2>7. CASE RcacCheck(t) \/ RcacFetched(t) \/ ChainStored(t) \/ Issued(t)
             \/ StoreKey(t) \/ StoreNoc(t) \/ ChainFails(t)
    BY <2>7, HandleStays DEF RcacCheck, RcacFetched, ChainStored, Issued, StoreKey, StoreNoc,
       ChainFails, SetupReturns, Step, Return, Steps
  <2>8. CASE ChainNew(t) \/ Created(t)
    BY <2>8, HandleStays DEF ChainNew, Created, SetupReturns, Return, Steps
  <2> QED BY <1>2, <2>1, <2>2, <2>3, <2>4, <2>5, <2>6, <2>7, <2>8 DEF Continue
<1>3. CASE Reboot
  <2>1. accessToken' = NULL /\ fabricId' = NULL /\ \A t \in Tasks : pc'[t] = "idle"
    BY <1>3 DEF Reboot
  <2> QED BY <2>1 DEF HandleInv
<1>4. CASE DeviceManager \/ UNCHANGED vars
  BY <1>4 DEF DeviceManager, vars, calls, HandleInv
<1> QED BY <1>1, <1>2, <1>3, <1>4 DEF Next

\* Between updates that ran one at a time, the access token is the present user
\* token's and the fabric id the present group's, but for what a write that was
\* cut short left behind: for any tokens and groups and any number of failures.
THEOREM HandleTheorem == Spec => []HandleConsistent
<1>1. HandleInv => HandleConsistent
  BY DEF HandleInv, HandleConsistent
<1> QED BY <1>1, HandleInit, HandleStep, MatterTypeCorrect, PTL DEF Spec

=============================================================================
