--------------------------- MODULE MatterController ---------------------------
(***************************************************************************)
(* The Matter controller service of the matter_controller example: the     *)
(* parameters the phone application sets through RainMaker, the update     *)
(* that turns them step by step into an access token, a fabric, a node id  *)
(* and an installed certificate chain, and the reports of its status.      *)
(*                                                                         *)
(* The update runs in whichever task called it: RainMaker's, the event     *)
(* loop's (once, when the device has an address) and the esp_timer's       *)
(* (every 58 minutes, to renew the access token).  They share the handle   *)
(* without a lock and wait for HTTP in the middle of it; only the set-up   *)
(* of the Matter stack is under that stack's lock.  The device may be      *)
(* reset between any two steps.                                            *)
(*                                                                         *)
(* Values are abstract: an access token is identified with the user token  *)
(* it was obtained with, a fabric and a node id with the RainMaker group   *)
(* they were created in, the base URL with whether it is set.              *)
(***************************************************************************)
EXTENDS Naturals, FiniteSets

CONSTANTS
    Tasks,            \* the tasks that run updates
    Tokens, Groups,   \* user tokens, RainMaker group ids
    Keys,             \* key pairs the controller may generate
    NULL,             \* the null pointer, an id that is 0, a missing entry
    FREED,            \* a pointer to memory that was freed
    DeviceQueueSize,  \* the queue of the device manager, 8 in the code
    MaxOverlap,       \* a bound: how many updates run at the same time
    MaxFailures       \* a bound: how many writes of a parameter fail between resets

ASSUME TasksAssumption == Tasks \subseteq {"writer", "loop", "timer"}
ASSUME NullAssumption ==
    /\ {NULL, FREED} \cap (Tokens \cup Groups \cup Keys \cup Tasks) = {} /\ NULL # FREED
    /\ Tasks \cap Tokens = {}
ASSUME QueueAssumption == DeviceQueueSize \in Nat \ {0} /\ MaxOverlap \in Nat /\ MaxFailures \in Nat

VARIABLES
    baseUrl, userToken, groupId,       \* parameters, in the handle and stored by RainMaker
    stale,                             \* history: what a write that was cut short left behind
    reported,                          \* of MTCtlStatus, reported and persisted, the bit that is read back
    accessToken, fabricId, nodeId, nocInstalled,  \* the rest of the handle
    rcac, keypair, noc,                \* the credentials issuer's storage
    controllerSetup,                   \* the static flag of setup_controller
    chipLock,                          \* who holds the lock of the Matter stack
    renewing,                          \* the periodic timer runs
    gotIpHandler,                      \* update_controller_handler is registered
    deviceQueue,                       \* actions waiting for the device manager
    pc, arg,                           \* of each task: its next step, what its request carries
    overlapped,                        \* history: two updates ran at the same time
    failures                           \* how many writes failed, for MaxFailures

params  == <<baseUrl, userToken, groupId, stale>>
ids     == <<accessToken, fabricId, nodeId, nocInstalled>>
storage == <<rcac, keypair, noc>>
stack   == <<controllerSetup, chipLock>>
rest    == <<renewing, gotIpHandler, deviceQueue>>
calls   == <<pc, arg, overlapped, failures>>
vars    == <<params, reported, ids, storage, stack, rest, calls>>

Steps == {"idle", "update", "authorize", "fabricCheck", "fabric", "setupCheck", "setup", "ipk", "lock",
          "rcacCheck", "rcac", "chain", "create", "issue", "storeKey", "storeNoc", "report"}

\* What a request carries: a user or access token, a group, the key of a CSR,
\* the node id.  The handle's access token is a buffer of the task that
\* allocated it, named by that task, until the request has filled it.
NoArg      == [token |-> NULL, group |-> NULL, key |-> NULL, node |-> NULL]
AccessVals == Tokens \cup Tasks \cup {NULL, FREED}
Args       == [token : AccessVals, group : Groups \cup {NULL}, key : Keys \cup {NULL},
               node : Groups \cup {NULL}]
Certs      == [key : Keys, node : Groups]

\* A device that was never configured, after matter_controller_enable.
Init ==
    /\ baseUrl = FALSE /\ userToken = NULL /\ groupId = NULL /\ reported = FALSE
    /\ stale = {}
    /\ accessToken = NULL /\ fabricId = NULL /\ nodeId = NULL /\ nocInstalled = FALSE
    /\ rcac = NULL /\ keypair = NULL /\ noc = NULL
    /\ controllerSetup = FALSE /\ chipLock = NULL
    /\ renewing = FALSE /\ gotIpHandler = TRUE /\ deviceQueue = 0
    /\ pc = [t \in Tasks |-> "idle"] /\ arg = [t \in Tasks |-> NoArg]
    /\ overlapped = FALSE /\ failures = 0

\* A reset: RainMaker writes the stored parameters back (ESP_RMAKER_REQ_SRC_INIT),
\* of the status only the bit of the installed chain is taken.
Reboot ==
    /\ UNCHANGED <<baseUrl, userToken, groupId, reported, storage>>
    /\ stale' = {}
    /\ accessToken' = NULL /\ fabricId' = NULL /\ nodeId' = NULL /\ nocInstalled' = reported
    /\ controllerSetup' = FALSE /\ chipLock' = NULL
    /\ renewing' = FALSE /\ gotIpHandler' = TRUE /\ deviceQueue' = 0
    /\ pc' = [t \in Tasks |-> "idle"] /\ arg' = [t \in Tasks |-> NoArg]
    /\ overlapped' = FALSE /\ failures' = 0

-----------------------------------------------------------------------------
(* Helpers *)

Goto(t, label, request) ==
    /\ pc' = [pc EXCEPT ![t] = label]
    /\ arg' = [arg EXCEPT ![t] = request]
    /\ UNCHANGED <<overlapped, failures>>

Step(t, label) == Goto(t, label, arg[t])
Return(t)      == Goto(t, "idle", NoArg)

\* A task may begin, while others are in their updates.
Begin(t) ==
    /\ pc[t] = "idle" /\ Cardinality({u \in Tasks : pc[u] # "idle"}) < MaxOverlap
    /\ overlapped' = (overlapped \/ \E u \in Tasks : pc[u] # "idle")
    /\ UNCHANGED arg

\* It enters the update, or its write fails and there is none.
Enter(t)   == Begin(t) /\ pc' = [pc EXCEPT ![t] = "update"] /\ UNCHANGED failures
Abandon(t) == Begin(t) /\ UNCHANGED pc /\ failures < MaxFailures /\ failures' = failures + 1

\* What a request to the cloud is given: the pointers of the handle as it starts.
Request == [NoArg EXCEPT !.token = accessToken, !.group = groupId]

\* The cloud serves a request that carries an access token it once gave; freed
\* memory may still hold one.
Served(t) == arg[t].token \in Tokens \cup {FREED}

\* Faulty variant of UpdateDeviceList: the queue's size is not looked at.
UpdateDeviceListUnchecked == deviceQueue' = deviceQueue + 1

\* update_device_list waits without a timeout for room in the queue.
UpdateDeviceList == deviceQueue < DeviceQueueSize /\ deviceQueue' = deviceQueue + 1

-----------------------------------------------------------------------------
(* What the phone application writes *)

\* update_base_url invalidates all that depends on it.
WriteBaseUrl(url) ==
    /\ Enter("writer")
    /\ baseUrl' = url
    /\ userToken' = NULL /\ groupId' = NULL /\ accessToken' = NULL /\ fabricId' = NULL /\ stale' = {}
    /\ UNCHANGED <<reported, nodeId, nocInstalled, storage, stack, rest>>

\* Faulty variant of WriteUserToken: the access token is kept.
WriteUserTokenKeepingAccess(token) ==
    /\ Enter("writer")
    /\ userToken' = token
    /\ UNCHANGED <<baseUrl, groupId, stale, reported, ids, storage, stack, rest>>

\* update_user_token: the access token goes with the old user token.
WriteUserToken(token) ==
    /\ Enter("writer")
    /\ userToken' = token /\ accessToken' = NULL /\ stale' = stale \ {"access"}
    /\ UNCHANGED <<baseUrl, groupId, reported, fabricId, nodeId, nocInstalled, storage, stack, rest>>

\* update_rmaker_group_id: the fabric id goes with the old group.
WriteGroupId(group) ==
    /\ Enter("writer")
    /\ groupId' = group /\ fabricId' = NULL /\ stale' = stale \ {"fabric"}
    /\ UNCHANGED <<baseUrl, userToken, reported, accessToken, nodeId, nocInstalled, storage, stack, rest>>

\* A write fails when RainMaker, which stores a value before it reports it, cannot
\* report it; what was derived from the old value stays.  (A write for which there
\* is no memory leaves the handle like a failed write of NULL.)
Left(name, value, source) == IF value \in {NULL, source} THEN {} ELSE {name}

WriteUserTokenFails(token) ==
    /\ Abandon("writer")
    /\ userToken' = token /\ stale' = stale \cup Left("access", accessToken, token)
    /\ UNCHANGED <<baseUrl, groupId, reported, ids, storage, stack, rest>>

WriteGroupIdFails(group) ==
    /\ Abandon("writer")
    /\ groupId' = group /\ stale' = stale \cup Left("fabric", fabricId, group)
    /\ UNCHANGED <<baseUrl, userToken, reported, ids, storage, stack, rest>>

\* update_base_url reports three values one after the other.
WriteBaseUrlFails(url) ==
    /\ Abandon("writer")
    /\ baseUrl' = url
    /\ \/ UNCHANGED <<userToken, groupId, stale, accessToken, fabricId>>
       \/ /\ userToken' = NULL /\ stale' = stale \cup Left("access", accessToken, NULL)
          /\ UNCHANGED <<groupId, accessToken, fabricId>>
       \/ /\ userToken' = NULL /\ accessToken' = NULL /\ groupId' = NULL
          /\ stale' = (stale \ {"access"}) \cup Left("fabric", fabricId, NULL)
          /\ UNCHANGED fabricId
    /\ UNCHANGED <<reported, nodeId, nocInstalled, storage, stack, rest>>

\* MATTER_CTL_CMD_UPDATE_NOC does nothing yet, to a complete handle only.
CommandUpdateNoc ==
    /\ baseUrl /\ NULL \notin {userToken, accessToken, groupId, fabricId, nodeId}
    /\ Enter("writer")
    /\ UNCHANGED <<params, reported, ids, storage, stack, rest>>

CommandUpdateDeviceList ==
    /\ Enter("writer")
    /\ UpdateDeviceList
    /\ UNCHANGED <<params, reported, ids, storage, stack, renewing, gotIpHandler>>

\* The event loop: the device got an address.
GotIp ==
    /\ gotIpHandler
    /\ Enter("loop")
    /\ UNCHANGED <<params, reported, ids, storage, stack, rest>>

\* refresh_access_token: the access token is dropped before the update.
Renew ==
    /\ renewing
    /\ Enter("timer")
    /\ accessToken' = NULL /\ stale' = stale \ {"access"}
    /\ UNCHANGED <<baseUrl, userToken, groupId, reported, fabricId, nodeId, nocInstalled, storage, stack, rest>>

-----------------------------------------------------------------------------
(* matter_controller_handle_update: the access token *)

\* app_matter_controller_authorize allocates the access token before it asks
\* for one; the pointer is no longer null while the request is under way.
UpdateBegin(t) ==
    /\ pc[t] = "update"
    /\ IF baseUrl /\ userToken # NULL /\ accessToken = NULL
       THEN accessToken' = t /\ Goto(t, "authorize", [NoArg EXCEPT !.token = userToken])
       ELSE UNCHANGED accessToken /\ Step(t, "fabricCheck")
    /\ UNCHANGED <<params, reported, fabricId, nodeId, nocInstalled, storage, stack, rest>>

\* The token arrives in the task's buffer, which another task may have freed.
\* The first time the periodic timer is started, or the update fails.
Authorized(t) ==
    /\ pc[t] = "authorize"
    /\ accessToken' = IF accessToken = t THEN arg[t].token ELSE accessToken
    /\ \/ renewing' = TRUE /\ Goto(t, "fabricCheck", NoArg)
       \/ ~renewing /\ UNCHANGED renewing /\ Return(t)
    /\ UNCHANGED <<params, reported, fabricId, nodeId, nocInstalled, storage, stack, gotIpHandler, deviceQueue>>

\* The failed request's buffer is freed; the handle keeps the pointer.
AuthorizeFails(t) ==
    /\ pc[t] = "authorize"
    /\ accessToken' = IF accessToken = NULL THEN NULL ELSE FREED
    /\ Return(t)
    /\ UNCHANGED <<params, reported, fabricId, nodeId, nocInstalled, storage, stack, rest>>

\* ESP_ERR_INVALID_RESPONSE: the user token is dropped and reported empty.  The
\* access token is freed for a second time; the heap notices (Reboot) or not.
\* When the report fails the freed access token stays in the handle.
AuthorizeRejected(t) ==
    /\ pc[t] = "authorize"
    /\ userToken' = NULL
    /\ \/ accessToken' = NULL /\ stale' = stale \ {"access"}
       \/ accessToken' = (IF accessToken = NULL THEN NULL ELSE FREED) /\ UNCHANGED stale
    /\ Return(t)
    /\ UNCHANGED <<baseUrl, groupId, reported, fabricId, nodeId, nocInstalled, storage, stack, rest>>

-----------------------------------------------------------------------------
(* The fabric id *)

FabricCheck(t) ==
    /\ pc[t] = "fabricCheck"
    /\ IF baseUrl /\ accessToken # NULL /\ groupId # NULL /\ fabricId = NULL
       THEN Goto(t, "fabric", Request)
       ELSE Goto(t, "setupCheck", NoArg)
    /\ UNCHANGED <<params, reported, ids, storage, stack, rest>>

FabricFetched(t) ==
    /\ pc[t] = "fabric" /\ Served(t)
    /\ fabricId' = arg[t].group
    /\ Goto(t, "setupCheck", NoArg)
    /\ UNCHANGED <<params, reported, accessToken, nodeId, nocInstalled, storage, stack, rest>>

\* A request for the fabric id or the IPK fails: so does the update.
FetchFails(t) ==
    /\ pc[t] \in {"fabric", "ipk"}
    /\ Return(t)
    /\ UNCHANGED <<params, reported, ids, storage, stack, rest>>

-----------------------------------------------------------------------------
(* The set-up of the controller, app_matter_controller_setup_controller *)

NeedsSetup == baseUrl /\ NULL \notin {accessToken, groupId, fabricId} /\ nodeId = NULL

\* app_matter_controller_fetch_fabric_ipk looks at the handle again.
IpkBegin(t) ==
    IF baseUrl /\ NULL \notin {accessToken, groupId} THEN Goto(t, "ipk", Request) ELSE Return(t)

SetupCheck(t) ==
    /\ pc[t] = "setupCheck"
    /\ Step(t, IF NeedsSetup THEN "setup" ELSE "report")
    /\ UNCHANGED <<params, reported, ids, storage, stack, rest>>

\* The device list is updated first, whatever the set-up then does.  A
\* controller that was set up, or failed to be, is not set up again.
SetupController(t) ==
    /\ pc[t] = "setup"
    /\ UpdateDeviceList
    /\ \/ controllerSetup /\ Step(t, "report")
       \/ ~controllerSetup /\ nodeId # NULL /\ Return(t)
       \/ ~controllerSetup /\ nodeId = NULL /\ nocInstalled /\ Step(t, "lock")
       \/ ~controllerSetup /\ nodeId = NULL /\ ~nocInstalled /\ IpkBegin(t)
    /\ UNCHANGED <<params, reported, ids, storage, stack, renewing, gotIpHandler>>

IpkFetched(t) ==
    /\ pc[t] = "ipk" /\ Served(t)
    /\ Goto(t, "lock", NoArg)
    /\ UNCHANGED <<params, reported, ids, storage, stack, rest>>

\* Faulty variant of LockStack: the stack is set up without its lock.
LockStackTaken(t) ==
    /\ pc[t] = "lock"
    /\ chipLock' = t
    /\ Step(t, "rcacCheck")
    /\ UNCHANGED <<params, reported, ids, storage, controllerSetup, rest>>

LockStack(t) ==
    /\ pc[t] = "lock" /\ chipLock = NULL
    /\ chipLock' = t
    /\ Step(t, "rcacCheck")
    /\ UNCHANGED <<params, reported, ids, storage, controllerSetup, rest>>

\* The set-up returns: the flag is raised whatever came of it.
SetupReturns(t, ok) ==
    /\ controllerSetup' = TRUE /\ chipLock' = NULL
    /\ IF ok THEN Goto(t, "report", NoArg) ELSE Return(t)

-----------------------------------------------------------------------------
(* generate_controller_noc_chain, called by the Matter stack in its set-up *)

\* The stored root certificate is used, or one is asked for.
RcacCheck(t) ==
    /\ pc[t] = "rcacCheck"
    /\ \/ rcac # NULL /\ Step(t, "chain") /\ UNCHANGED stack
       \/ rcac = NULL /\ baseUrl /\ NULL \notin {accessToken, groupId} /\ Goto(t, "rcac", Request) /\ UNCHANGED stack
       \/ rcac = NULL /\ ~(baseUrl /\ NULL \notin {accessToken, groupId}) /\ SetupReturns(t, FALSE)
    /\ UNCHANGED <<params, reported, ids, storage, rest>>

RcacFetched(t) ==
    /\ pc[t] = "rcac" /\ Served(t)
    /\ rcac' = arg[t].group
    /\ Goto(t, "chain", NoArg)
    /\ UNCHANGED <<params, reported, ids, keypair, noc, stack, rest>>

\* The stored chain is used; the node id is read from its certificate.
ChainStored(t) ==
    /\ pc[t] = "chain" /\ keypair # NULL /\ noc # NULL
    /\ nodeId' = noc.node
    /\ \E ok \in BOOLEAN : SetupReturns(t, ok)
    /\ UNCHANGED <<params, reported, accessToken, fabricId, nocInstalled, storage, rest>>

\* A new key pair is generated, and the controller is created in the group.
ChainNew(t) ==
    /\ pc[t] = "chain" /\ ~(keypair # NULL /\ noc # NULL)
    /\ IF baseUrl /\ NULL \notin {accessToken, groupId}
       THEN \E k \in Keys \ {keypair} : Goto(t, "create", [Request EXCEPT !.key = k]) /\ UNCHANGED stack
       ELSE SetupReturns(t, FALSE)
    /\ UNCHANGED <<params, reported, ids, storage, rest>>

\* create_matter_controller stores the id in the handle; a reply without one is
\* no error.  issue_noc_with_csr is given the handle's pointers anew.
Created(t) ==
    /\ pc[t] = "create" /\ Served(t)
    /\ nodeId' \in {nodeId, arg[t].group}
    /\ IF NULL \in {accessToken, groupId}
       THEN SetupReturns(t, FALSE)
       ELSE Goto(t, "issue", [Request EXCEPT !.key = arg[t].key, !.node = nodeId']) /\ UNCHANGED stack
    /\ UNCHANGED <<params, reported, accessToken, fabricId, nocInstalled, storage, rest>>

\* The certificate binds the key to the node id that was sent.
Issued(t) ==
    /\ pc[t] = "issue" /\ Served(t) /\ arg[t].node # NULL
    /\ Step(t, "storeKey")
    /\ UNCHANGED <<params, reported, ids, storage, stack, rest>>

StoreKey(t) ==
    /\ pc[t] = "storeKey"
    /\ keypair' = arg[t].key
    /\ Step(t, "storeNoc")
    /\ UNCHANGED <<params, reported, ids, rcac, noc, stack, rest>>

\* The chain is installed; the rest of the stack's set-up may still fail.
StoreNoc(t) ==
    /\ pc[t] = "storeNoc"
    /\ noc' = [key |-> arg[t].key, node |-> arg[t].node]
    /\ nocInstalled' = TRUE
    /\ \E ok \in BOOLEAN : SetupReturns(t, ok)
    /\ UNCHANGED <<params, reported, accessToken, fabricId, nodeId, rcac, keypair, rest>>

\* A request of the issuer fails, or its storage does.
ChainFails(t) ==
    /\ pc[t] \in {"rcac", "create", "issue", "storeKey", "storeNoc"}
    /\ SetupReturns(t, FALSE)
    /\ UNCHANGED <<params, reported, ids, storage, rest>>

-----------------------------------------------------------------------------
(* The report at the end of the update *)

\* matter_controller_report_status; the event loop's handler then updates the
\* device list and is not called again.
Report(t) ==
    /\ pc[t] = "report"
    /\ reported' = nocInstalled
    /\ IF t = "loop" THEN UpdateDeviceList /\ gotIpHandler' = FALSE ELSE UNCHANGED <<deviceQueue, gotIpHandler>>
    /\ Return(t)
    /\ UNCHANGED <<params, ids, storage, stack, renewing>>

\* device_mgr_task takes an action; what it does with the list is another story.
DeviceManager ==
    /\ deviceQueue > 0
    /\ deviceQueue' = deviceQueue - 1
    /\ UNCHANGED <<params, reported, ids, storage, stack, renewing, gotIpHandler, calls>>

-----------------------------------------------------------------------------
Write ==
    \/ \E url \in BOOLEAN : WriteBaseUrl(url)
    \/ \E token \in Tokens \cup {NULL} : WriteUserToken(token)
    \/ \E group \in Groups \cup {NULL} : WriteGroupId(group)
    \/ \E url \in BOOLEAN : WriteBaseUrlFails(url)
    \/ \E token \in Tokens \cup {NULL} : WriteUserTokenFails(token)
    \/ \E group \in Groups \cup {NULL} : WriteGroupIdFails(group)
    \/ CommandUpdateNoc \/ CommandUpdateDeviceList

Start ==
    \/ "writer" \in Tasks /\ Write
    \/ "loop" \in Tasks /\ GotIp
    \/ "timer" \in Tasks /\ Renew

Continue(t) ==
    \/ UpdateBegin(t) \/ Authorized(t) \/ AuthorizeFails(t) \/ AuthorizeRejected(t)
    \/ FabricCheck(t) \/ FabricFetched(t) \/ FetchFails(t)
    \/ SetupCheck(t) \/ SetupController(t) \/ IpkFetched(t) \/ LockStack(t)
    \/ RcacCheck(t) \/ RcacFetched(t) \/ ChainStored(t) \/ ChainNew(t)
    \/ Created(t) \/ Issued(t) \/ StoreKey(t) \/ StoreNoc(t) \/ ChainFails(t)
    \/ Report(t)

Next ==
    \/ Start
    \/ \E t \in Tasks : Continue(t)
    \/ DeviceManager
    \/ Reboot

Spec == Init /\ [][Next]_vars

-----------------------------------------------------------------------------
(* Properties *)

HandleOK ==
    /\ baseUrl \in BOOLEAN /\ userToken \in Tokens \cup {NULL} /\ groupId \in Groups \cup {NULL}
    /\ stale \subseteq {"access", "fabric"}
    /\ reported \in BOOLEAN
    /\ accessToken \in AccessVals /\ fabricId \in Groups \cup {NULL} /\ nodeId \in Groups \cup {NULL}
    /\ nocInstalled \in BOOLEAN

StorageOK ==
    /\ rcac \in Groups \cup {NULL} /\ keypair \in Keys \cup {NULL} /\ noc \in Certs \cup {NULL}
    /\ controllerSetup \in BOOLEAN /\ chipLock \in Tasks \cup {NULL}
    /\ renewing \in BOOLEAN /\ gotIpHandler \in BOOLEAN
    /\ deviceQueue \in 0..DeviceQueueSize

CallsOK ==
    /\ pc \in [Tasks -> Steps] /\ arg \in [Tasks -> Args] /\ overlapped \in BOOLEAN
    /\ failures \in 0..MaxFailures
    /\ \A t \in Tasks :
        /\ pc[t] = "authorize" => arg[t].token \in Tokens
        /\ pc[t] \in {"fabric", "rcac", "create"} => arg[t].group \in Groups
        /\ pc[t] \in {"create", "issue", "storeKey", "storeNoc"} => arg[t].key \in Keys
        /\ pc[t] \in {"storeKey", "storeNoc"} => arg[t].node \in Groups

\* Every field keeps its range, the queue of the device manager its size, and a
\* request carries what its step needs.
TypeOK == HandleOK /\ StorageOK /\ CallsOK

\* A stored operational certificate was issued for the stored key pair, and the
\* node id in use, if any, is the one it names: the two entries are written one
\* after the other, either write may fail, the device may be reset between
\* them, the controller may be created again in another group, and two tasks
\* may set the controller up at the same time.
ChainMatches == noc # NULL => noc.key = keypair /\ nodeId \in {NULL, noc.node}

\* As long as updates run one at a time, the access token in the handle was
\* obtained with the present user token and the fabric id is that of the
\* present group, between updates: across every order of writes, renewals,
\* failed requests and resets.  A write cut short by a failed report leaves the
\* derived value behind (see DerivedInvalidated): excused until the next write,
\* renewal or reset drops it, and only that value is.
HandleConsistent ==
    ~overlapped /\ (\A t \in Tasks : pc[t] = "idle")
        => /\ accessToken \in {NULL, FREED, userToken} \/ "access" \in stale
           /\ fabricId \in {NULL, groupId} \/ "fabric" \in stale

\* The steps a task takes with the lock of the Matter stack.
LockedSteps == {"rcacCheck", "rcac", "chain", "create", "issue", "storeKey", "storeNoc"}

\* ChainMatches, with what makes it inductive: the lock, and what a task that
\* holds it has seen, sent and stored so far.
ChainInv ==
    /\ ChainMatches
    /\ \A t \in Tasks :
        /\ pc[t] \in LockedSteps => chipLock = t
        /\ pc[t] \in {"create", "issue", "storeKey", "storeNoc"} => noc = NULL
        /\ pc[t] \in {"issue", "storeKey", "storeNoc"} => arg[t].node = nodeId
        /\ pc[t] = "storeNoc" => keypair = arg[t].key

\* HandleConsistent, with what makes it inductive while updates run one at a
\* time: which update runs, and what its request was given.
HandleInv ==
    ~overlapped =>
        /\ \A t, u \in Tasks : pc[t] # "idle" /\ pc[u] # "idle" => t = u
        /\ fabricId \in {NULL, groupId} \/ "fabric" \in stale
        /\ \/ accessToken \in {NULL, FREED, userToken} \/ "access" \in stale
           \/ \E t \in Tasks : accessToken = t /\ pc[t] = "authorize"
        /\ \A t \in Tasks :
            /\ pc[t] = "authorize" => arg[t].token = userToken
            /\ pc[t] = "fabric" => arg[t].group = groupId

-----------------------------------------------------------------------------
(* What the documentation says and the code does not do *)

\* SPEC.md:69 of the Matter controller service: the status bit
\* MatterNOCInstalled says "Whether the controller's Matter NOC Chain is
\* installed".  A report of a controller that runs with its stored chain must
\* have the bit set.
NocBitReported ==
    [][\A t \in Tasks : Report(t) /\ noc # NULL /\ nodeId = noc.node => reported']_vars

\* creds_issuer.cpp:83, "Add new fabric, so we need to query RCAC and IPK for the
\* new fabric": the root and the operational certificate of a stored chain
\* belong to one group.
ChainOfOneGroup == noc # NULL => rcac = noc.node

\* app_matter_controller.cpp:135, "Access token will be invalid after updating user
\* token", and :91, "Matter fabric ID will be invalid after updating RainMaker
\* Group ID": also when the value cannot be stored and reported.
DerivedInvalidated ==
    ~overlapped /\ (\A t \in Tasks : pc[t] = "idle")
        => accessToken \in {NULL, FREED, userToken} /\ fabricId \in {NULL, groupId}

=============================================================================
