------------------------- MODULE AgentSessionProofs -------------------------
(***************************************************************************)
(* Proofs about AgentSession for every value of its constants.             *)
(*                                                                         *)
(*  - TypeCorrect: TypeOK is an invariant.                                 *)
(*  - LinkFlagsTheorem: LinkFlagsTruthful is an invariant, from LinkInv.   *)
(*  - CredentialsTheorem: CredentialsCurrent is an invariant when a single *)
(*    application calls the API, from CredInv.                             *)
(***************************************************************************)
EXTENDS AgentSession, TLAPS

USE CallersAssumption, NullAssumption, SizeAssumption

-----------------------------------------------------------------------------
(* Queues *)

\* A queue that is appended to below its capacity, or left alone, keeps its
\* type and its bound: what every bounded send of the code relies on.
LEMMA AppendBounded ==
    ASSUME NEW S, NEW q \in Seq(S), NEW e \in S, NEW n \in Nat, Len(q) < n
    PROVE  Append(q, e) \in Seq(S) /\ Len(Append(q, e)) <= n
  OBVIOUS

\* Taking the head of a nonempty queue keeps its type and its bound.
LEMMA TailBounded ==
    ASSUME NEW S, NEW q \in Seq(S), NEW n \in Nat, Len(q) <= n, q # <<>>
    PROVE  Tail(q) \in Seq(S) /\ Len(Tail(q)) <= n /\ Head(q) \in S
  OBVIOUS

\* A purged or fresh queue is within every bound.
LEMMA EmptyBounded ==
    ASSUME NEW S, NEW n \in Nat
    PROVE  <<>> \in Seq(S) /\ Len(<<>>) <= n
  OBVIOUS

-----------------------------------------------------------------------------
(* Type correctness *)

\* Posting an event keeps the event queue well typed and bounded.
LEMMA PostTyped ==
    ASSUME QueuesOK, NEW e \in Events, Post(e)
    PROVE  evq' \in Seq(Events) /\ Len(evq') <= EventQueueSize
  BY AppendBounded DEF QueuesOK, Post

\* So does delivering a message to the message queue.
LEMMA DeliverTyped ==
    ASSUME QueuesOK, NEW m \in InMessages, Deliver(m)
    PROVE  messageQ' \in Seq(InMessages) /\ Len(messageQ') <= MessageQueueSize
  BY AppendBounded DEF QueuesOK, Deliver

\* The ways a call moves on all keep its program counter in range.
LEMMA CallsTyped ==
    ASSUME CallsOK, NEW c \in Callers, UNCHANGED snd,
           \/ \E ok \in BOOLEAN : Return(c, ok)
           \/ \E ok \in BOOLEAN : ReturnAtOnce(c, ok)
           \/ \E label \in Steps : Goto(c, label)
           \/ \E name \in Ops, label \in Steps : Enter(c, name, label)
    PROVE  CallsOK'
  BY DEF CallsOK, Return, ReturnAtOnce, Goto, Enter, Result, Steps, Ops

\* Every step keeps TypeOK.
LEMMA TypeStep == TypeOK /\ [Next]_vars => TypeOK'
<1> SUFFICES ASSUME TypeOK, [Next]_vars PROVE TypeOK'
  OBVIOUS
<1> USE DEF TypeOK, identity, flags, queues, client, calls
<1>1. ASSUME NEW c \in Apps, Call(c) PROVE TypeOK'
  <2> c \in Callers BY DEF Callers
  <2>1. ASSUME NEW conv \in ConvIds \cup {NULL}, StartCall(c, conv) PROVE TypeOK'
    <3>1. CallsOK'
      BY <2>1, CallsTyped DEF StartCall, Steps, Ops, FlagsOK
    <3>2. IdentityOK' /\ FlagsOK' /\ QueuesOK'
      BY <2>1 DEF StartCall, IdentityOK, FlagsOK, QueuesOK
    <3>3. ClientOK'
      BY <2>1 DEF StartCall, ClientOK, CallsOK, ReturnAtOnce, Enter
    <3> QED BY <3>1, <3>2, <3>3
  <2>2. CASE StopCall(c)
    <3>1. CallsOK'
      BY <2>2, CallsTyped DEF StopCall, Steps, Ops
    <3>2. IdentityOK' /\ FlagsOK' /\ QueuesOK'
      BY <2>2 DEF StopCall, IdentityOK, FlagsOK, QueuesOK
    <3>3. ClientOK'
      BY <2>2 DEF StopCall, ClientOK, CallsOK, Enter
    <3> QED BY <3>1, <3>2, <3>3
  <2>3. CASE NewConversationCall(c)
    <3>1. CallsOK'
      BY <2>3, CallsTyped DEF NewConversationCall, Steps, Ops
    <3>2. IdentityOK' /\ FlagsOK' /\ QueuesOK'
      BY <2>3 DEF NewConversationCall, IdentityOK, FlagsOK, QueuesOK
    <3>3. ClientOK'
      BY <2>3 DEF NewConversationCall, ClientOK, CallsOK, ReturnAtOnce, Enter
    <3> QED BY <3>1, <3>2, <3>3
  <2>4. ASSUME NEW id \in AgentIds, SetAgentIdCall(c, id) PROVE TypeOK'
    <3>1. CallsOK'
      BY <2>4, CallsTyped DEF SetAgentIdCall, Steps, Ops
    <3>2. IdentityOK' /\ FlagsOK' /\ QueuesOK'
      BY <2>4 DEF SetAgentIdCall, IdentityOK, FlagsOK, QueuesOK
    <3>3. ClientOK'
      BY <2>4 DEF SetAgentIdCall, ClientOK, CallsOK, ReturnAtOnce, Enter
    <3> QED BY <3>1, <3>2, <3>3
  <2>5. ASSUME NEW t \in Tokens, SetRefreshTokenCall(c, t) PROVE TypeOK'
    <3>1. CallsOK'
      BY <2>5, CallsTyped DEF SetRefreshTokenCall, Steps, Ops
    <3>2. IdentityOK' /\ FlagsOK' /\ QueuesOK'
      BY <2>5 DEF SetRefreshTokenCall, IdentityOK, FlagsOK, QueuesOK
    <3>3. ClientOK'
      BY <2>5 DEF SetRefreshTokenCall, ClientOK, CallsOK, ReturnAtOnce, Enter
    <3> QED BY <3>1, <3>2, <3>3
  <2> QED BY <1>1, <2>1, <2>2, <2>3, <2>4, <2>5 DEF Call
<1>2. ASSUME NEW c \in Callers, Continue(c) PROVE TypeOK'
  <2>1. CASE Restart(c)
    <3>1. CallsOK'
      BY <2>1, CallsTyped DEF Restart, Steps, FlagsOK
    <3>2. IdentityOK' /\ FlagsOK' /\ QueuesOK'
      BY <2>1 DEF Restart, IdentityOK, FlagsOK, QueuesOK
    <3>3. ClientOK'
      BY <2>1 DEF Restart, ClientOK, CallsOK, Return, Goto
    <3> QED BY <3>1, <3>2, <3>3
  <2>2. CASE AccessToken(c)
    <3>1. CallsOK'
      BY <2>2, CallsTyped DEF AccessToken, Steps
    <3>2. IdentityOK' /\ FlagsOK' /\ QueuesOK'
      BY <2>2 DEF AccessToken, IdentityOK, FlagsOK, QueuesOK
    <3>3. ClientOK'
      BY <2>2 DEF AccessToken, ClientOK, CallsOK, Return, Goto
    <3> QED BY <3>1, <3>2, <3>3
  <2>3. CASE Connect(c)
    <3>1. CallsOK'
      BY <2>3, CallsTyped DEF Connect, Steps
    <3>2. IdentityOK' /\ FlagsOK' /\ QueuesOK'
      BY <2>3 DEF Connect, IdentityOK, FlagsOK, QueuesOK
    <3>3. ws' \in WsStates /\ uri' \in Uris \cup {NULL}
      <4>1. agentId \in AgentIds
        BY <2>3 DEF Connect, ClientOK, IdentityOK
      <4>2. CASE accessToken = NULL
        BY <2>3, <4>2 DEF Connect, ClientOK, client
      <4>3. CASE accessToken # NULL
        <5>1. [agent |-> agentId, token |-> accessToken] \in Uris
          BY <4>1, <4>3 DEF IdentityOK, Uris
        <5> QED BY <2>3, <4>3, <5>1 DEF Connect, ClientOK, WsStates
      <4> QED BY <4>2, <4>3
    <3>4. ClientOK'
      BY <2>3, <3>3 DEF Connect, ClientOK, CallsOK, Return, Goto
    <3> QED BY <3>1, <3>2, <3>4
  <2>4. CASE MarkStarted(c)
    <3>1. CallsOK'
      BY <2>4, CallsTyped DEF MarkStarted, Steps
    <3>2. IdentityOK' /\ FlagsOK' /\ QueuesOK'
      BY <2>4 DEF MarkStarted, IdentityOK, FlagsOK, QueuesOK
    <3>3. ClientOK'
      BY <2>4 DEF MarkStarted, ClientOK, CallsOK, Return
    <3> QED BY <3>1, <3>2, <3>3
  <2>5. CASE StopEntry(c)
    <3>1. CallsOK'
      BY <2>5, CallsTyped DEF StopEntry, AfterStop, Steps
    <3>2. IdentityOK' /\ FlagsOK' /\ QueuesOK'
      BY <2>5 DEF StopEntry, AfterStop, IdentityOK, FlagsOK, QueuesOK
    <3>3. ClientOK'
      BY <2>5 DEF StopEntry, AfterStop, ClientOK, CallsOK, Return, Goto
    <3> QED BY <3>1, <3>2, <3>3
  <2>6. CASE StopClear(c)
    <3>1. CallsOK'
      BY <2>6, CallsTyped DEF StopClear, AfterStop, Steps
    <3>2. IdentityOK' /\ FlagsOK' /\ QueuesOK'
      BY <2>6, EmptyBounded DEF StopClear, AfterStop, IdentityOK, FlagsOK, QueuesOK, HandshakeStates
    <3>3. ClientOK'
      BY <2>6 DEF StopClear, AfterStop, ClientOK, CallsOK, Return, Goto
    <3> QED BY <3>1, <3>2, <3>3
  <2> QED BY <1>2, <2>1, <2>2, <2>3, <2>4, <2>5, <2>6 DEF Continue
<1>3. CASE WsProgress
  <2> USE DEF WsStates, UpStates
  <2>1. CASE WsConnect
    BY <2>1, EmptyBounded DEF WsConnect, IdentityOK, FlagsOK, QueuesOK, ClientOK, CallsOK
  <2>2. CASE WsConnectFailed
    BY <2>2, PostTyped DEF WsConnectFailed, LinkDownHandler, Events, HandshakeStates,
                           IdentityOK, FlagsOK, QueuesOK, ClientOK, CallsOK
  <2>3. CASE WsSendHandshake
    BY <2>3, PostTyped DEF WsSendHandshake, Events,
                           IdentityOK, FlagsOK, QueuesOK, ClientOK, CallsOK
  <2>4. CASE WsPushHandshake
    <3>1. [kind |-> "handshake", conv |-> convId] \in OutMessages
      BY DEF IdentityOK, OutMessages
    <3>2. sendQ' \in Seq(OutMessages) /\ Len(sendQ') <= SendQueueSize
      BY <2>4, <3>1, AppendBounded DEF WsPushHandshake, QueuesOK
    <3> QED BY <2>4, <3>2 DEF WsPushHandshake, IdentityOK, FlagsOK, QueuesOK, ClientOK, CallsOK
  <2>5. CASE WsConfirm
    BY <2>5, PostTyped DEF WsConfirm, Events, HandshakeStates,
                           IdentityOK, FlagsOK, QueuesOK, ClientOK, CallsOK
  <2>6. CASE WsFinish
    <3>1. CallsOK'
      BY <2>6 DEF WsFinish, CallsOK, Steps
    <3>2. IdentityOK' /\ FlagsOK' /\ QueuesOK'
      BY <2>6, PostTyped DEF WsFinish, LinkDownHandler, Events, HandshakeStates,
                             IdentityOK, FlagsOK, QueuesOK
    <3>3. ClientOK'
      BY <2>6, EmptyBounded DEF WsFinish, ClientOK, CallsOK
    <3> QED BY <3>1, <3>2, <3>3
  <2> QED BY <1>3, <2>1, <2>2, <2>3, <2>4, <2>5, <2>6 DEF WsProgress
<1>4. CASE WsTraffic
  <2>1. CASE WsAck
    <3>1. /\ Head(replies) \in InMessages
          /\ Tail(replies) \in Seq(InMessages)
          /\ Len(Tail(replies)) <= 1
      BY <2>1, TailBounded DEF WsAck, ClientOK
    <3> QED BY <2>1, <3>1, DeliverTyped
            DEF WsAck, IdentityOK, FlagsOK, QueuesOK, ClientOK, CallsOK
  <2>2. CASE WsError
    BY <2>2, DeliverTyped DEF WsError, InMessages, IdentityOK, FlagsOK, QueuesOK, ClientOK, CallsOK
  <2>3. CASE WsSpeech
    BY <2>3, PostTyped DEF WsSpeech, Events, IdentityOK, FlagsOK, QueuesOK, ClientOK, CallsOK
  <2>4. CASE WsLinkLost
    BY <2>4, PostTyped, EmptyBounded DEF WsLinkLost, LinkDownHandler, Events, HandshakeStates, WsStates,
                           IdentityOK, FlagsOK, QueuesOK, ClientOK, CallsOK
  <2> QED BY <1>4, <2>1, <2>2, <2>3, <2>4 DEF WsTraffic
<1>5. ASSUME NEW s \in Senders, QueueCheck(s) \/ QueuePush(s) PROVE TypeOK'
  <2>1. CASE QueueCheck(s)
    BY <2>1 DEF QueueCheck, IdentityOK, FlagsOK, QueuesOK, ClientOK, CallsOK
  <2>2. CASE QueuePush(s)
    <3>1. [kind |-> "data"] \in OutMessages
      BY DEF OutMessages
    <3>2. sendQ' \in Seq(OutMessages) /\ Len(sendQ') <= SendQueueSize
      BY <2>2, <3>1, AppendBounded DEF QueuePush, QueuesOK
    <3> QED BY <2>2, <3>2 DEF QueuePush, IdentityOK, FlagsOK, QueuesOK, ClientOK, CallsOK
  <2> QED BY <1>5, <2>1, <2>2
<1>6. CASE SendTask
  <2>1. sendQ' \in Seq(OutMessages) /\ Len(sendQ') <= SendQueueSize
    BY <1>6, TailBounded DEF SendTask, QueuesOK
  <2>2. replies' \in Seq(InMessages) /\ Len(replies') <= 1
    <3>1. ASSUME NEW id \in ConvIds \cup {NULL}, replies' = <<[kind |-> "ack", conv |-> id]>>
          PROVE  replies' \in Seq(InMessages) /\ Len(replies') <= 1
      <4>1. [kind |-> "ack", conv |-> id] \in InMessages
        BY DEF InMessages
      <4> QED BY <3>1, <4>1
    <3> QED BY <1>6, <3>1 DEF SendTask, ClientOK
  <2> QED BY <1>6, <2>1, <2>2 DEF SendTask, IdentityOK, FlagsOK, QueuesOK, ClientOK, CallsOK
<1>7. CASE MessageTask
  <2>1. messageQ' \in Seq(InMessages) /\ Len(messageQ') <= MessageQueueSize /\ Head(messageQ) \in InMessages
    BY <1>7, TailBounded DEF MessageTask, QueuesOK
  <2>2. CASE Head(messageQ).kind = "ack" /\ HandshakeAck(Head(messageQ))
    <3>1. Head(messageQ).conv \in ConvIds \cup {NULL}
      BY <2>1, <2>2 DEF InMessages
    <3> QED BY <1>7, <2>1, <2>2, <3>1, PostTyped
            DEF MessageTask, HandshakeAck, Events, HandshakeStates,
                IdentityOK, FlagsOK, QueuesOK, ClientOK, CallsOK
  <2>3. CASE Post("ERROR") /\ UNCHANGED <<convId, handshake>>
    BY <1>7, <2>1, <2>3, PostTyped
       DEF MessageTask, Events, IdentityOK, FlagsOK, QueuesOK, ClientOK, CallsOK
  <2> QED BY <1>7, <2>2, <2>3 DEF MessageTask
<1>8. CASE DispatchEvent
  <2>1. evq' \in Seq(Events) /\ Len(evq') <= EventQueueSize
    BY <1>8, TailBounded DEF DispatchEvent, QueuesOK
  <2>2. CallsOK'
    BY <1>8, CallsTyped DEF DispatchEvent, Callers, Steps, Ops, CallsOK
  <2>3. ClientOK'
    BY <1>8 DEF DispatchEvent, ClientOK, CallsOK, Enter
  <2> QED BY <1>8, <2>1, <2>2, <2>3 DEF DispatchEvent, IdentityOK, FlagsOK, QueuesOK
<1>9. CASE UNCHANGED vars
  BY <1>9 DEF vars, IdentityOK, FlagsOK, QueuesOK, ClientOK, CallsOK
<1> QED BY <1>1, <1>2, <1>3, <1>4, <1>5, <1>6, <1>7, <1>8, <1>9 DEF Next

\* The initial state is well typed.
LEMMA TypeInit == Init => TypeOK
  BY EmptyBounded DEF Init, TypeOK, IdentityOK, FlagsOK, QueuesOK, ClientOK, CallsOK,
         HandshakeStates, WsStates, UpStates, Steps, Ops

\* Every field, queue and program counter keeps its range and every queue its
\* bound, whatever the interleaving of the tasks and of any number of callers.
THEOREM TypeCorrect == Spec => []TypeOK
  BY TypeInit, TypeStep, PTL DEF Spec

-----------------------------------------------------------------------------
(* The flags and the connection *)

\* Every step keeps LinkInv: only the client task raises the flags, with its
\* transport open, and every way its transport closes lowers them.
LEMMA LinkStep == LinkInv /\ [Next]_vars => LinkInv'
<1> SUFFICES ASSUME LinkInv, [Next]_vars PROVE LinkInv'
  OBVIOUS
<1> USE DEF LinkInv, LinkFlagsTruthful, identity, flags, queues, client
<1>1. ASSUME NEW c \in Apps, Call(c) PROVE LinkInv'
  <2>1. ASSUME NEW conv \in ConvIds \cup {NULL}, StartCall(c, conv) PROVE LinkInv'
    BY <2>1 DEF StartCall, ReturnAtOnce, Result
  <2>2. CASE StopCall(c)
    BY <2>2 DEF StopCall
  <2>3. CASE NewConversationCall(c)
    BY <2>3 DEF NewConversationCall, Enter, ReturnAtOnce
  <2>4. ASSUME NEW id \in AgentIds, SetAgentIdCall(c, id) PROVE LinkInv'
    BY <2>4 DEF SetAgentIdCall
  <2>5. ASSUME NEW t \in Tokens, SetRefreshTokenCall(c, t) PROVE LinkInv'
    BY <2>5 DEF SetRefreshTokenCall
  <2> QED BY <1>1, <2>1, <2>2, <2>3, <2>4, <2>5 DEF Call
<1>2. ASSUME NEW c \in Callers, Continue(c) PROVE LinkInv'
  <2>1. CASE Restart(c) \/ AccessToken(c) \/ MarkStarted(c) \/ StopEntry(c)
    BY <2>1 DEF Restart, Return, Result, AccessToken, MarkStarted, StopEntry
  <2>2. CASE Connect(c)
    BY <2>2 DEF Connect
  <2>3. CASE StopClear(c)
    BY <2>3 DEF StopClear
  <2> QED BY <1>2, <2>1, <2>2, <2>3 DEF Continue
<1>3. CASE WsProgress
  BY <1>3 DEF WsProgress, WsConnect, WsConnectFailed, WsSendHandshake, WsPushHandshake,
              WsConfirm, WsFinish, LinkDownHandler
<1>4. CASE WsTraffic
  BY <1>4 DEF WsTraffic, WsAck, WsError, WsSpeech, WsLinkLost, LinkDownHandler
<1>5. ASSUME NEW s \in Senders, QueueCheck(s) \/ QueuePush(s) PROVE LinkInv'
  BY <1>5 DEF QueueCheck, QueuePush
<1>6. CASE SendTask
  BY <1>6 DEF SendTask
<1>7. CASE MessageTask
  BY <1>7 DEF MessageTask, HandshakeAck
<1>8. CASE DispatchEvent
  BY <1>8 DEF DispatchEvent
<1>9. CASE UNCHANGED vars
  BY <1>9 DEF vars
<1> QED BY <1>1, <1>2, <1>3, <1>4, <1>5, <1>6, <1>7, <1>8, <1>9 DEF Next

\* `connected` and an awaited ack always belong to an open connection that was
\* given its handshake, for any number of applications, senders and messages.
THEOREM LinkFlagsTheorem == Spec => []LinkFlagsTruthful
<1>1. Init => LinkInv
  BY DEF Init, LinkInv, LinkFlagsTruthful
<1>2. LinkInv => LinkFlagsTruthful
  BY DEF LinkInv
<1> QED BY <1>1, <1>2, LinkStep, PTL DEF Spec

-----------------------------------------------------------------------------
(* The identity of a started session *)

\* Every step keeps CredInv when the API has a single application caller.
LEMMA CredStep ==
    ASSUME NEW app, Apps = {app}, TypeOK, CredInv, [Next]_vars
    PROVE  CredInv'
<1> DEFINE Current == [agent |-> agentId, token |-> refreshToken]
<1> USE DEF identity, flags, queues, client, calls, StopSteps, StartSteps, Reconfiguring
<1> app # EventTask /\ Callers = {app, EventTask}
  BY DEF Callers
<1>0. /\ pc \in [Callers -> Steps] /\ op \in [Callers -> Ops]
      /\ started \in BOOLEAN
  BY DEF TypeOK, CallsOK, FlagsOK
<1>1. ASSUME NEW c \in Apps, Call(c) PROVE CredInv'
  <2> c = app
    BY <1>1
  <2>1. ASSUME NEW conv \in ConvIds \cup {NULL}, StartCall(c, conv) PROVE CredInv'
    BY <1>0, <2>1 DEF CredInv, StartCall, ReturnAtOnce, Enter
  <2>2. CASE StopCall(c)
    BY <1>0, <2>2 DEF CredInv, StopCall, Enter
  <2>3. CASE NewConversationCall(c)
    BY <1>0, <2>3 DEF CredInv, NewConversationCall, Enter, ReturnAtOnce
  <2>4. ASSUME NEW id \in AgentIds, SetAgentIdCall(c, id) PROVE CredInv'
    BY <1>0, <2>4 DEF CredInv, SetAgentIdCall, Enter, ReturnAtOnce
  <2>5. ASSUME NEW t \in Tokens, SetRefreshTokenCall(c, t) PROVE CredInv'
    BY <1>0, <2>5 DEF CredInv, SetRefreshTokenCall, Enter, ReturnAtOnce
  <2> QED BY <1>1, <2>1, <2>2, <2>3, <2>4, <2>5 DEF Call
<1>2. ASSUME NEW c \in Callers, Continue(c) PROVE CredInv'
  <2>1. CASE Restart(c)
    BY <1>0, <2>1 DEF CredInv, Restart, Return, Goto
  <2>2. CASE AccessToken(c)
    BY <1>0, <2>2 DEF CredInv, AccessToken, Return, Goto
  <2>3. CASE Connect(c)
    BY <1>0, <2>3 DEF CredInv, Connect, Return, Goto
  <2>4. CASE MarkStarted(c)
    BY <1>0, <2>4 DEF CredInv, MarkStarted, Return
  <2>5. CASE StopEntry(c)
    BY <1>0, <2>5 DEF CredInv, StopEntry, AfterStop, Return, Goto
  <2>6. CASE StopClear(c)
    BY <1>0, <2>6 DEF CredInv, StopClear, AfterStop, Return, Goto
  <2> QED BY <1>2, <2>1, <2>2, <2>3, <2>4, <2>5, <2>6 DEF Continue
<1>3. CASE WsProgress
  <2>1. CASE WsFinish
    BY <1>0, <2>1 DEF CredInv, WsFinish, LinkDownHandler
  <2>2. CASE WsConnect \/ WsConnectFailed \/ WsSendHandshake \/ WsPushHandshake \/ WsConfirm
    BY <2>2 DEF CredInv, WsConnect, WsConnectFailed, WsSendHandshake, WsPushHandshake,
                WsConfirm, LinkDownHandler
  <2> QED BY <1>3, <2>1, <2>2 DEF WsProgress
<1>4. CASE WsTraffic
  BY <1>4 DEF CredInv, WsTraffic, WsAck, WsError, WsSpeech, WsLinkLost, LinkDownHandler
<1>5. ASSUME NEW s \in Senders, QueueCheck(s) \/ QueuePush(s) PROVE CredInv'
  BY <1>5 DEF CredInv, QueueCheck, QueuePush
<1>6. CASE SendTask
  BY <1>6 DEF CredInv, SendTask
<1>7. CASE MessageTask
  BY <1>7 DEF CredInv, MessageTask, HandshakeAck
<1>8. CASE DispatchEvent
  BY <1>0, <1>8 DEF CredInv, DispatchEvent, Enter
<1>9. CASE UNCHANGED vars
  BY <1>9 DEF CredInv, vars
<1> QED BY <1>1, <1>2, <1>3, <1>4, <1>5, <1>6, <1>7, <1>8, <1>9 DEF Next

\* With a single application caller, and the event task stopping the agent at
\* any time, an agent that counts as started between calls always runs under
\* its present agent id and refresh token.
THEOREM CredentialsTheorem ==
    ASSUME NEW app, Apps = {app}
    PROVE  Spec => []CredentialsCurrent
<1>1. Init => CredInv
  BY DEF Init, CredInv, StartSteps, Callers
<1>2. TypeOK /\ CredInv /\ [Next]_vars => CredInv'
  BY CredStep
<1>3. CredInv => CredentialsCurrent
  BY DEF CredInv, CredentialsCurrent, Reconfiguring, StopSteps
<1> QED BY <1>1, <1>2, <1>3, TypeCorrect, PTL DEF Spec

=============================================================================
