----------------------- MODULE WebsocketClientProofs -----------------------
(***************************************************************************)
(* TLAPS proofs about WebsocketClient: no live session is left behind, and *)
(* the callbacks of a session tell one story, for any number of sessions,  *)
(* of calling threads and of calls.                                        *)
(***************************************************************************)
EXTENDS WebsocketClient, SequenceLemmas

-----------------------------------------------------------------------------
(***************************************************************************)
(* The strengthening for the sessions.  A call that has made a session and *)
(* not started it is the only one to hold it; from DoConnect's critical    *)
(* section on the session is the client's, or was replaced and so closed.  *)
(***************************************************************************)
Reachable(s) ==
  \/ mSession = s \/ closeReq[s]
  \/ \E a \in Apps : call[a].pc = "close" /\ call[a].s = s

HoldsNew(a) == call[a].pc \in {"publish", "connect"}

NewHeldOnce ==
  /\ \A a \in Apps : HoldsNew(a) => call[a].s \in Sessions /\ sess[call[a].s] = "made"
  /\ \A a, b \in Apps : HoldsNew(a) /\ HoldsNew(b) /\ call[a].s = call[b].s => a = b

PublishedReachable ==
  ~Destroyed => \A a \in Apps : call[a].pc = "connect" => Reachable(call[a].s)

WaitsForSession == \A a \in Apps : call[a].pc = "wait" => call[a].s \in Sessions

(***************************************************************************)
(* The strengthening for the callbacks: what a handler may still have to   *)
(* do in each state of its session, and how it relates to what was posted. *)
(***************************************************************************)
NoneQueued(s) == \A k \in 1 .. Len(wq) : wq[k].session # s
NoneTold(s) == told[s] = <<>>

EndNotSignalled(s) ==
  /\ \A k \in 1 .. Len(told[s]) : told[s][k] # "disconnect"
  /\ \A k \in 1 .. Len(wq) : wq[k].session = s => wq[k].kind # "disconnect"

PendingMatches(s) ==
  /\ sess[s] \in {"unused", "made", "connecting"} =>
       pending[s] = <<>> /\ NoneTold(s) /\ NoneQueued(s)
  /\ sess[s] = "open" =>
       /\ pending[s] \in {<<>>, <<"connect", "true">>, <<"true">>, <<"message">>}
       /\ EndNotSignalled(s)
  /\ sess[s] = "over" =>
       pending[s] \in {<<>>, <<"disconnect", "false">>, <<"false">>, <<"disconnect">>}
  /\ pending[s] = <<"connect", "true">> => NoneTold(s) /\ NoneQueued(s)
  /\ pending[s] \in {<<"disconnect", "false">>, <<"disconnect">>} => EndNotSignalled(s)

\* A later event is no connect, an earlier one no disconnect: within what was
\* delivered, within what is queued, and between the two.
InOrder(earlier, later) == later # "connect" /\ earlier # "disconnect"

ToldInOrder(s) ==
  \A j, k \in 1 .. Len(told[s]) : j < k => InOrder(told[s][j], told[s][k])
QueuedInOrder(s) ==
  \A j, k \in 1 .. Len(wq) :
    j < k /\ wq[j].session = s /\ wq[k].session = s => InOrder(wq[j].kind, wq[k].kind)
ToldBeforeQueued(s) ==
  \A j \in 1 .. Len(told[s]) : \A k \in 1 .. Len(wq) :
    wq[k].session = s => InOrder(told[s][j], wq[k].kind)

Orderly(s) ==
  PendingMatches(s) /\ ToldInOrder(s) /\ QueuedInOrder(s) /\ ToldBeforeQueued(s)

SInv == NewHeldOnce /\ WaitsForSession /\ PublishedReachable /\ NoOrphanSession
IInv == TypeOK /\ SInv /\ \A s \in Sessions : Orderly(s)

-----------------------------------------------------------------------------
(***************************************************************************)
(* Types.                                                                  *)
(***************************************************************************)
PCs == {"idle", "publish", "connect", "wait", "close", "send", "shutdown", "stopQueue", "join",
        "destroyed"}
Calls == [pc : PCs, s : Sessions \cup {None}]

\* The steps, one disjunct per action.
LEMMA StepCases ==
  ASSUME [Next]_vars
  PROVE  \/ Shutdown \/ ShutdownLocked \/ WorkQueueStop \/ WorkQueueJoin
         \/ \E a \in Apps, s \in Sessions : Connect(a, s)
         \/ \E a \in Apps : DoConnectLocked(a)
         \/ \E a \in Apps : AsyncConnect(a)
         \/ \E a \in Apps : ConnectReturn(a) \/ ConnectTimeout(a) \/ SendSession(a)
         \/ \E a \in Apps, what \in {"close", "send"} : Lookup(a, what)
         \/ \E a \in Apps : CloseSession(a)
         \/ \E a \in Apps, k \in Kinds : RegisterCallback(a, k)
         \/ \E a \in Apps, h \in Headers : SetHandshakeHeader(a, h)
         \/ \E a \in Apps : ClearHandshakeHeaders(a)
         \/ \E s \in Sessions : SessionConnected(s)
         \/ \E s \in Sessions : ConnectFailed(s)
         \/ \E s \in Sessions : OnSessionMessage(s)
         \/ \E s \in Sessions : OnSessionDisconnect(s)
         \/ \E s \in Sessions : PostEvent(s)
         \/ \E s \in Sessions : CompleteConnect(s)
         \/ InvokeCallback \/ CallbackReturn \/ UNCHANGED vars
  BY DEF Next, CloseLocked, SendLocked

\* Every step keeps the client's fields and the histories in their types.
LEMMA TypeStep == IInv /\ [Next]_vars => TypeOK'
  <1> SUFFICES ASSUME IInv, [Next]_vars PROVE TypeOK'
    OBVIOUS
  <1> USE ConstantsOK DEF IInv, SInv, TypeOK, settings, client, network, queue, history, PCs, Calls
  <1>0. /\ Main \in Apps /\ Worker \in Apps /\ call \in [Apps -> Calls]
        /\ Idle \in Calls /\ [Idle EXCEPT !.pc = "stopQueue"] \in Calls
    BY DEF Idle
  <1>1. CASE Shutdown
    <2>1. mShutdown' \in BOOLEAN
      BY <1>1, Zenon DEF Shutdown
    <2>2. call' \in [Apps -> Calls]
      BY <1>0, <1>1 DEF Shutdown
    <2> QED
      BY <1>1, <2>1, <2>2 DEF Shutdown
  <1>2. CASE ShutdownLocked
    <2>1. call' \in [Apps -> Calls]
      BY <1>0, <1>2 DEF ShutdownLocked
    <2> QED
      BY <1>2, <2>1 DEF ShutdownLocked
  <1>3. CASE WorkQueueStop
    <2>1. wqStopped' \in BOOLEAN
      BY <1>3, Zenon DEF WorkQueueStop
    <2>2. call' \in [Apps -> Calls]
      BY <1>0, <1>3 DEF WorkQueueStop
    <2>3. wq' \in Seq(Event)
      BY <1>3, EmptySeq DEF WorkQueueStop
    <2> QED
      BY <1>3, <2>1, <2>2, <2>3 DEF WorkQueueStop
  <1>4. CASE WorkQueueJoin
    <2>1. call' \in [Apps -> Calls]
      BY <1>0, <1>4 DEF WorkQueueJoin
    <2> QED
      BY <1>4, <2>1 DEF WorkQueueJoin
  <1>5. ASSUME NEW a \in Apps, NEW s \in Sessions, Connect(a, s) PROVE TypeOK'
    <2>1. call' \in [Apps -> Calls]
      BY <1>0, <1>5 DEF Connect
    <2>2. sess' \in [Sessions -> {"unused", "made", "connecting", "open", "over"}]
      BY <1>5 DEF Connect
    <2>3. headers' \in [Sessions -> SUBSET Headers]
      BY <1>5 DEF Connect
    <2> QED
      BY <1>5, <2>1, <2>2, <2>3 DEF Connect
  <1>6. ASSUME NEW a \in Apps, DoConnectLocked(a) PROVE TypeOK'
    <2>1. call' \in [Apps -> Calls]
      BY <1>0, <1>6 DEF DoConnectLocked
    <2>2. closeReq' \in [Sessions -> BOOLEAN]
      <3>1. closeReq' = [s \in Sessions |-> closeReq[s] \/ s = mSession]
        BY <1>6 DEF DoConnectLocked
      <3> QED
        BY <3>1, Zenon
    <2>3. mSession' \in Sessions \cup {None}
      BY <1>0, <1>6 DEF DoConnectLocked
    <2> QED
      BY <1>6, <2>1, <2>2, <2>3 DEF DoConnectLocked
  <1>7. ASSUME NEW a \in Apps, AsyncConnect(a) PROVE TypeOK'
    <2>1. call' \in [Apps -> Calls]
      <3>1. CASE call' = [call EXCEPT ![a].pc = "wait"]
        BY <1>0, <3>1
      <3>2. CASE call' = [call EXCEPT ![a] = Idle]
        BY <1>0, <3>2
      <3> QED
        BY <1>7, <3>1, <3>2 DEF AsyncConnect
    <2>2. sess' \in [Sessions -> {"unused", "made", "connecting", "open", "over"}]
      BY <1>7 DEF AsyncConnect
    <2> QED
      BY <1>7, <2>1, <2>2 DEF AsyncConnect
  <1>8. ASSUME NEW a \in Apps, ConnectReturn(a) \/ ConnectTimeout(a) \/ SendSession(a)
        PROVE  TypeOK'
    <2>1. call' \in [Apps -> Calls]
      BY <1>0, <1>8 DEF ConnectReturn, ConnectTimeout, SendSession
    <2>2. timedOut' \subseteq Sessions
      <3>1. CASE timedOut' = timedOut
        BY <3>1
      <3>2. CASE call[a].pc = "wait" /\ timedOut' = timedOut \cup {call[a].s}
        BY <3>2 DEF WaitsForSession
      <3> QED
        BY <1>8, <3>1, <3>2 DEF ConnectReturn, ConnectTimeout, SendSession
    <2> QED
      BY <1>8, <2>1, <2>2 DEF ConnectReturn, ConnectTimeout, SendSession
  <1>9. ASSUME NEW a \in Apps, NEW what \in {"close", "send"}, Lookup(a, what) PROVE TypeOK'
    <2>1. call' \in [Apps -> Calls]
      BY <1>0, <1>9 DEF Lookup
    <2> QED
      BY <1>9, <2>1 DEF Lookup, Extra
  <1>10. ASSUME NEW a \in Apps, CloseSession(a) PROVE TypeOK'
    <2>1. call' \in [Apps -> Calls]
      BY <1>0, <1>10 DEF CloseSession
    <2>2. closeReq' \in [Sessions -> BOOLEAN]
      <3>1. closeReq' = [s \in Sessions |-> closeReq[s] \/ s = call[a].s]
        BY <1>10 DEF CloseSession
      <3> QED
        BY <3>1, Zenon
    <2> QED
      BY <1>10, <2>1, <2>2 DEF CloseSession
  <1>11. ASSUME NEW a \in Apps, NEW k \in Kinds, RegisterCallback(a, k) PROVE TypeOK'
    <2>1. mCallbacks' \subseteq Kinds
      BY <1>11 DEF RegisterCallback
    <2>2. reregistered' \in BOOLEAN
      BY <1>11, Zenon DEF RegisterCallback
    <2> QED
      BY <1>11, <2>1, <2>2 DEF RegisterCallback, Extra
  <1>12. ASSUME NEW a \in Apps, NEW h \in Headers, SetHandshakeHeader(a, h) PROVE TypeOK'
    BY <1>12 DEF SetHandshakeHeader, Extra
  <1>13. ASSUME NEW a \in Apps, ClearHandshakeHeaders(a) PROVE TypeOK'
    BY <1>13 DEF ClearHandshakeHeaders, Extra
  <1>14. ASSUME NEW s \in Sessions,
                SessionConnected(s) \/ OnSessionMessage(s) \/ OnSessionDisconnect(s)
         PROVE  TypeOK'
    <2>1. pending' \in [Sessions -> Seq(Kinds \cup {"true", "false"})]
      <3>1. /\ <<"connect", "true">> \in Seq(Kinds \cup {"true", "false"})
            /\ <<"message">> \in Seq(Kinds \cup {"true", "false"})
            /\ <<"disconnect">> \in Seq(Kinds \cup {"true", "false"})
        BY DEF Kinds
      <3> QED
        BY <1>14, <3>1 DEF SessionConnected, OnSessionMessage, OnSessionDisconnect
    <2>2. sess' \in [Sessions -> {"unused", "made", "connecting", "open", "over"}]
      BY <1>14 DEF SessionConnected, OnSessionMessage, OnSessionDisconnect
    <2>3. extras' \in Nat
      BY <1>14 DEF SessionConnected, OnSessionMessage, OnSessionDisconnect, Extra
    <2> QED
      BY <1>14, <2>1, <2>2, <2>3 DEF SessionConnected, OnSessionMessage, OnSessionDisconnect
  <1>15. ASSUME NEW s \in Sessions, ConnectFailed(s) PROVE TypeOK'
    <2>1. pending' \in [Sessions -> Seq(Kinds \cup {"true", "false"})]
      <3>1. FailureReport \in Seq(Kinds \cup {"true", "false"})
        BY DEF Kinds, FailureReport
      <3> QED
        BY <1>15, <3>1 DEF ConnectFailed
    <2>2. sess' \in [Sessions -> {"unused", "made", "connecting", "open", "over"}]
      BY <1>15 DEF ConnectFailed
    <2>3. mSession' \in Sessions \cup {None}
      BY <1>15 DEF ConnectFailed, ResetIfCurrent
    <2> QED
      BY <1>15, <2>1, <2>2, <2>3 DEF ConnectFailed
  <1>16. ASSUME NEW s \in Sessions, PostEvent(s) PROVE TypeOK'
    <2>1. /\ pending[s] # <<>> /\ Head(pending[s]) \in Kinds
          /\ pending' = [pending EXCEPT ![s] = Tail(@)]
      BY <1>16 DEF PostEvent
    <2>2. Tail(pending[s]) \in Seq(Kinds \cup {"true", "false"})
      BY <2>1, HeadTailProperties
    <2>3. pending' \in [Sessions -> Seq(Kinds \cup {"true", "false"})]
      BY <2>1, <2>2
    <2>4. [kind |-> Head(pending[s]), session |-> s] \in Event
      BY <2>1 DEF Event
    <2>5. wq' \in Seq(Event)
      BY <1>16, <2>4, AppendProperties DEF PostEvent, Enqueue
    <2> QED
      BY <1>16, <2>3, <2>5 DEF PostEvent
  <1>17. ASSUME NEW s \in Sessions, CompleteConnect(s) PROVE TypeOK'
    <2>1. /\ pending[s] # <<>> /\ Head(pending[s]) \in {"true", "false"}
          /\ pending' = [pending EXCEPT ![s] = Tail(@)]
      BY <1>17 DEF CompleteConnect
    <2>2. Tail(pending[s]) \in Seq(Kinds \cup {"true", "false"})
      BY <2>1, HeadTailProperties
    <2>3. pending' \in [Sessions -> Seq(Kinds \cup {"true", "false"})]
      BY <2>1, <2>2
    <2>4. outcome' \in [Sessions -> {"none", "true", "false"}]
      BY <1>17, <2>1 DEF CompleteConnect
    <2> QED
      BY <1>17, <2>3, <2>4 DEF CompleteConnect
  <1>18. CASE InvokeCallback
    <2>1. running' \in BOOLEAN
      BY <1>18, Zenon DEF InvokeCallback
    <2>2. Head(wq) \in Event /\ wq' \in Seq(Event)
      BY <1>18, HeadTailProperties DEF InvokeCallback
    <2>3. Head(wq).kind \in Kinds /\ Head(wq).session \in Sessions
      BY <2>2 DEF Event
    <2>4. Append(told[Head(wq).session], Head(wq).kind) \in Seq(Kinds)
      BY <2>3, AppendProperties
    <2>5. told' \in [Sessions -> Seq(Kinds)]
      BY <1>18, <2>3, <2>4 DEF InvokeCallback
    <2> QED
      BY <1>18, <2>1, <2>2, <2>5 DEF InvokeCallback
  <1>19. CASE CallbackReturn
    <2>1. running' \in BOOLEAN
      BY <1>19, Zenon DEF CallbackReturn
    <2> QED
      BY <1>19, <2>1 DEF CallbackReturn
  <1>20. CASE UNCHANGED vars
    BY <1>20 DEF vars
  <1> QED
    BY <1>1, <1>2, <1>3, <1>4, <1>5, <1>6, <1>7, <1>8, <1>9, <1>10, <1>11, <1>12, <1>13, <1>14,
       <1>15, <1>16, <1>17, <1>18, <1>19, <1>20, StepCases, Zenon

-----------------------------------------------------------------------------
(***************************************************************************)
(* Sessions.  The steps that leave the client's sessions and calls alone   *)
(* are those of the handlers that report, of the worker and of the         *)
(* functions that only set something.                                      *)
(***************************************************************************)
QuietForSessions == UNCHANGED <<mSession, sess, closeReq, call>>

LEMMA SessionCases ==
  ASSUME [Next]_vars
  PROVE  \/ QuietForSessions
         \/ Shutdown \/ ShutdownLocked \/ WorkQueueStop \/ WorkQueueJoin
         \/ \E a \in Apps, s \in Sessions : Connect(a, s)
         \/ \E a \in Apps : DoConnectLocked(a)
         \/ \E a \in Apps : AsyncConnect(a)
         \/ \E a \in Apps : ConnectReturn(a) \/ ConnectTimeout(a) \/ SendSession(a)
         \/ \E a \in Apps, what \in {"close", "send"} : Lookup(a, what)
         \/ \E a \in Apps : CloseSession(a)
         \/ \E s \in Sessions : SessionConnected(s) \/ OnSessionDisconnect(s)
         \/ \E s \in Sessions : ConnectFailed(s)
  <1> USE DEF QuietForSessions, settings, client, network, queue, history
  <1>1. ASSUME NEW a \in Apps, NEW k \in Kinds, RegisterCallback(a, k) PROVE QuietForSessions
    BY <1>1 DEF RegisterCallback
  <1>2. ASSUME NEW a \in Apps, NEW h \in Headers, SetHandshakeHeader(a, h) PROVE QuietForSessions
    BY <1>2 DEF SetHandshakeHeader
  <1>3. ASSUME NEW a \in Apps, ClearHandshakeHeaders(a) PROVE QuietForSessions
    BY <1>3 DEF ClearHandshakeHeaders
  <1>4. ASSUME NEW s \in Sessions, OnSessionMessage(s) PROVE QuietForSessions
    BY <1>4 DEF OnSessionMessage
  <1>5. ASSUME NEW s \in Sessions, PostEvent(s) PROVE QuietForSessions
    BY <1>5 DEF PostEvent
  <1>6. ASSUME NEW s \in Sessions, CompleteConnect(s) PROVE QuietForSessions
    BY <1>6 DEF CompleteConnect
  <1>7. CASE InvokeCallback
    BY <1>7 DEF InvokeCallback
  <1>8. CASE CallbackReturn
    BY <1>8 DEF CallbackReturn
  <1>9. CASE UNCHANGED vars
    BY <1>9 DEF vars
  <1> QED
    BY <1>1, <1>2, <1>3, <1>4, <1>5, <1>6, <1>7, <1>8, <1>9, StepCases, Zenon

\* A call that is not about to close a session can go on without a session
\* becoming unreachable, as long as mSession and closeReq stay.
LEMMA OtherCallReaches ==
  ASSUME TypeOK, UNCHANGED <<mSession, closeReq>>, NEW a \in Apps, call[a].pc # "close",
         \A b \in Apps \ {a} : call'[b] = call[b]
  PROVE  \A s \in Sessions : Reachable(s) => Reachable(s)'
  BY DEF Reachable, TypeOK

\* No step makes a live session unreachable: what replaces mSession, or takes it
\* out, closes the session; the failure of a session ends it.
LEMMA ReachStep ==
  ASSUME IInv, [Next]_vars, NEW s \in Sessions, Reachable(s)
  PROVE  \/ Reachable(s)'
         \/ Destroyed'
         \/ sess[s] = "connecting" /\ sess'[s] = "over"
  <1> USE ConstantsOK DEF IInv, TypeOK, settings, client, network, queue, history
  <1>1. CASE QuietForSessions
    BY <1>1 DEF QuietForSessions, Reachable
  <1>2. CASE Shutdown
    BY <1>2, OtherCallReaches DEF Shutdown
  <1>3. CASE ShutdownLocked
    <2>1. CASE mSession = s
      BY <1>3, <2>1 DEF ShutdownLocked, Reachable
    <2>2. CASE closeReq[s]
      BY <1>3, <2>2 DEF ShutdownLocked, Reachable
    <2>3. ASSUME NEW a \in Apps, call[a].pc = "close", call[a].s = s PROVE Reachable(s)'
      BY <1>3, <2>3 DEF ShutdownLocked, Reachable
    <2> QED
      BY <2>1, <2>2, <2>3 DEF Reachable
  <1>4. CASE WorkQueueStop
    BY <1>4, OtherCallReaches DEF WorkQueueStop
  <1>5. CASE WorkQueueJoin
    BY <1>5 DEF WorkQueueJoin, Destroyed
  <1>6. ASSUME NEW a \in Apps, NEW r \in Sessions, Connect(a, r) PROVE Reachable(s)'
    BY <1>6, OtherCallReaches DEF Connect, MayCall
  <1>7. ASSUME NEW a \in Apps, DoConnectLocked(a) PROVE Reachable(s)'
    <2>1. CASE mSession = s \/ closeReq[s]
      BY <1>7, <2>1 DEF DoConnectLocked, Reachable
    <2>2. ASSUME NEW b \in Apps, call[b].pc = "close", call[b].s = s PROVE Reachable(s)'
      <3>1. call'[b] = call[b]
        BY <1>7, <2>2 DEF DoConnectLocked
      <3> QED
        BY <2>2, <3>1 DEF Reachable
    <2> QED
      BY <2>1, <2>2 DEF Reachable
  <1>8. ASSUME NEW a \in Apps, AsyncConnect(a) PROVE Reachable(s)'
    BY <1>8, OtherCallReaches DEF AsyncConnect
  <1>9. ASSUME NEW a \in Apps, ConnectReturn(a) \/ ConnectTimeout(a) \/ SendSession(a)
        PROVE  Reachable(s)'
    <2>1. /\ UNCHANGED <<mSession, closeReq>> /\ call[a].pc # "close"
          /\ call' = [call EXCEPT ![a] = Idle]
      BY <1>9 DEF ConnectReturn, ConnectTimeout, SendSession
    <2> QED
      BY <2>1, OtherCallReaches
  <1>10. ASSUME NEW a \in Apps, NEW what \in {"close", "send"}, Lookup(a, what)
         PROVE  Reachable(s)'
    BY <1>10, OtherCallReaches DEF Lookup, MayCall
  <1>11. ASSUME NEW a \in Apps, CloseSession(a) PROVE Reachable(s)'
    <2>1. CASE mSession = s \/ closeReq[s] \/ call[a].s = s
      BY <1>11, <2>1 DEF CloseSession, Reachable
    <2>2. ASSUME NEW b \in Apps, b # a, call[b].pc = "close", call[b].s = s PROVE Reachable(s)'
      <3>1. call'[b] = call[b]
        BY <1>11, <2>2 DEF CloseSession
      <3> QED
        BY <2>2, <3>1 DEF Reachable
    <2> QED
      BY <2>1, <2>2 DEF Reachable
  <1>12. ASSUME NEW r \in Sessions, SessionConnected(r) \/ OnSessionDisconnect(r)
         PROVE  Reachable(s)'
    BY <1>12 DEF SessionConnected, OnSessionDisconnect, Reachable
  <1>13. ASSUME NEW r \in Sessions, ConnectFailed(r)
         PROVE  Reachable(s)' \/ (sess[s] = "connecting" /\ sess'[s] = "over")
    <2>1. /\ closeReq' = closeReq /\ call' = call /\ sess[r] = "connecting"
          /\ sess' = [sess EXCEPT ![r] = "over"]
          /\ mSession' = IF mSession = r THEN None ELSE mSession
      BY <1>13 DEF ConnectFailed, ResetIfCurrent
    <2>2. CASE r = s
      BY <2>1, <2>2
    <2>3. CASE r # s
      BY <2>1, <2>3 DEF Reachable
    <2> QED
      BY <2>2, <2>3
  <1> QED
    BY <1>1, <1>2, <1>3, <1>4, <1>5, <1>6, <1>7, <1>8, <1>9, <1>10, <1>11, <1>12, <1>13,
       SessionCases, Zenon

\* What every step does to the sessions and to the calls that hold new ones.
SessionsGoOn ==
  /\ NewHeldOnce' /\ WaitsForSession'
  /\ \A a \in Apps : call'[a].pc = "connect" =>
       /\ call'[a].s = call[a].s
       /\ call[a].pc = "connect" \/ Reachable(call[a].s)'
  /\ \A s \in Sessions : sess'[s] \in {"connecting", "open"} =>
       \/ sess[s] \in {"connecting", "open"}
       \/ \E a \in Apps : call[a].pc = "connect" /\ call[a].s = s
  /\ Destroyed => Destroyed'

\* A step of one call that neither makes nor starts a session.
LEMMA CallGoesOn ==
  ASSUME IInv, sess' = sess, NEW a \in Apps, call[a].pc # "destroyed",
         call'[a].pc \notin {"publish", "connect", "wait"},
         \A b \in Apps \ {a} : call'[b] = call[b]
  PROVE  SessionsGoOn
  <1> USE ConstantsOK DEF IInv, SInv, TypeOK
  <1>1. NewHeldOnce'
    BY DEF NewHeldOnce, HoldsNew
  <1>2. WaitsForSession'
    BY DEF WaitsForSession
  <1>3. Destroyed => Destroyed'
    BY DEF Destroyed
  <1> QED
    BY <1>1, <1>2, <1>3 DEF SessionsGoOn

\* Only its own call starts a session, only DoConnect's critical section makes
\* it the current one.
LEMMA SessionsStep ==
  ASSUME IInv, [Next]_vars
  PROVE  SessionsGoOn
  <1> USE ConstantsOK DEF IInv, SInv, TypeOK, settings, client, network, queue, history
  <1>1. CASE QuietForSessions
    <2>1. sess' = sess /\ call' = call
      BY <1>1 DEF QuietForSessions
    <2>2. NewHeldOnce' /\ WaitsForSession' /\ (Destroyed => Destroyed')
      BY <2>1 DEF NewHeldOnce, HoldsNew, WaitsForSession, Destroyed
    <2> QED
      BY <2>1, <2>2 DEF SessionsGoOn
  <1>2. CASE Shutdown
    <2>1. /\ call[Main].pc = "idle" /\ sess' = sess
          /\ call' = [call EXCEPT ![Main].pc = "shutdown"]
      BY <1>2 DEF Shutdown
    <2> QED
      BY <2>1, CallGoesOn
  <1>3. CASE ShutdownLocked
    <2>1. /\ call[Main].pc = "shutdown" /\ sess' = sess
          /\ call' = [call EXCEPT ![Main].pc = "close", ![Main].s = mSession]
      BY <1>3 DEF ShutdownLocked
    <2> QED
      BY <2>1, CallGoesOn
  <1>4. CASE WorkQueueStop
    <2>1. /\ call[Main].pc = "stopQueue" /\ sess' = sess
          /\ call' = [call EXCEPT ![Main].pc = "join"]
      BY <1>4 DEF WorkQueueStop
    <2> QED
      BY <2>1, CallGoesOn
  <1>5. CASE WorkQueueJoin
    <2>1. /\ call[Main].pc = "join" /\ sess' = sess
          /\ call' = [call EXCEPT ![Main].pc = "destroyed"]
      BY <1>5 DEF WorkQueueJoin
    <2> QED
      BY <2>1, CallGoesOn
  <1>6. ASSUME NEW a \in Apps, NEW s \in Sessions, Connect(a, s) PROVE SessionsGoOn
    <2>1. /\ sess[s] = "unused" /\ sess' = [sess EXCEPT ![s] = "made"]
          /\ call[a].pc = "idle"
          /\ call' = [call EXCEPT ![a] = [pc |-> "publish", s |-> s]]
      BY <1>6 DEF Connect, MayCall
    <2>2. \A b \in Apps : HoldsNew(b) => call[b].s # s
      BY <2>1 DEF NewHeldOnce
    <2>3. NewHeldOnce'
      BY <2>1, <2>2 DEF NewHeldOnce, HoldsNew
    <2> QED
      BY <2>1, <2>3 DEF SessionsGoOn, WaitsForSession, Destroyed
  <1>7. ASSUME NEW a \in Apps, DoConnectLocked(a) PROVE SessionsGoOn
    <2>1. /\ sess' = sess /\ mSession' = call[a].s /\ call[a].pc = "publish"
          /\ call' = [call EXCEPT ![a].pc = "connect"]
      BY <1>7 DEF DoConnectLocked
    <2>2. Reachable(call[a].s)'
      BY <2>1 DEF Reachable
    <2>3. NewHeldOnce'
      BY <2>1 DEF NewHeldOnce, HoldsNew
    <2> QED
      BY <2>1, <2>2, <2>3 DEF SessionsGoOn, WaitsForSession, Destroyed
  <1>8. ASSUME NEW a \in Apps, AsyncConnect(a) PROVE SessionsGoOn
    <2>1. /\ sess' = [sess EXCEPT ![call[a].s] = "connecting"] /\ call[a].pc = "connect"
          /\ call[a].s \in Sessions
          /\ \A b \in Apps \ {a} : call'[b] = call[b]
          /\ (call'[a].pc = "wait" /\ call'[a].s = call[a].s) \/ call'[a].pc = "idle"
      <3>1. call[a].pc = "connect" /\ sess' = [sess EXCEPT ![call[a].s] = "connecting"]
        BY <1>8 DEF AsyncConnect
      <3>2. call[a].s \in Sessions
        BY <3>1 DEF NewHeldOnce, HoldsNew
      <3>3. CASE call' = [call EXCEPT ![a].pc = "wait"]
        BY <3>1, <3>2, <3>3
      <3>4. CASE call' = [call EXCEPT ![a] = Idle]
        BY <3>1, <3>2, <3>4 DEF Idle
      <3> QED
        BY <1>8, <3>3, <3>4 DEF AsyncConnect
    <2>2. \A b \in Apps \ {a} : HoldsNew(b) => call[b].s # call[a].s
      BY <2>1 DEF NewHeldOnce, HoldsNew
    <2>3. NewHeldOnce'
      <3>1. ~HoldsNew(a)'
        BY <2>1 DEF HoldsNew
      <3>2. \A b \in Apps \ {a} : HoldsNew(b)' => HoldsNew(b) /\ sess'[call[b].s] = sess[call[b].s]
        BY <2>1, <2>2 DEF NewHeldOnce, HoldsNew
      <3> QED
        BY <2>1, <3>1, <3>2 DEF NewHeldOnce
    <2>4. WaitsForSession'
      BY <2>1 DEF WaitsForSession
    <2>5. Destroyed => Destroyed'
      BY <2>1 DEF Destroyed
    <2> QED
      BY <2>1, <2>3, <2>4, <2>5 DEF SessionsGoOn
  <1>9. ASSUME NEW a \in Apps, ConnectReturn(a) \/ ConnectTimeout(a) \/ SendSession(a)
        PROVE  SessionsGoOn
    <2>1. /\ sess' = sess /\ call' = [call EXCEPT ![a] = Idle]
          /\ call[a].pc \in {"wait", "send"}
      BY <1>9 DEF ConnectReturn, ConnectTimeout, SendSession
    <2> QED
      BY <2>1, CallGoesOn DEF Idle
  <1>10. ASSUME NEW a \in Apps, NEW what \in {"close", "send"}, Lookup(a, what) PROVE SessionsGoOn
    <2>1. /\ sess' = sess /\ call' = [call EXCEPT ![a] = [pc |-> what, s |-> mSession]]
          /\ call[a].pc = "idle"
      BY <1>10 DEF Lookup, MayCall
    <2> QED
      BY <2>1, CallGoesOn
  <1>11. ASSUME NEW a \in Apps, CloseSession(a) PROVE SessionsGoOn
    <2>1. /\ sess' = sess /\ call[a].pc = "close"
          /\ \A b \in Apps \ {a} : call'[b] = call[b]
          /\ call'[a].pc \in {"idle", "stopQueue"}
      BY <1>11 DEF CloseSession, Idle
    <2> QED
      BY <2>1, CallGoesOn
  <1>12. ASSUME NEW s \in Sessions,
                SessionConnected(s) \/ OnSessionDisconnect(s) \/ ConnectFailed(s)
         PROVE  SessionsGoOn
    <2>1. /\ call' = call /\ sess[s] \in {"connecting", "open"}
          /\ \A r \in Sessions \ {s} : sess'[r] = sess[r]
      BY <1>12 DEF SessionConnected, OnSessionDisconnect, ConnectFailed
    <2>2. NewHeldOnce' /\ WaitsForSession' /\ (Destroyed => Destroyed')
      BY <2>1 DEF NewHeldOnce, HoldsNew, WaitsForSession, Destroyed
    <2> QED
      BY <2>1, <2>2 DEF SessionsGoOn
  <1> QED
    BY <1>1, <1>2, <1>3, <1>4, <1>5, <1>6, <1>7, <1>8, <1>9, <1>10, <1>11, <1>12, SessionCases,
       Zenon

\* So no live session is left behind.
LEMMA SessionStep == IInv /\ [Next]_vars => SInv'
  <1> SUFFICES ASSUME IInv, [Next]_vars PROVE SInv'
    OBVIOUS
  <1> USE DEF IInv, SInv
  <1>1. SessionsGoOn
    BY SessionsStep
  <1>2. PublishedReachable'
    <2> SUFFICES ASSUME ~Destroyed', NEW a \in Apps, call'[a].pc = "connect"
                 PROVE  Reachable(call[a].s)' /\ call'[a].s = call[a].s
      BY DEF PublishedReachable
    <2>1. CASE call[a].pc = "connect" /\ call'[a].s = call[a].s
      <3>1. call[a].s \in Sessions /\ sess[call[a].s] = "made"
        BY <2>1 DEF NewHeldOnce, HoldsNew
      <3>2. Reachable(call[a].s)
        BY <1>1, <2>1 DEF PublishedReachable, SessionsGoOn
      <3>3. PICK s \in Sessions : s = call[a].s
        BY <3>1
      <3>4. Reachable(s)'
        BY <3>1, <3>2, <3>3, ReachStep
      <3> QED
        BY <2>1, <3>3, <3>4
    <2> QED
      BY <1>1, <2>1 DEF SessionsGoOn
  <1>3. NoOrphanSession'
    <2> SUFFICES ASSUME ~Destroyed', NEW s \in Sessions, sess'[s] \in {"connecting", "open"}
                 PROVE  Reachable(s)'
      BY DEF NoOrphanSession, Reachable
    <2>1. Reachable(s)
      <3>1. CASE sess[s] \in {"connecting", "open"}
        BY <1>1, <3>1 DEF NoOrphanSession, Reachable, SessionsGoOn
      <3>2. ASSUME NEW a \in Apps, call[a].pc = "connect", call[a].s = s PROVE Reachable(s)
        BY <1>1, <3>2 DEF PublishedReachable, SessionsGoOn
      <3> QED
        BY <1>1, <3>1, <3>2 DEF SessionsGoOn
    <2> QED
      BY <2>1, ReachStep
  <1> QED
    BY <1>1, <1>2, <1>3 DEF SessionsGoOn

-----------------------------------------------------------------------------
(***************************************************************************)
(* Callbacks.                                                              *)
(***************************************************************************)
QuietForStories == UNCHANGED <<sess, pending, told, wq>>

LEMMA StoryCases ==
  ASSUME [Next]_vars
  PROVE  \/ QuietForStories \/ WorkQueueStop
         \/ \E a \in Apps, s \in Sessions : Connect(a, s)
         \/ \E a \in Apps : AsyncConnect(a)
         \/ \E s \in Sessions : SessionConnected(s)
         \/ \E s \in Sessions : ConnectFailed(s)
         \/ \E s \in Sessions : OnSessionMessage(s)
         \/ \E s \in Sessions : OnSessionDisconnect(s)
         \/ \E s \in Sessions : PostEvent(s)
         \/ \E s \in Sessions : CompleteConnect(s)
         \/ InvokeCallback
  <1> USE DEF QuietForStories, settings, client, network, queue, history
  <1>1. ASSUME NEW a \in Apps, NEW k \in Kinds, RegisterCallback(a, k) PROVE QuietForStories
    BY <1>1 DEF RegisterCallback
  <1>2. ASSUME NEW a \in Apps, NEW h \in Headers, SetHandshakeHeader(a, h) PROVE QuietForStories
    BY <1>2 DEF SetHandshakeHeader
  <1>3. ASSUME NEW a \in Apps, ClearHandshakeHeaders(a) PROVE QuietForStories
    BY <1>3 DEF ClearHandshakeHeaders
  <1>4. CASE Shutdown \/ ShutdownLocked \/ WorkQueueJoin
    BY <1>4 DEF Shutdown, ShutdownLocked, WorkQueueJoin
  <1>5. ASSUME NEW a \in Apps, DoConnectLocked(a) \/ CloseSession(a) PROVE QuietForStories
    BY <1>5 DEF DoConnectLocked, CloseSession
  <1>6. ASSUME NEW a \in Apps, ConnectReturn(a) \/ ConnectTimeout(a) \/ SendSession(a)
        PROVE  QuietForStories
    BY <1>6 DEF ConnectReturn, ConnectTimeout, SendSession
  <1>7. ASSUME NEW a \in Apps, NEW what \in {"close", "send"}, Lookup(a, what)
        PROVE  QuietForStories
    BY <1>7 DEF Lookup
  <1>8. CASE CallbackReturn
    BY <1>8 DEF CallbackReturn
  <1>9. CASE UNCHANGED vars
    BY <1>9 DEF vars
  <1> QED
    BY <1>1, <1>2, <1>3, <1>4, <1>5, <1>6, <1>7, <1>8, <1>9, StepCases, Zenon

\* What s has told and queued stays as it is.
LEMMA StoryKept ==
  ASSUME NEW s \in Sessions, Orderly(s), told'[s] = told[s], wq' = wq
  PROVE  /\ ToldInOrder(s)' /\ QueuedInOrder(s)' /\ ToldBeforeQueued(s)'
         /\ NoneTold(s) => NoneTold(s)'
         /\ NoneQueued(s) => NoneQueued(s)'
         /\ EndNotSignalled(s) => EndNotSignalled(s)'
  BY DEF Orderly, ToldInOrder, QueuedInOrder, ToldBeforeQueued, NoneTold, NoneQueued,
         EndNotSignalled

\* A session none of whose parts changes keeps its story.
LEMMA OthersOrderly ==
  ASSUME NEW s \in Sessions, Orderly(s), told'[s] = told[s], wq' = wq,
         pending'[s] = pending[s], sess'[s] = sess[s]
  PROVE  Orderly(s)'
  BY StoryKept DEF Orderly, PendingMatches

\* What a handler does next is reported in step with the session's state.
LEMMA ReportStep ==
  ASSUME IInv, NEW s \in Sessions,
         \/ SessionConnected(s) \/ ConnectFailed(s)
         \/ OnSessionMessage(s) \/ OnSessionDisconnect(s)
  PROVE  \A r \in Sessions : Orderly(r)'
  <1> USE DEF IInv, TypeOK, settings, client, network, queue, history
  <1>1. /\ told' = told /\ wq' = wq
        /\ \A r \in Sessions \ {s} : sess'[r] = sess[r] /\ pending'[r] = pending[r]
    BY DEF SessionConnected, ConnectFailed, OnSessionMessage, OnSessionDisconnect
  <1>2. ASSUME NEW r \in Sessions \ {s} PROVE Orderly(r)'
    BY <1>1, OthersOrderly
  <1>3. Orderly(s)
    OBVIOUS
  <1>4. PendingMatches(s)'
    <2>1. CASE SessionConnected(s)
      <3>1. /\ sess[s] = "connecting" /\ sess'[s] = "open"
            /\ pending'[s] = <<"connect", "true">>
        BY <2>1 DEF SessionConnected
      <3>2. NoneTold(s)' /\ NoneQueued(s)'
        BY <1>1, <1>3, <3>1, StoryKept DEF Orderly, PendingMatches
      <3>3. EndNotSignalled(s)'
        BY <3>2 DEF NoneTold, NoneQueued, EndNotSignalled
      <3> QED
        BY <3>1, <3>2, <3>3 DEF PendingMatches
    <2>2. CASE ConnectFailed(s)
      <3>1. /\ sess[s] = "connecting" /\ sess'[s] = "over"
            /\ pending'[s] = <<"disconnect", "false">>
        BY <2>2 DEF ConnectFailed, FailureReport
      <3>2. NoneTold(s)' /\ NoneQueued(s)'
        BY <1>1, <1>3, <3>1, StoryKept DEF Orderly, PendingMatches
      <3>3. EndNotSignalled(s)'
        BY <3>2 DEF NoneTold, NoneQueued, EndNotSignalled
      <3> QED
        BY <3>1, <3>2, <3>3 DEF PendingMatches
    <2>3. CASE OnSessionMessage(s)
      <3>1. sess[s] = "open" /\ sess'[s] = "open" /\ pending'[s] = <<"message">>
        BY <2>3 DEF OnSessionMessage
      <3>2. EndNotSignalled(s)'
        BY <1>1, <1>3, <3>1, StoryKept DEF Orderly, PendingMatches
      <3> QED
        BY <3>1, <3>2 DEF PendingMatches
    <2>4. CASE OnSessionDisconnect(s)
      <3>1. sess[s] = "open" /\ sess'[s] = "over" /\ pending'[s] = <<"disconnect">>
        BY <2>4 DEF OnSessionDisconnect
      <3>2. EndNotSignalled(s)'
        BY <1>1, <1>3, <3>1, StoryKept DEF Orderly, PendingMatches
      <3> QED
        BY <3>1, <3>2 DEF PendingMatches
    <2> QED
      BY <2>1, <2>2, <2>3, <2>4
  <1> QED
    BY <1>1, <1>2, <1>3, <1>4, StoryKept DEF Orderly

\* The promise is set: nothing is told.
LEMMA CompleteStep ==
  ASSUME IInv, NEW s \in Sessions, CompleteConnect(s)
  PROVE  \A r \in Sessions : Orderly(r)'
  <1> USE DEF IInv, TypeOK, settings, client, network, queue, history
  <1>1. /\ told' = told /\ wq' = wq /\ sess' = sess
        /\ \A r \in Sessions \ {s} : pending'[r] = pending[r]
        /\ pending[s] # <<>> /\ Head(pending[s]) \in {"true", "false"}
        /\ pending'[s] = Tail(pending[s])
    BY DEF CompleteConnect
  <1>2. ASSUME NEW r \in Sessions \ {s} PROVE Orderly(r)'
    BY <1>1, OthersOrderly
  <1>3. Orderly(s)
    OBVIOUS
  <1>4. \/ sess[s] = "open" /\ pending[s] = <<"true">>
        \/ sess[s] = "over" /\ pending[s] = <<"false">>
    <2>1. PendingMatches(s) /\ sess[s] \in {"unused", "made", "connecting", "open", "over"}
      BY <1>3 DEF Orderly
    <2>2. CASE sess[s] = "open"
      <3>1. pending[s] \in {<<"connect", "true">>, <<"true">>, <<"message">>}
        BY <1>1, <2>1, <2>2 DEF PendingMatches
      <3> QED
        BY <1>1, <2>2, <3>1
    <2>3. CASE sess[s] = "over"
      <3>1. pending[s] \in {<<"disconnect", "false">>, <<"false">>, <<"disconnect">>}
        BY <1>1, <2>1, <2>3 DEF PendingMatches
      <3> QED
        BY <1>1, <2>3, <3>1
    <2> QED
      BY <1>1, <2>1, <2>2, <2>3 DEF PendingMatches
  <1>5. pending'[s] = <<>>
    BY <1>1, <1>4, HeadTailOne
  <1>6. sess[s] = "open" => EndNotSignalled(s)'
    BY <1>1, <1>3, StoryKept DEF Orderly, PendingMatches
  <1>7. PendingMatches(s)'
    BY <1>1, <1>4, <1>5, <1>6, ShortSeqsDiffer DEF PendingMatches
  <1> QED
    BY <1>1, <1>2, <1>3, <1>7, StoryKept DEF Orderly

\* An event is posted behind everything told and queued for its session.
LEMMA PostStep ==
  ASSUME IInv, NEW s \in Sessions, PostEvent(s)
  PROVE  \A r \in Sessions : Orderly(r)'
  <1>1. /\ told' = told /\ sess' = sess
        /\ pending[s] # <<>> /\ Head(pending[s]) \in Kinds
        /\ pending'[s] = Tail(pending[s])
        /\ \A r \in Sessions \ {s} : pending'[r] = pending[r]
    BY DEF PostEvent, IInv, TypeOK, history
  <1>2. Orderly(s) /\ PendingMatches(s)
    BY DEF IInv, Orderly
  <1>3. \/ sess[s] = "open" /\ pending[s] = <<"connect", "true">>
        \/ sess[s] = "open" /\ pending[s] = <<"message">>
        \/ sess[s] = "over" /\ pending[s] = <<"disconnect", "false">>
        \/ sess[s] = "over" /\ pending[s] = <<"disconnect">>
    <2>1. Head(<<"true">>) \notin Kinds /\ Head(<<"false">>) \notin Kinds
      BY HeadTailOne DEF Kinds
    <2>2. sess[s] \in {"unused", "made", "connecting", "open", "over"}
      BY DEF IInv, TypeOK
    <2> QED
      BY <1>1, <1>2, <2>1, <2>2 DEF PendingMatches
  <1>4. /\ EndNotSignalled(s)
        /\ Head(pending[s]) = "connect" => NoneTold(s) /\ NoneQueued(s)
        /\ sess[s] = "open" => Head(pending[s]) # "disconnect" /\ pending'[s] \in {<<>>, <<"true">>}
        /\ sess[s] = "over" => pending'[s] \in {<<>>, <<"false">>}
    <2>1. CASE sess[s] = "open" /\ pending[s] = <<"connect", "true">>
      BY <1>1, <1>2, <2>1, HeadTailTwo DEF PendingMatches
    <2>2. CASE sess[s] = "open" /\ pending[s] = <<"message">>
      BY <1>1, <1>2, <2>2, HeadTailOne DEF PendingMatches
    <2>3. CASE sess[s] = "over" /\ pending[s] = <<"disconnect", "false">>
      BY <1>1, <1>2, <2>3, HeadTailTwo DEF PendingMatches
    <2>4. CASE sess[s] = "over" /\ pending[s] = <<"disconnect">>
      BY <1>1, <1>2, <2>4, HeadTailOne DEF PendingMatches
    <2> QED
      BY <1>3, <2>1, <2>2, <2>3, <2>4
  <1>5. PICK e \in Event : e.kind = Head(pending[s]) /\ e.session = s /\ wq' \in {wq, Append(wq, e)}
    <2>1. [kind |-> Head(pending[s]), session |-> s] \in Event
      BY <1>1 DEF Event
    <2> QED
      BY <2>1 DEF PostEvent, Enqueue
  <1>6. /\ pending'[s] # <<"connect", "true">>
        /\ pending'[s] \notin {<<"disconnect", "false">>, <<"disconnect">>}
    <2>1. pending'[s] \in {<<>>, <<"true">>, <<"false">>}
      BY <1>3, <1>4
    <2>2. <<"true">> # <<"disconnect">> /\ <<"false">> # <<"disconnect">>
      BY HeadTailOne
    <2> QED
      BY <2>1, <2>2, ShortSeqsDiffer
  <1>7. CASE wq' = wq
    <2>1. ASSUME NEW r \in Sessions \ {s} PROVE Orderly(r)'
      BY <1>1, <1>7, OthersOrderly DEF IInv
    <2>2. sess[s] = "open" => EndNotSignalled(s)'
      BY <1>1, <1>2, <1>4, <1>7, StoryKept
    <2>3. PendingMatches(s)'
      BY <1>1, <1>3, <1>4, <1>6, <2>2 DEF PendingMatches
    <2> QED
      BY <1>1, <1>2, <1>7, <2>1, <2>3, StoryKept DEF Orderly
  <1>8. CASE wq' = Append(wq, e)
    <2>1. /\ Len(wq') = Len(wq) + 1 /\ Len(wq) \in Nat
          /\ \A k \in 1 .. Len(wq') :
               \/ k \in 1 .. Len(wq) /\ wq'[k] = wq[k]
               \/ k = Len(wq) + 1 /\ wq'[k] = e
      BY <1>8, AppendedElements DEF IInv, TypeOK
    <2>2. ASSUME NEW r \in Sessions \ {s} PROVE Orderly(r)'
      <3>1. Orderly(r) /\ r # e.session
        BY <1>5, <2>2 DEF IInv
      <3>2. /\ NoneTold(r)' = NoneTold(r)
            /\ NoneQueued(r) => NoneQueued(r)'
            /\ EndNotSignalled(r) => EndNotSignalled(r)'
        BY <1>1, <2>1, <3>1 DEF NoneTold, NoneQueued, EndNotSignalled
      <3>3. PendingMatches(r)'
        BY <1>1, <3>1, <3>2 DEF Orderly, PendingMatches
      <3>4. ToldInOrder(r)'
        BY <1>1, <3>1 DEF Orderly, ToldInOrder
      <3>5. QueuedInOrder(r)'
        BY <2>1, <3>1 DEF Orderly, QueuedInOrder
      <3>6. ToldBeforeQueued(r)'
        BY <1>1, <2>1, <3>1 DEF Orderly, ToldBeforeQueued
      <3> QED
        BY <3>3, <3>4, <3>5, <3>6 DEF Orderly
    <2>3. PendingMatches(s)'
      <3>1. sess[s] = "open" => EndNotSignalled(s)'
        BY <1>1, <1>4, <1>5, <2>1 DEF EndNotSignalled
      <3> QED
        BY <1>1, <1>3, <1>4, <1>6, <3>1 DEF PendingMatches
    <2>4. ToldInOrder(s)'
      BY <1>1, <1>2 DEF Orderly, ToldInOrder
    <2>5. QueuedInOrder(s)'
      BY <1>2, <1>4, <1>5, <2>1
         DEF Orderly, QueuedInOrder, InOrder, EndNotSignalled, NoneQueued
    <2>6. ToldBeforeQueued(s)'
      <3>1. Head(pending[s]) = "connect" => Len(told[s]) = 0
        BY <1>4 DEF NoneTold
      <3> QED
        BY <1>1, <1>2, <1>4, <1>5, <2>1, <3>1
           DEF Orderly, ToldBeforeQueued, InOrder, EndNotSignalled
    <2> QED
      BY <2>2, <2>3, <2>4, <2>5, <2>6 DEF Orderly
  <1> QED
    BY <1>5, <1>7, <1>8

\* The worker moves the oldest event from the queue to what was told.
LEMMA InvokeStep ==
  ASSUME IInv, InvokeCallback
  PROVE  \A s \in Sessions : Orderly(s)'
  <1>1. sess' = sess /\ pending' = pending /\ wq # <<>> /\ wq' = Tail(wq)
    BY DEF InvokeCallback, network
  <1>2. PICK e \in Event : e = wq[1] /\ e = Head(wq)
    BY <1>1, TailElements DEF IInv, TypeOK
  <1>3. e.session \in Sessions /\ e.kind \in Kinds
    BY DEF Event
  <1>4. /\ Len(wq') \in Nat /\ 1 \in 1 .. Len(wq)
        /\ \A k \in 1 .. Len(wq') : k + 1 \in 1 .. Len(wq) /\ wq'[k] = wq[k + 1]
    BY <1>1, TailElements DEF IInv, TypeOK
  <1>5. ASSUME NEW s \in Sessions PROVE Orderly(s)'
    <2>1. Orderly(s) /\ told[s] \in Seq(Kinds)
      BY DEF IInv, TypeOK
    <2>2. NoneQueued(s) => NoneQueued(s)'
      BY <1>4 DEF NoneQueued
    <2>3. QueuedInOrder(s)'
      <3> SUFFICES ASSUME NEW j \in 1 .. Len(wq'), NEW k \in 1 .. Len(wq'), j < k,
                          wq'[j].session = s, wq'[k].session = s
                   PROVE  InOrder(wq'[j].kind, wq'[k].kind)
        BY DEF QueuedInOrder, InOrder
      <3>1. j + 1 < k + 1
        OBVIOUS
      <3> QED
        BY <1>4, <2>1, <3>1 DEF Orderly, QueuedInOrder
    <2>4. CASE e.session # s
      <3>1. told'[s] = told[s]
        BY <1>2, <1>3, <2>4 DEF InvokeCallback, IInv, TypeOK
      <3>2. NoneTold(s) => NoneTold(s)'
        BY <3>1 DEF NoneTold
      <3>3. EndNotSignalled(s) => EndNotSignalled(s)'
        BY <1>4, <3>1 DEF EndNotSignalled
      <3>4. PendingMatches(s)'
        BY <1>1, <2>1, <2>2, <3>2, <3>3 DEF Orderly, PendingMatches
      <3>5. ToldInOrder(s)'
        BY <2>1, <3>1 DEF Orderly, ToldInOrder
      <3>6. ToldBeforeQueued(s)'
        BY <1>4, <2>1, <3>1 DEF Orderly, ToldBeforeQueued
      <3> QED
        BY <2>3, <3>4, <3>5, <3>6 DEF Orderly
    <2>5. CASE e.session = s
      <3>1. told'[s] = Append(told[s], e.kind)
        BY <1>2, <1>3, <2>5 DEF InvokeCallback, IInv, TypeOK
      <3>2. /\ Len(told'[s]) = Len(told[s]) + 1 /\ Len(told[s]) \in Nat
            /\ \A k \in 1 .. Len(told'[s]) :
                 \/ k \in 1 .. Len(told[s]) /\ told'[s][k] = told[s][k]
                 \/ k = Len(told[s]) + 1 /\ told'[s][k] = e.kind
        BY <1>3, <2>1, <3>1, AppendedElements
      <3>3. ~NoneQueued(s)
        BY <1>2, <1>4, <2>5 DEF NoneQueued
      <3>4. EndNotSignalled(s) => EndNotSignalled(s)'
        <4> SUFFICES ASSUME EndNotSignalled(s) PROVE EndNotSignalled(s)'
          OBVIOUS
        <4>1. e.kind # "disconnect"
          BY <1>2, <1>4, <2>5 DEF EndNotSignalled
        <4> QED
          BY <1>4, <3>2, <4>1 DEF EndNotSignalled
      <3>5. PendingMatches(s)'
        BY <1>1, <2>1, <3>3, <3>4 DEF Orderly, PendingMatches
      <3>6. \A j \in 1 .. Len(told[s]) : InOrder(told[s][j], e.kind)
        BY <1>2, <1>4, <2>1, <2>5 DEF Orderly, ToldBeforeQueued
      <3>7. ToldInOrder(s)'
        BY <2>1, <3>2, <3>6 DEF Orderly, ToldInOrder
      <3>8. \A k \in 1 .. Len(wq') : wq'[k].session = s => InOrder(e.kind, wq'[k].kind)
        <4> SUFFICES ASSUME NEW k \in 1 .. Len(wq'), wq'[k].session = s
                     PROVE  InOrder(e.kind, wq'[k].kind)
          OBVIOUS
        <4>1. 1 < k + 1
          OBVIOUS
        <4> QED
          BY <1>2, <1>4, <2>1, <2>5, <4>1 DEF Orderly, QueuedInOrder
      <3>9. ToldBeforeQueued(s)'
        BY <1>4, <2>1, <3>2, <3>8 DEF Orderly, ToldBeforeQueued
      <3> QED
        BY <2>3, <3>5, <3>7, <3>9 DEF Orderly
    <2> QED
      BY <2>4, <2>5
  <1> QED
    BY <1>5

\* Every step keeps the stories in order.
LEMMA StoryStep == IInv /\ [Next]_vars => (\A s \in Sessions : Orderly(s))'
  <1> SUFFICES ASSUME IInv, [Next]_vars PROVE \A s \in Sessions : Orderly(s)'
    OBVIOUS
  <1>1. CASE QuietForStories
    BY <1>1, OthersOrderly DEF QuietForStories, IInv
  <1>2. CASE WorkQueueStop
    <2>1. sess' = sess /\ pending' = pending /\ told' = told /\ wq' = <<>>
      BY <1>2 DEF WorkQueueStop, network, history
    <2>2. ASSUME NEW s \in Sessions PROVE Orderly(s)'
      <3>1. Orderly(s) /\ Len(wq') = 0
        BY <2>1 DEF IInv
      <3>2. /\ NoneQueued(s)' /\ QueuedInOrder(s)' /\ ToldBeforeQueued(s)'
            /\ NoneTold(s) => NoneTold(s)'
            /\ EndNotSignalled(s) => EndNotSignalled(s)'
        BY <2>1, <3>1
           DEF NoneQueued, QueuedInOrder, ToldBeforeQueued, NoneTold, EndNotSignalled
      <3>3. PendingMatches(s)'
        BY <2>1, <3>1, <3>2 DEF Orderly, PendingMatches
      <3>4. ToldInOrder(s)'
        BY <2>1, <3>1 DEF Orderly, ToldInOrder
      <3> QED
        BY <3>2, <3>3, <3>4 DEF Orderly
    <2> QED
      BY <2>2
  <1>3. ASSUME NEW a \in Apps,
               (\E s \in Sessions : Connect(a, s)) \/ AsyncConnect(a)
        PROVE  \A s \in Sessions : Orderly(s)'
    <2>1. pending' = pending /\ told' = told /\ wq' = wq
      BY <1>3 DEF Connect, AsyncConnect, history, queue
    <2>2. \A s \in Sessions :
            \/ sess'[s] = sess[s]
            \/ sess[s] \in {"unused", "made"} /\ sess'[s] \in {"made", "connecting"}
      <3>1. CASE \E s \in Sessions : Connect(a, s)
        BY <3>1 DEF Connect, IInv, TypeOK
      <3>2. CASE AsyncConnect(a)
        <4>1. sess[call[a].s] = "made" /\ sess' = [sess EXCEPT ![call[a].s] = "connecting"]
          BY <3>2 DEF AsyncConnect, IInv, SInv, NewHeldOnce, HoldsNew
        <4> QED
          BY <4>1 DEF IInv, TypeOK
      <3> QED
        BY <1>3, <3>1, <3>2
    <2>3. ASSUME NEW s \in Sessions PROVE Orderly(s)'
      <3>1. Orderly(s)
        BY DEF IInv
      <3>2. CASE sess'[s] = sess[s]
        BY <2>1, <3>1, <3>2, OthersOrderly
      <3>3. CASE sess[s] \in {"unused", "made"} /\ sess'[s] \in {"made", "connecting"}
        <4>1. pending[s] = <<>> /\ NoneTold(s) /\ NoneQueued(s)
          BY <3>1, <3>3 DEF Orderly, PendingMatches
        <4>2. NoneTold(s)' /\ NoneQueued(s)'
          BY <2>1, <3>1, <4>1, StoryKept
        <4>3. PendingMatches(s)'
          BY <2>1, <3>3, <4>1, <4>2, ShortSeqsDiffer DEF PendingMatches
        <4> QED
          BY <2>1, <3>1, <4>3, StoryKept DEF Orderly
      <3> QED
        BY <2>2, <3>2, <3>3
    <2> QED
      BY <2>3
  <1> QED
    BY <1>1, <1>2, <1>3, StoryCases, ReportStep, PostStep, CompleteStep, InvokeStep

-----------------------------------------------------------------------------
(***************************************************************************)
(* The theorems.                                                           *)
(***************************************************************************)
\* A handler posts at most one event, and does so first.
LEMMA PendingEvent ==
  ASSUME NEW s \in Sessions, PendingMatches(s), NEW k \in 1 .. Len(pending[s]),
         pending[s][k] \in Kinds,
         sess[s] \in {"unused", "made", "connecting", "open", "over"}
  PROVE  /\ k = 1
         /\ EndNotSignalled(s)
         /\ pending[s][k] = "connect" => NoneTold(s) /\ NoneQueued(s)
  <1> USE DEF Kinds
  <1>1. CASE pending[s] = <<>>
    BY <1>1
  <1>2. CASE pending[s] = <<"connect", "true">>
    <2>1. k = 1 /\ sess[s] = "open"
      BY <1>2, ShortSeqsDiffer DEF PendingMatches
    <2> QED
      BY <1>2, <2>1 DEF PendingMatches
  <1>3. CASE pending[s] = <<"message">>
    <2>1. k = 1 /\ pending[s][k] = "message"
      BY <1>3
    <2>2. sess[s] = "open"
      <3>1. <<"message">> # <<"false">> /\ <<"message">> # <<"disconnect">>
        BY HeadTailOne
      <3> QED
        BY <1>3, <3>1, ShortSeqsDiffer DEF PendingMatches
    <2> QED
      BY <1>3, <2>1, <2>2 DEF PendingMatches
  <1>4. CASE pending[s] = <<"true">> \/ pending[s] = <<"false">>
    BY <1>4
  <1>5. CASE pending[s] = <<"disconnect", "false">>
    BY <1>5 DEF PendingMatches
  <1>6. CASE pending[s] = <<"disconnect">>
    BY <1>6 DEF PendingMatches
  <1> QED
    BY <1>1, <1>2, <1>3, <1>4, <1>5, <1>6 DEF PendingMatches

\* The invariant says what OneStoryPerSession says.
LEMMA StoryInOrder == IInv => OneStoryPerSession
  <1> SUFFICES ASSUME IInv, NEW s \in Sessions,
                      NEW j \in 1 .. Len(Story(s)), NEW k \in 1 .. Len(Story(s)), j < k,
                      Story(s)[j].session = s, Story(s)[k].session = s,
                      Story(s)[k].kind \in Kinds
               PROVE  InOrder(Story(s)[j].kind, Story(s)[k].kind)
    BY DEF OneStoryPerSession, InOrder
  <1> DEFINE Told == Of(s, told[s])
             Todo == Of(s, pending[s])
             All == Kinds \cup {"true", "false"}
             Events == [kind : All, session : Sessions]
  <1>1. Orderly(s) /\ PendingMatches(s)
    BY DEF IInv, Orderly
  <1>2. /\ told[s] \in Seq(All) /\ pending[s] \in Seq(All) /\ wq \in Seq(Events)
        /\ sess[s] \in {"unused", "made", "connecting", "open", "over"}
    <2>1. /\ Kinds \subseteq All /\ Event \subseteq Events
          /\ told[s] \in Seq(Kinds) /\ pending[s] \in Seq(All) /\ wq \in Seq(Event)
          /\ sess[s] \in {"unused", "made", "connecting", "open", "over"}
      BY DEF IInv, TypeOK, Event
    <2> QED
      BY <2>1, SeqMonotonic
  <1>3. ASSUME NEW q \in Seq(All)
        PROVE  /\ Of(s, q) \in Seq(Events) /\ Len(Of(s, q)) = Len(q)
               /\ \A i \in 1 .. Len(q) : Of(s, q)[i].kind = q[i]
    BY DEF Of
  <1>4. /\ Told \in Seq(Events) /\ Len(Told) = Len(told[s])
        /\ \A i \in 1 .. Len(told[s]) : Told[i].kind = told[s][i]
        /\ Todo \in Seq(Events) /\ Len(Todo) = Len(pending[s])
        /\ \A i \in 1 .. Len(pending[s]) : Todo[i].kind = pending[s][i]
        /\ Len(told[s]) \in Nat /\ Len(wq) \in Nat /\ Len(pending[s]) \in Nat
    BY <1>2, <1>3, LenProperties
  <1>5. Story(s) = Told \o wq \o Todo
    BY DEF Story
  <1>6. ASSUME NEW i \in 1 .. Len(Story(s))
        PROVE  \/ i \in 1 .. Len(told[s]) /\ Story(s)[i].kind = told[s][i]
               \/ /\ i - Len(told[s]) \in 1 .. Len(wq)
                  /\ Story(s)[i] = wq[i - Len(told[s])]
               \/ /\ i - Len(told[s]) - Len(wq) \in 1 .. Len(pending[s])
                  /\ Story(s)[i].kind = pending[s][i - Len(told[s]) - Len(wq)]
    <2>1. \/ i \in 1 .. Len(Told) /\ Story(s)[i] = Told[i]
          \/ i - Len(Told) \in 1 .. Len(wq) /\ Story(s)[i] = wq[i - Len(Told)]
          \/ /\ i - Len(Told) - Len(wq) \in 1 .. Len(Todo)
             /\ Story(s)[i] = Todo[i - Len(Told) - Len(wq)]
      <3> HIDE DEF Told, Todo, Events
      <3>1. /\ Told \in Seq(Events) /\ wq \in Seq(Events) /\ Todo \in Seq(Events)
            /\ i \in 1 .. Len(Told \o wq \o Todo)
        BY <1>2, <1>4, <1>5
      <3>2. \/ i \in 1 .. Len(Told) /\ (Told \o wq \o Todo)[i] = Told[i]
            \/ i - Len(Told) \in 1 .. Len(wq) /\ (Told \o wq \o Todo)[i] = wq[i - Len(Told)]
            \/ /\ i - Len(Told) - Len(wq) \in 1 .. Len(Todo)
               /\ (Told \o wq \o Todo)[i] = Todo[i - Len(Told) - Len(wq)]
        BY <3>1, ThreeParts
      <3> QED
        BY <1>5, <3>2
    <2> QED
      BY <1>4, <2>1
  <1> HIDE DEF Told, Todo, All, Events
  <1> DEFINE InTold(i) == i \in 1 .. Len(told[s]) /\ Story(s)[i].kind = told[s][i]
             InQueue(i) == /\ i - Len(told[s]) \in 1 .. Len(wq)
                           /\ Story(s)[i] = wq[i - Len(told[s])]
             InTodo(i) == /\ i - Len(told[s]) - Len(wq) \in 1 .. Len(pending[s])
                          /\ Story(s)[i].kind = pending[s][i - Len(told[s]) - Len(wq)]
  <1>7. j \in Int /\ k \in Int
    OBVIOUS
  <1>8. CASE InTold(j) /\ InTold(k)
    BY <1>1, <1>8 DEF Orderly, ToldInOrder
  <1>9. CASE InTold(j) /\ InQueue(k)
    BY <1>1, <1>9 DEF Orderly, ToldBeforeQueued
  <1>10. CASE InQueue(j) /\ InQueue(k)
    <2>1. j - Len(told[s]) < k - Len(told[s])
      BY <1>4, <1>7
    <2> QED
      BY <1>1, <1>10, <2>1 DEF Orderly, QueuedInOrder
  <1>11. CASE InTodo(k)
    <2>1. /\ k - Len(told[s]) - Len(wq) = 1
          /\ EndNotSignalled(s)
          /\ Story(s)[k].kind = "connect" => NoneTold(s) /\ NoneQueued(s)
      BY <1>1, <1>2, <1>11, PendingEvent
    <2>2. ~InTodo(j)
      <3>1. \A l \in 1 .. Len(pending[s]) : 1 <= l
        OBVIOUS
      <3>2. \A x, y \in Int : x < y => x - Len(told[s]) - Len(wq) < y - Len(told[s]) - Len(wq)
        BY <1>4
      <3>3. j - Len(told[s]) - Len(wq) < 1
        BY <1>7, <2>1, <3>2
      <3> QED
        BY <1>4, <1>7, <3>1, <3>3
    <2>3. CASE InTold(j)
      <3>1. ~NoneTold(s)
        BY <2>3 DEF NoneTold
      <3> QED
        BY <2>1, <2>3, <3>1 DEF EndNotSignalled, InOrder
    <2>4. CASE InQueue(j)
      BY <2>1, <2>4 DEF EndNotSignalled, NoneQueued, InOrder
    <2> QED
      BY <1>6, <2>2, <2>3, <2>4
  <1>12. (InTold(k) => InTold(j)) /\ (InQueue(k) => ~InTodo(j))
    <2>1. CASE InTold(k)
      BY <1>4, <1>7, <2>1, <1>6
    <2>2. CASE InQueue(k)
      BY <1>4, <1>7, <2>2
    <2> QED
      BY <2>1, <2>2
  <1> QED
    BY <1>6, <1>8, <1>9, <1>10, <1>11, <1>12

\* The invariant holds before the first call.
LEMMA InitInvariant == Init => IInv
  <1> SUFFICES ASSUME Init PROVE IInv
    OBVIOUS
  <1>1. TypeOK
    <2>1. Idle \in Calls
      BY DEF Idle, Calls, PCs
    <2>2. call \in [Apps -> Calls]
      BY <2>1 DEF Init
    <2>3. <<>> \in Seq(Kinds \cup {"true", "false"}) /\ <<>> \in Seq(Event) /\ <<>> \in Seq(Kinds)
      BY EmptySeq
    <2> QED
      BY <2>2, <2>3, ConstantsOK DEF Init, TypeOK, Calls, PCs
  <1>2. SInv
    BY DEF Init, SInv, NewHeldOnce, HoldsNew, WaitsForSession, PublishedReachable,
           NoOrphanSession, Idle
  <1>3. ASSUME NEW s \in Sessions PROVE Orderly(s)
    <2>1. pending[s] = <<>> /\ told[s] = <<>> /\ wq = <<>> /\ sess[s] = "unused"
      BY DEF Init
    <2>2. Len(told[s]) = 0 /\ Len(wq) = 0
      BY <2>1
    <2>3. PendingMatches(s)
      BY <2>1, <2>2, ShortSeqsDiffer DEF PendingMatches, NoneTold, NoneQueued
    <2> QED
      BY <2>2, <2>3 DEF Orderly, ToldInOrder, QueuedInOrder, ToldBeforeQueued
  <1> QED
    BY <1>1, <1>2, <1>3 DEF IInv

LEMMA InvariantHolds == Spec => []IInv
  <1>1. IInv /\ [Next]_vars => IInv'
    BY TypeStep, SessionStep, StoryStep DEF IInv
  <1> QED
    BY <1>1, InitInvariant, PTL DEF Spec

\* Type correctness of CWebsocketClient::CImpl, for any number of sessions,
\* threads and headers.
THEOREM TypeCorrect == Spec => []TypeOK
  <1>1. IInv => TypeOK
    BY DEF IInv
  <1> QED
    BY <1>1, InvariantHolds, PTL

\* However connects, reconnects, failures and Close() interleave, DoConnect and
\* the failure handler leave no live session that nobody can end.
THEOREM NoSessionLeftBehind == Spec => []NoOrphanSession
  <1>1. IInv => NoOrphanSession
    BY DEF IInv, SInv
  <1> QED
    BY <1>1, InvariantHolds, PTL

\* Every session's callbacks tell one story: NotifyConnected first and once,
\* the disconnect last and once, however many sessions replace each other.
THEOREM StoriesInOrder == Spec => []OneStoryPerSession
  BY InvariantHolds, StoryInOrder, PTL
=============================================================================
