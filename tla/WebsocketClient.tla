-------------------------- MODULE WebsocketClient --------------------------
(***************************************************************************)
(* CWebsocketClient::CImpl (src/src/CWebsocketClient.cpp): the calls of    *)
(* application threads and callbacks on a client, the sessions it makes    *)
(* and replaces, and the callbacks it delivers.                            *)
(*                                                                         *)
(* An action is one critical section of mSessionMutex, or one thing done   *)
(* outside it.  A session is reduced to what ClientSession shows of it:    *)
(* AsyncConnect gives one outcome, messages and one end follow a success,  *)
(* each reported by a handler of the session's strand; Close() makes the   *)
(* session end, perhaps after it connected.  The work queue is reduced to  *)
(* what WorkQueue shows of it: callbacks run one at a time in the order    *)
(* posted, and Stop() discards the rest and waits for the one that runs.   *)
(***************************************************************************)
EXTENDS Integers, Sequences, SequencesExt

CONSTANTS
  Sessions,   \* the sessions that can be made, one per connect attempt: numbers,
              \* used in order
  Main,       \* the thread that owns the client and destroys it
  Worker,     \* the work queue's thread: calls made from inside callbacks
  Apps,       \* all calling threads, Main and Worker included
  Connectors, \* those of them that call Connect() and AsyncConnect()
  Registered, \* the callbacks registered before the first call
  None,       \* a null session pointer
  Headers,    \* names of handshake headers
  MaxExtras   \* bound on received messages and calls of Close(), Send(),
              \* Register...Callback() and the header functions, together

Kinds == {"connect", "message", "disconnect"}
Event == [kind : Kinds, session : Sessions]

ASSUME ConstantsOK ==
  /\ Sessions \subseteq Nat /\ Registered \subseteq Kinds
  /\ MaxExtras \in Nat
  /\ Main \in Apps /\ Worker \in Apps /\ Main # Worker /\ Connectors \subseteq Apps
  /\ None \notin Sessions

VARIABLES
  mShutdown, mSession,
  mCallbacks,    \* the callbacks that are registered: mOnConnect, mOnDisconnect, ...
  mHandshakeHeaders,
  sess,          \* "unused", "made", "connecting", "open", "over"
  headers,       \* the handshake headers the session was given
  closeReq,      \* Close() was called on the session
  outcome,       \* the connect promise of the session: "none", "true", "false"
  pending,       \* what the session's handler has still to do: events, outcomes
  wq, wqStopped, \* the work queue and its mStopped
  running,       \* the worker runs a callback
  call,          \* the call each thread is in
  extras,        \* counter for the bound
  told,          \* history: the callbacks delivered for each session
  timedOut,      \* history: the sessions whose Connect() ran into its safety timeout
  reregistered   \* history: Register...Callback() was called

settings == <<mCallbacks, mHandshakeHeaders>>
client == <<mShutdown, mSession, settings>>
network == <<sess, headers, closeReq, outcome, pending>>
queue == <<wq, wqStopped, running>>
history == <<told, timedOut, reregistered>>
vars == <<client, network, queue, call, extras, history>>

\* A call: where it is, and the session it is about.
Idle == [pc |-> "idle", s |-> None]

Init ==
  /\ mShutdown = FALSE /\ mSession = None
  /\ mCallbacks = Registered /\ mHandshakeHeaders = {}
  /\ sess = [s \in Sessions |-> "unused"]
  /\ headers = [s \in Sessions |-> {}]
  /\ closeReq = [s \in Sessions |-> FALSE]
  /\ outcome = [s \in Sessions |-> "none"]
  /\ pending = [s \in Sessions |-> <<>>]
  /\ wq = <<>> /\ wqStopped = FALSE /\ running = FALSE
  /\ call = [a \in Apps |-> Idle]
  /\ extras = 0
  /\ told = [s \in Sessions |-> <<>>]
  /\ timedOut = {} /\ reregistered = FALSE

-----------------------------------------------------------------------------
(***************************************************************************)
(* Calls of application threads.  A thread may begin a call: the worker    *)
(* from inside a callback, the others until the owner destroys the client. *)
(***************************************************************************)
MayCall(a) ==
  /\ call[a].pc = "idle"
  /\ IF a = Worker THEN running ELSE ~mShutdown

\* Connect() and AsyncConnect() test mShutdown, copy the headers and make a
\* session ...
Connect(a, s) ==
  /\ a \in Connectors /\ MayCall(a) /\ ~mShutdown
  /\ sess[s] = "unused" /\ \A r \in Sessions : sess[r] = "unused" => s <= r
  /\ sess' = [sess EXCEPT ![s] = "made"]
  /\ headers' = [headers EXCEPT ![s] = mHandshakeHeaders]
  /\ call' = [call EXCEPT ![a] = [pc |-> "publish", s |-> s]]
  /\ UNCHANGED <<client, closeReq, outcome, pending, queue, extras, history>>

\* ... DoConnect closes the session it replaces and publishes the new one ...
DoConnectLocked(a) ==
  /\ call[a].pc = "publish"
  /\ closeReq' = [s \in Sessions |-> closeReq[s] \/ s = mSession]
  /\ mSession' = call[a].s
  /\ call' = [call EXCEPT ![a].pc = "connect"]
  /\ UNCHANGED <<mShutdown, settings, sess, headers, outcome, pending, queue, extras, history>>

\* ... and starts it; AsyncConnect() returns, Connect() waits for the outcome.
AsyncConnect(a) ==
  /\ call[a].pc = "connect"
  /\ sess' = [sess EXCEPT ![call[a].s] = "connecting"]
  /\ \/ call' = [call EXCEPT ![a].pc = "wait"]
     \/ call' = [call EXCEPT ![a] = Idle]
  /\ UNCHANGED <<client, headers, closeReq, outcome, pending, queue, extras, history>>

\* The promise is not broken while the call waits: the session holds it, the
\* session's handlers hold the session, and the client's reference to the pool
\* keeps the io_context that holds the handlers.
ConnectReturn(a) ==
  /\ call[a].pc = "wait" /\ outcome[call[a].s] # "none"
  /\ call' = [call EXCEPT ![a] = Idle]
  /\ UNCHANGED <<client, network, queue, extras, history>>

\* The safety timeout: Connect() returns false and leaves the session as it is.
ConnectTimeout(a) ==
  /\ call[a].pc = "wait" /\ outcome[call[a].s] = "none"
  /\ timedOut' = timedOut \cup {call[a].s}
  /\ call' = [call EXCEPT ![a] = Idle]
  /\ UNCHANGED <<client, network, queue, extras, told, reregistered>>

\* A message or a call that counts towards MaxExtras.
Extra == extras < MaxExtras /\ extras' = extras + 1

\* Close() and Send() copy mSession under the lock and use it outside.
Lookup(a, what) ==
  /\ MayCall(a) /\ Extra /\ mSession # None
  /\ call' = [call EXCEPT ![a] = [pc |-> what, s |-> mSession]]
  /\ UNCHANGED <<client, network, queue, history>>

CloseLocked(a) == Lookup(a, "close")
SendLocked(a) == Lookup(a, "send")

\* The session of Close() or of Shutdown(), which goes on to stop the queue.
CloseSession(a) ==
  /\ call[a].pc = "close"
  /\ closeReq' = [s \in Sessions |-> closeReq[s] \/ s = call[a].s]
  /\ call' = [call EXCEPT ![a] = IF a = Main /\ mShutdown
                                THEN [Idle EXCEPT !.pc = "stopQueue"] ELSE Idle]
  /\ UNCHANGED <<client, sess, headers, outcome, pending, queue, extras, history>>

\* Session::Send() of a session that is open (ClientSession models what it
\* does); an error is logged for one that is not.
SendSession(a) ==
  /\ call[a].pc = "send"
  /\ call' = [call EXCEPT ![a] = Idle]
  /\ UNCHANGED <<client, network, queue, extras, history>>

\* Register...Callback sets a callback or, given an empty function, takes it
\* away; replacing one function by another changes nothing here.
RegisterCallback(a, k) ==
  /\ MayCall(a) /\ Extra
  /\ mCallbacks' = IF k \in mCallbacks THEN mCallbacks \ {k} ELSE mCallbacks \cup {k}
  /\ reregistered' = TRUE
  /\ UNCHANGED <<mShutdown, mSession, mHandshakeHeaders, network, queue, call, told, timedOut>>

\* SetHandshakeHeader, for the sessions made from now on, and
\* ClearHandshakeHeaders.
SetHandshakeHeader(a, h) ==
  /\ MayCall(a) /\ Extra
  /\ mHandshakeHeaders' = mHandshakeHeaders \cup {h}
  /\ UNCHANGED <<mShutdown, mSession, mCallbacks, network, queue, call, history>>

ClearHandshakeHeaders(a) ==
  /\ MayCall(a) /\ Extra
  /\ mHandshakeHeaders' = {}
  /\ UNCHANGED <<mShutdown, mSession, mCallbacks, network, queue, call, history>>

\* The destructor, when no other call is in progress except from a callback.
Shutdown ==
  /\ \A a \in Apps \ {Worker} : call[a].pc = "idle"
  /\ ~mShutdown
  /\ mShutdown' = TRUE
  /\ call' = [call EXCEPT ![Main].pc = "shutdown"]
  /\ UNCHANGED <<mSession, settings, network, queue, extras, history>>

ShutdownLocked ==
  /\ call[Main].pc = "shutdown"
  /\ mSession' = None
  /\ call' = [call EXCEPT ![Main].pc = "close", ![Main].s = mSession]
  /\ UNCHANGED <<mShutdown, settings, network, queue, extras, history>>

WorkQueueStop ==
  /\ call[Main].pc = "stopQueue"
  /\ wqStopped' = TRUE /\ wq' = <<>>
  /\ call' = [call EXCEPT ![Main].pc = "join"]
  /\ UNCHANGED <<client, network, running, extras, history>>

\* The join, and the release of CImpl with whatever mSession holds.
WorkQueueJoin ==
  /\ call[Main].pc = "join" /\ ~running
  /\ mSession' = None
  /\ call' = [call EXCEPT ![Main].pc = "destroyed"]
  /\ UNCHANGED <<mShutdown, settings, network, queue, extras, history>>

-----------------------------------------------------------------------------
(***************************************************************************)
(* Handlers of the sessions' strands.  The next handler of a strand starts *)
(* when the previous one has done all it has to do.                        *)
(***************************************************************************)
\* OnWebsocketHandshake: mOpen is set, then the completion handler of
\* DoConnect notifies and sets the promise.
SessionConnected(s) ==
  /\ sess[s] = "connecting"
  /\ sess' = [sess EXCEPT ![s] = "open"]
  /\ pending' = [pending EXCEPT ![s] = <<"connect", "true">>]
  /\ UNCHANGED <<client, headers, closeReq, outcome, queue, call, extras, history>>

\* A connect stage fails: the completion handler resets mSession if it is
\* still this session, signals the disconnect and sets the promise.
\* Faults: mSession is reset whichever session failed; the failure is not
\* signalled; the promise is not set.
ResetAnyway(s) == None
ReportSilently == <<"false">>
ReportWithoutOutcome == <<"disconnect">>

ResetIfCurrent(s) == IF mSession = s THEN None ELSE mSession
FailureReport == <<"disconnect", "false">>

ConnectFailed(s) ==
  /\ sess[s] = "connecting"
  /\ sess' = [sess EXCEPT ![s] = "over"]
  /\ mSession' = ResetIfCurrent(s)
  /\ pending' = [pending EXCEPT ![s] = FailureReport]
  /\ UNCHANGED <<mShutdown, settings, headers, closeReq, outcome, queue, call, extras, history>>

OnSessionMessage(s) ==
  /\ sess[s] = "open" /\ pending[s] = <<>> /\ Extra
  /\ pending' = [pending EXCEPT ![s] = <<"message">>]
  /\ UNCHANGED <<client, sess, headers, closeReq, outcome, queue, call, history>>

\* HandleClosed: mSession keeps the session, IsConnected() sees it closed.
OnSessionDisconnect(s) ==
  /\ sess[s] = "open" /\ pending[s] = <<>>
  /\ sess' = [sess EXCEPT ![s] = "over"]
  /\ pending' = [pending EXCEPT ![s] = <<"disconnect">>]
  /\ UNCHANGED <<client, headers, closeReq, outcome, queue, call, extras, history>>

\* Post() of the work queue.  Faults: the event overtakes what is queued; the
\* callback was moved from before it is posted.
EnqueueFirst(e) == <<e>> \o wq
EnqueueMovedFrom(e) == Append(wq, [e EXCEPT !.kind = "none"])

Enqueue(e) == Append(wq, e)

\* NotifyConnected, OnSessionMessage and OnSessionDisconnect of CImpl: without
\* a callback, or when the queue is stopped, the event is dropped.
PostEvent(s) ==
  /\ pending[s] # <<>> /\ Head(pending[s]) \in Kinds
  /\ wq' = IF wqStopped \/ Head(pending[s]) \notin mCallbacks THEN wq
           ELSE Enqueue([kind |-> Head(pending[s]), session |-> s])
  /\ pending' = [pending EXCEPT ![s] = Tail(@)]
  /\ UNCHANGED <<client, sess, headers, closeReq, outcome, wqStopped, running, call, extras, history>>

\* The completion handler calls onComplete last: Connect()'s promise is set.
CompleteConnect(s) ==
  /\ pending[s] # <<>> /\ Head(pending[s]) \in {"true", "false"}
  /\ outcome' = [outcome EXCEPT ![s] = Head(pending[s])]
  /\ pending' = [pending EXCEPT ![s] = Tail(@)]
  /\ UNCHANGED <<client, sess, headers, closeReq, queue, call, extras, history>>

-----------------------------------------------------------------------------
(***************************************************************************)
(* The work queue's thread.                                                *)
(***************************************************************************)
InvokeCallback ==
  /\ ~running /\ ~wqStopped /\ wq # <<>>
  /\ running' = TRUE
  /\ wq' = Tail(wq)
  /\ told' = [told EXCEPT ![Head(wq).session] = Append(@, Head(wq).kind)]
  /\ UNCHANGED <<client, network, wqStopped, call, extras, timedOut, reregistered>>

CallbackReturn ==
  /\ running /\ call[Worker].pc = "idle"
  /\ running' = FALSE
  /\ UNCHANGED <<client, network, wq, wqStopped, call, extras, history>>

Destroyed == call[Main].pc = "destroyed"

Next ==
  \/ Shutdown \/ ShutdownLocked \/ WorkQueueStop \/ WorkQueueJoin
  \/ \E a \in Apps : \/ \E s \in Sessions : Connect(a, s)
                     \/ DoConnectLocked(a) \/ AsyncConnect(a)
                     \/ ConnectReturn(a) \/ ConnectTimeout(a)
                     \/ CloseLocked(a) \/ CloseSession(a) \/ SendLocked(a) \/ SendSession(a)
                     \/ \E k \in Kinds : RegisterCallback(a, k)
                     \/ \E h \in Headers : SetHandshakeHeader(a, h)
                     \/ ClearHandshakeHeaders(a)
  \/ \E s \in Sessions : \/ SessionConnected(s) \/ ConnectFailed(s)
                         \/ OnSessionMessage(s) \/ OnSessionDisconnect(s)
                         \/ PostEvent(s) \/ CompleteConnect(s)
  \/ InvokeCallback \/ CallbackReturn
  \/ Destroyed /\ UNCHANGED vars

Spec == Init /\ [][Next]_vars

(***************************************************************************)
(* Calls that were made go on, handlers run, callbacks return. A connect   *)
(* attempt has an outcome and a session told to close ends (ClientSession: *)
(* ConnectSettles, CloseCompletes; the latter rests on a peer that reads   *)
(* or falls silent). Strong fairness of CallbackReturn: a callback makes   *)
(* finitely many calls and then returns.                                   *)
(***************************************************************************)
Fairness ==
  /\ WF_vars(ShutdownLocked) /\ WF_vars(WorkQueueStop) /\ WF_vars(WorkQueueJoin)
  /\ \A a \in Apps : /\ WF_vars(DoConnectLocked(a)) /\ WF_vars(AsyncConnect(a))
                     /\ WF_vars(ConnectReturn(a)) /\ WF_vars(CloseSession(a)) /\ WF_vars(SendSession(a))
  /\ \A s \in Sessions : /\ WF_vars(SessionConnected(s) \/ ConnectFailed(s))
                         /\ WF_vars(PostEvent(s) \/ CompleteConnect(s))
                         /\ WF_vars(closeReq[s] /\ OnSessionDisconnect(s))
  /\ WF_vars(InvokeCallback) /\ SF_vars(CallbackReturn)

FairSpec == Spec /\ Fairness
-----------------------------------------------------------------------------
(***************************************************************************)
(* Properties.                                                             *)
(***************************************************************************)
\* The values of the client's fields, the sessions, the queue and the calls.
TypeOK ==
  /\ mShutdown \in BOOLEAN /\ wqStopped \in BOOLEAN /\ running \in BOOLEAN
  /\ mSession \in Sessions \cup {None}
  /\ mCallbacks \subseteq Kinds /\ mHandshakeHeaders \subseteq Headers
  /\ headers \in [Sessions -> SUBSET Headers]
  /\ sess \in [Sessions -> {"unused", "made", "connecting", "open", "over"}]
  /\ closeReq \in [Sessions -> BOOLEAN]
  /\ outcome \in [Sessions -> {"none", "true", "false"}]
  /\ pending \in [Sessions -> Seq(Kinds \cup {"true", "false"})]
  /\ wq \in Seq(Event)
  /\ call \in [Apps -> [pc : {"idle", "publish", "connect", "wait", "close", "send", "shutdown",
                              "stopQueue", "join", "destroyed"},
                        s : Sessions \cup {None}]]
  /\ extras \in Nat /\ reregistered \in BOOLEAN
  /\ told \in [Sessions -> Seq(Kinds)]
  /\ timedOut \subseteq Sessions

\* The callbacks delivered for s, those queued, and what its handler has still
\* to do, in this order; between the queued ones are those of other sessions.
Of(s, kinds) == [k \in 1 .. Len(kinds) |-> [kind |-> kinds[k], session |-> s]]
Story(s) == Of(s, told[s]) \o wq \o Of(s, pending[s])

\* Every session tells one story, whatever other sessions tell between: its
\* connect comes first and once, its disconnect last and once, although the
\* failed-connect path and HandleClosed both signal it.
OneStoryPerSession ==
  \A s \in Sessions : \A j, k \in 1 .. Len(Story(s)) :
    LET earlier == Story(s)[j]
        later == Story(s)[k]
    IN  /\ j < k /\ earlier.session = s /\ later.session = s
        /\ later.kind \in Kinds
        => later.kind # "connect" /\ earlier.kind # "disconnect"

\* A session that is connecting or open is the client's current one, or has
\* been told to close, or a call is about to tell it: neither a connect that
\* replaces a session, nor the late failure of the replaced one, leaves a
\* connection behind that nobody can end.  What the destructor leaves is
\* DestructorCloses, below.
NoOrphanSession ==
  ~Destroyed => \A s \in Sessions : sess[s] \in {"connecting", "open"} =>
    \/ mSession = s \/ closeReq[s]
    \/ \E a \in Apps : call[a].pc = "close" /\ call[a].s = s

\* The destructor returns, although it waits for a callback that may itself be
\* waiting in Connect() for a session the destructor has closed.
DestructorReturns == mShutdown ~> Destroyed

\* The end of every attempt is signalled by the disconnect callback, unless the
\* registered callbacks were changed or the destructor discarded the event.
EndIsSignalled ==
  \A s \in Sessions :
    sess[s] = "over" ~> (Contains(told[s], "disconnect") \/ reregistered \/ wqStopped)

-----------------------------------------------------------------------------
(***************************************************************************)
(* What the header says and the code does not always do.                   *)
(***************************************************************************)
\* The disconnect callback is called "when a connect attempt fails (Connect
\* returning false or AsyncConnect not establishing)": after Connect() returned
\* false the callback is delivered for that attempt.
FalseIsSignalled ==
  \A s \in Sessions :
    s \in timedOut ~> (Contains(told[s], "disconnect") \/ reregistered \/ wqStopped)

\* "Disconnects from the server (if connected)": a session that the destructor
\* leaves behind has been told to close.
DestructorCloses ==
  Destroyed => \A s \in Sessions : sess[s] \in {"connecting", "open"} => closeReq[s]
=============================================================================
