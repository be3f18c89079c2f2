--------------------------- MODULE ServerRegistry ---------------------------
(***************************************************************************)
(* CWebsocketServer::CImpl (src/src/CWebsocketServer.cpp): the registry of *)
(* clients and uris, the calls of application threads on it, the events    *)
(* the sessions' strands report to it, and the callbacks it delivers.      *)
(*                                                                         *)
(* An action is one critical section of mMutex, or one thing done after    *)
(* the mutex is released: posting one event to the work queue, closing the *)
(* sessions, running one callback.  A session is reduced to what           *)
(* ServerSession shows of it: it registers once, then reports messages and *)
(* finally its end, all on its own strand; Close() makes it end.  The work *)
(* queue is reduced to what WorkQueue shows of it: callbacks run one at a  *)
(* time in the order posted, and Stop() discards the rest and waits for    *)
(* the one that runs.                                                      *)
(***************************************************************************)
EXTENDS Integers, Sequences, SequencesExt, FiniteSets

CONSTANTS
  Conns,      \* connections that clients open
  Path,       \* Path[c]: the path segments of c's request target
  Uris,       \* uris the application registers, as non-empty segment sequences
  Main,       \* the thread that owns the server and destroys it
  Worker,     \* the work queue's thread: calls made from inside callbacks
  Apps,       \* all callers: Main, Worker and other threads, and the callbacks of
              \* DOMAIN Within, which call while the call they run in waits for them
  Within,     \* Within[b]: the caller whose Stop() or RemoveClient() runs callback b
  Starters,   \* those of them that call Start()
  Senders,    \* those of them that send
  IdSpace,    \* number of values of mNextConnectionId: 2^32 in the code
  NoEntry,    \* mClients has no entry for this id
  MaxStarts, MaxAllocs, MaxExtras  \* bounds on Start() calls, on ids handed out,
              \* and on AddUri(), RemoveUri(), sends and messages received together

NoUri == <<>>  \* the empty string: no registered uri matches
Ids == 0 .. IdSpace - 1

ASSUME ConstantsOK ==
  /\ IdSpace \in Nat \ {0, 1}
  /\ MaxStarts \in Nat /\ MaxAllocs \in Nat /\ MaxExtras \in Nat
  /\ Main \in Apps /\ Worker \in Apps /\ Main # Worker /\ Starters \subseteq Apps /\ Senders \subseteq Apps
  /\ NoUri \notin Uris
  /\ DOMAIN Within \subseteq Apps \ {Main, Worker}
  /\ \A b \in DOMAIN Within : Within[b] \in Apps

Entry == [conn : Conns, uri : Uris \cup {NoUri}]  \* SClientEntry
ASSUME EntryOK == NoEntry \notin Entry

\* Callbacks to run: client added, client closed, message received, number of
\* connections of a uri changed.  A message event also runs the message
\* callback of its uri, if it has one.
Added(id) == [kind |-> "added", id |-> id, uri |-> NoUri, count |-> 0]
Closed(id) == [kind |-> "closed", id |-> id, uri |-> NoUri, count |-> 0]
Message(id, u) == [kind |-> "message", id |-> id, uri |-> u, count |-> 0]
Change(u, n) == [kind |-> "change", id |-> 0, uri |-> u, count |-> n]
Event == [kind : {"added", "closed", "message", "change"}, id : Ids,
          uri : Uris \cup {NoUri}, count : Nat]

VARIABLES
  mShutdown,
  mAcceptor,          \* the server has an acceptor (not null)
  mNextConnectionId,
  mClients,           \* [Ids -> Entry \cup {NoEntry}]
  mUris,              \* the registered uris
  mUriCounts,         \* [Uris -> Nat], 0 when the map has no entry
  closing,            \* number of acceptors Stop() took out that are still open
  sess,               \* session of c: "idle", "upgrading" from the accepted socket
                      \*   to the registration, "open", "gone", "refused"
  cid,                \* mClientId of c's session
  closeReq,           \* Close() was called on c's session
  pending,            \* events c's handler has still to post
  wq, wqStopped,      \* the work queue and its mStopped
  running,            \* the worker runs a callback
  call,               \* the call each thread is in
  starts, allocs, extras,  \* counters for the bounds
  closedTold          \* history: number of closed callbacks per id

registry == <<mShutdown, mAcceptor, mNextConnectionId, mClients, mUris, mUriCounts>>
clients == <<mNextConnectionId, mClients, mUriCounts>>
network == <<closing, sess, cid, closeReq, pending>>
queue == <<wq, wqStopped, running>>
bounds == <<starts, allocs, extras>>
vars == <<registry, network, queue, call, bounds, closedTold>>

\* A call: where it is, the entries of mClients it has still to deal with, the
\* callbacks it runs itself, and for a send the uris whose clients it goes to.
Idle == [pc |-> "idle", todo |-> {}, sync |-> <<>>, to |-> {}]

Init ==
  /\ mShutdown = FALSE /\ mAcceptor = FALSE /\ mNextConnectionId = 1
  /\ mClients = [i \in Ids |-> NoEntry]
  /\ mUris = {}
  /\ mUriCounts = [u \in Uris |-> 0]
  /\ closing = 0
  /\ sess = [c \in Conns |-> "idle"]
  /\ cid = [c \in Conns |-> 0]
  /\ closeReq = [c \in Conns |-> FALSE]
  /\ pending = [c \in Conns |-> <<>>]
  /\ wq = <<>> /\ wqStopped = FALSE /\ running = FALSE
  /\ call = [a \in Apps |-> Idle]
  /\ starts = 0 /\ allocs = 0 /\ extras = 0
  /\ closedTold = [i \in Ids |-> 0]

-----------------------------------------------------------------------------
(***************************************************************************)
(* The registry's helpers.                                                 *)
(***************************************************************************)
\* A uri that ends in a slash has an empty last segment: it contains the paths
\* that go on after the slash.
UriMatches(u, path) ==
  /\ u # NoUri
  /\ \/ IsPrefix(u, path)
     \/ Last(u) = "" /\ IsPrefix(Front(u), path) /\ Len(path) >= Len(u)

\* u is the longest registered uri that contains path, NoUri if there is none.
LongestUriMatchLocked(u, path) ==
  LET matching == {v \in mUris : UriMatches(v, path)} IN
  \/ u = NoUri /\ matching = {}
  \/ u \in matching /\ \A v \in matching :
       Len(v) < Len(u) \/ (Len(v) = Len(u) /\ Last(v) \in {"", Last(u)})

\* mUriCounts after DecrementUriCountLocked(u).
DecrementUriCountLocked(u) ==
  IF u = NoUri \/ mUriCounts[u] = 0 THEN mUriCounts
  ELSE [mUriCounts EXCEPT ![u] = @ - 1]

\* The connection-change event for u, when u has a callback at all.
ChangeEvents(u, n) == IF u \in mUris THEN <<Change(u, n)>> ELSE <<>>

Listed == {i \in Ids : mClients[i] # NoEntry}

\* What a call takes of mClients for the ids in I.  Fault: mClients is cleared
\* instead of being swapped out.
TakesNone(I) == {}
Taken(I) == {[id |-> i, conn |-> mClients[i].conn, uri |-> mClients[i].uri] : i \in I}

\* One callback runs.
Tell(e) == closedTold' = IF e.kind = "closed" THEN [closedTold EXCEPT ![e.id] = @ + 1]
                                              ELSE closedTold

\* An operation that counts towards MaxExtras.
Extra == extras < MaxExtras /\ extras' = extras + 1

\* Those whose calls are made by a callback.
Callbacks == {Worker} \cup DOMAIN Within

\* The callbacks that a's own calls run make calls.
Nests(a) == \E b \in DOMAIN Within : Within[b] = a

\* A caller may begin a call: a callback while it runs, the others until the
\* owner destroys the server.
MayCall(a) ==
  /\ call[a].pc = "idle"
  /\ IF a = Worker THEN running
     ELSE IF a \in DOMAIN Within THEN call[Within[a]].pc = "callback" ELSE ~mShutdown

-----------------------------------------------------------------------------
(***************************************************************************)
(* Calls of application threads.                                           *)
(***************************************************************************)
\* Start() tests mShutdown and binds without the lock ...
Start(a) ==
  /\ a \in Starters /\ MayCall(a) /\ ~mShutdown /\ starts < MaxStarts
  /\ starts' = starts + 1
  /\ call' = [call EXCEPT ![a].pc = "starting"]
  /\ UNCHANGED <<registry, network, queue, allocs, extras, closedTold>>

\* ... which may fail: it throws and nothing has changed ...
StartFails(a) ==
  /\ call[a].pc = "starting"
  /\ call' = [call EXCEPT ![a] = Idle]
  /\ UNCHANGED <<registry, network, queue, bounds, closedTold>>

\* ... then installs the acceptor, or throws if there is one already.
StartLocked(a) ==
  /\ call[a].pc = "starting"
  /\ mAcceptor' = TRUE
  /\ call' = [call EXCEPT ![a] = Idle]
  /\ UNCHANGED <<mShutdown, clients, mUris, network, queue, bounds, closedTold>>

\* Shutdown(), called by the destructor when no other call is in progress
\* except from a running callback.
Shutdown ==
  /\ \A a \in Apps \ Callbacks : call[a].pc = "idle"
  /\ ~mShutdown
  /\ mShutdown' = TRUE
  /\ call' = [call EXCEPT ![Main].pc = "stop"]
  /\ UNCHANGED <<mAcceptor, clients, mUris, network, queue, bounds, closedTold>>

\* Fault: mUriCounts is not cleared with mClients.
CountsKept == mUriCounts
CountsCleared == [u \in Uris |-> 0]

\* The critical section of Stop(): every client and the acceptor are taken out;
\* closing the acceptor is posted to its strand.
StopLocked(a) ==
  /\ MayCall(a) \/ call[a].pc = "stop"
  /\ closing' = IF mAcceptor THEN closing + 1 ELSE closing
  /\ mAcceptor' = FALSE
  /\ mClients' = [i \in Ids |-> NoEntry]
  /\ mUriCounts' = CountsCleared
  /\ call' = [call EXCEPT ![a].pc = "close", ![a].todo = Taken(Listed)]
  /\ UNCHANGED <<mShutdown, mNextConnectionId, mUris, sess, cid, closeReq, pending,
                 queue, bounds, closedTold>>

\* The critical section of RemoveClient(id); for an unknown id it just returns.
RemoveClientLocked(a, id) ==
  /\ MayCall(a) /\ mClients[id] # NoEntry
  /\ mClients' = [mClients EXCEPT ![id] = NoEntry]
  /\ mUriCounts' = DecrementUriCountLocked(mClients[id].uri)
  /\ call' = [call EXCEPT ![a].pc = "close", ![a].todo = Taken({id})]
  /\ UNCHANGED <<mShutdown, mAcceptor, mNextConnectionId, mUris, network, queue, bounds, closedTold>>

\* Stop() and RemoveClient() then Close() the sessions taken out ...
\* Fault: they are released without Close().
CloseNone(todo) == closeReq
CloseAll(todo) == [c \in Conns |-> closeReq[c] \/ \E e \in todo : e.conn = c]

CloseSessions(a) ==
  /\ call[a].pc = "close"
  /\ closeReq' = CloseAll(call[a].todo)
  /\ call' = [call EXCEPT ![a].pc = "notify"]
  /\ UNCHANGED <<registry, closing, sess, cid, pending, queue, bounds, closedTold>>

\* Fault: the caller first waits for the callback that is running.
NotifyClosedWaits(a) ==
  /\ call[a].pc = "notify" /\ call[a].sync = <<>> /\ ~running
  /\ \E e \in call[a].todo :
       call' = [call EXCEPT ![a].todo = @ \ {e}, ![a].sync = <<Closed(e.id)>>]
  /\ UNCHANGED <<registry, network, queue, bounds, closedTold>>

\* ... and for each, in id order, NotifyClosedSync reads the count under the
\* lock and runs the callbacks in the calling thread.
NotifyClosedSync(a) ==
  /\ call[a].pc = "notify" /\ call[a].sync = <<>>
  /\ \E e \in call[a].todo :
       /\ \A f \in call[a].todo : e.id <= f.id
       /\ call' = [call EXCEPT
            ![a].todo = @ \ {e},
            ![a].sync = <<Closed(e.id)>> \o
              (IF e.uri = NoUri THEN <<>> ELSE ChangeEvents(e.uri, mUriCounts[e.uri]))]
  /\ UNCHANGED <<registry, network, queue, bounds, closedTold>>

\* A callback that makes no calls returns at once.
Invoke(a) ==
  /\ call[a].pc = "notify" /\ call[a].sync # <<>>
  /\ Tell(Head(call[a].sync))
  /\ call' = [call EXCEPT ![a].pc = IF Nests(a) THEN "callback" ELSE "notify",
                          ![a].sync = Tail(@)]
  /\ UNCHANGED <<registry, network, queue, bounds>>

\* One that does returns when they have.
InvokeReturn(a) ==
  /\ call[a].pc = "callback"
  /\ \A b \in DOMAIN Within : Within[b] = a => call[b].pc = "idle"
  /\ call' = [call EXCEPT ![a].pc = "notify"]
  /\ UNCHANGED <<registry, network, queue, bounds, closedTold>>

\* The call returns; Shutdown() goes on to stop the work queue.
Return(a) ==
  /\ call[a].pc = "notify" /\ call[a].todo = {} /\ call[a].sync = <<>>
  /\ call' = [call EXCEPT ![a] = IF a = Main /\ mShutdown
                                THEN [Idle EXCEPT !.pc = "stopQueue"] ELSE Idle]
  /\ UNCHANGED <<registry, network, queue, bounds, closedTold>>

WorkQueueStop ==
  /\ call[Main].pc = "stopQueue"
  /\ wqStopped' = TRUE /\ wq' = <<>>
  /\ call' = [call EXCEPT ![Main].pc = "join"]
  /\ UNCHANGED <<registry, network, running, bounds, closedTold>>

WorkQueueJoin ==
  /\ call[Main].pc = "join" /\ ~running
  /\ call' = [call EXCEPT ![Main].pc = "destroyed"]
  /\ UNCHANGED <<registry, network, queue, bounds, closedTold>>

SetUris(a, uris) ==
  /\ MayCall(a) /\ Extra
  /\ mUris' = uris
  /\ UNCHANGED <<mShutdown, mAcceptor, clients, network, queue, call, starts, allocs, closedTold>>

\* Fault: the leading segment is lost when the uri is stored.
AddUriTruncated(a, u) == SetUris(a, mUris \cup {Tail(u)})

AddUri(a, u) == SetUris(a, mUris \cup {u})
RemoveUri(a, u) == SetUris(a, mUris \ {u})

(***************************************************************************)
(* Sends: SendMessage and SendContent of the server and of CUriWrapper, to *)
(* one client, to the clients of a uri or to all.  The sessions are copied *)
(* under the lock and given the payload after it (ServerSession models     *)
(* what Send() does there), when they may already be closed.               *)
(***************************************************************************)
Everyone == Uris \cup {NoUri}
Destinations == {Everyone} \cup {{u} : u \in Uris}

AnyClients(to) == IF to = Everyone THEN Listed # {} ELSE \A u \in to : mUriCounts[u] > 0

\* A send begins: pc is where it goes on, todo the sessions it has copied.
Sends(a, pc, todo, to) ==
  /\ a \in Senders /\ MayCall(a) /\ Extra
  /\ call' = [call EXCEPT ![a] = [pc |-> pc, todo |-> todo, sync |-> <<>>, to |-> to]]
  /\ UNCHANGED <<registry, network, queue, starts, allocs, closedTold>>

\* For an unknown id an error is logged.
SendToClient(a, id) == id \in Listed /\ Sends(a, "send", Taken({id}), {})

Receivers(to) == {i \in Listed : mClients[i].uri \in to}
Broadcast(a, to) == Sends(a, "send", Taken(Receivers(to)), to)

\* With a function to be evaluated: nothing is done without clients, and the
\* receivers are the clients there are after the function has run.
DelayedSend(a, to) == AnyClients(to) /\ Sends(a, "evaluate", {}, to)

DelayedBroadcast(a) ==
  /\ call[a].pc = "evaluate"
  /\ call' = [call EXCEPT ![a].pc = "send", ![a].todo = Taken(Receivers(call[a].to))]
  /\ UNCHANGED <<registry, network, queue, bounds, closedTold>>

SendReturn(a) ==
  /\ call[a].pc = "send"
  /\ call' = [call EXCEPT ![a] = Idle]
  /\ UNCHANGED <<registry, network, queue, bounds, closedTold>>

-----------------------------------------------------------------------------
(***************************************************************************)
(* IO threads: the acceptor, and the handlers of each session's strand.    *)
(* The next handler of a strand starts when the previous one has posted    *)
(* its events.                                                             *)
(***************************************************************************)
Accept(c) ==
  /\ sess[c] = "idle" /\ (mAcceptor \/ closing > 0)
  /\ sess' = [sess EXCEPT ![c] = "upgrading"]
  /\ UNCHANGED <<registry, closing, cid, closeReq, pending, queue, call, bounds, closedTold>>

\* The posted close of an acceptor that Stop() took out.
AcceptorClosed ==
  /\ closing > 0
  /\ closing' = closing - 1
  /\ UNCHANGED <<registry, sess, cid, closeReq, pending, queue, call, bounds, closedTold>>

\* A plain http request on a connection that is accepted and not upgraded takes a
\* connection id of its own, whether or not the server has been stopped since.
NextConnectionId ==
  /\ allocs < MaxAllocs /\ \E c \in Conns : sess[c] = "upgrading"
  /\ allocs' = allocs + 1
  /\ mNextConnectionId' = (mNextConnectionId + 1) % IdSpace
  /\ UNCHANGED <<mShutdown, mAcceptor, mClients, mUris, mUriCounts, network, queue, call,
                 starts, extras, closedTold>>

\* Fault: mShutdown and mAcceptor are not tested under the lock.
NeverStopping == FALSE
Stopping == mShutdown \/ ~mAcceptor

\* RegisterWsClient returns 0 when the server is stopping ...
RegisterRefused(c) ==
  /\ sess[c] = "upgrading" /\ Stopping
  /\ sess' = [sess EXCEPT ![c] = "refused"]
  /\ UNCHANGED <<registry, closing, cid, closeReq, pending, queue, call, bounds, closedTold>>

\* ... and otherwise lists the client and has its events posted.  The session
\* takes an id of 0 for a refusal and never reads.
RegisterWsClient(c) ==
  /\ sess[c] = "upgrading" /\ ~Stopping /\ allocs < MaxAllocs
  /\ allocs' = allocs + 1
  /\ mNextConnectionId' = (mNextConnectionId + 1) % IdSpace
  /\ cid' = [cid EXCEPT ![c] = mNextConnectionId]
  /\ sess' = [sess EXCEPT ![c] = IF mNextConnectionId = 0 THEN "refused" ELSE "open"]
  /\ \E u \in Uris \cup {NoUri} :
       /\ LongestUriMatchLocked(u, Path[c])
       /\ mClients' = [mClients EXCEPT ![mNextConnectionId] = [conn |-> c, uri |-> u]]
       /\ mUriCounts' = IF u = NoUri THEN mUriCounts ELSE [mUriCounts EXCEPT ![u] = @ + 1]
       /\ pending' = [pending EXCEPT ![c] = <<Added(mNextConnectionId)>> \o
                        (IF u = NoUri THEN <<>> ELSE ChangeEvents(u, mUriCounts[u] + 1))]
  /\ UNCHANGED <<mShutdown, mAcceptor, mUris, closing, closeReq, queue, call, starts,
                 extras, closedTold>>

\* Post() of the work queue.  Fault: the event overtakes what is queued.
EnqueueFirst(e) == <<e>> \o wq
Enqueue(e) == Append(wq, e)

\* PostCallback, once per pending event; a stopped queue drops it.
PostCallback(c) ==
  /\ pending[c] # <<>>
  /\ wq' = IF wqStopped THEN wq ELSE Enqueue(Head(pending[c]))
  /\ pending' = [pending EXCEPT ![c] = Tail(@)]
  /\ UNCHANGED <<registry, closing, sess, cid, closeReq, wqStopped, running, call, bounds, closedTold>>

\* OnWsMessage, OnWsContent: the global callback is looked up whether or not
\* the client is still listed, the callback of its uri only if it is.
LookupReceiveCallbacks(id) ==
  IF id \in Listed /\ mClients[id].uri \in mUris THEN mClients[id].uri ELSE NoUri

OnWsMessage(c) ==
  /\ sess[c] = "open" /\ pending[c] = <<>> /\ Extra
  /\ pending' = [pending EXCEPT ![c] = <<Message(cid[c], LookupReceiveCallbacks(cid[c]))>>]
  /\ UNCHANGED <<registry, closing, sess, cid, closeReq, queue, call, starts, allocs, closedTold>>

\* OnWsClosed: nothing to do when Stop() or RemoveClient() took the client.
\* Faults: the closed event is posted all the same; it is not posted at all.
ClosedEventAlways(id) == <<Closed(id)>>
ClosedEventNever(id) == <<>>
ClosedEvent(id) == IF id \in Listed THEN <<Closed(id)>> ELSE <<>>

OnWsClosed(c) ==
  /\ sess[c] = "open" /\ pending[c] = <<>>
  /\ sess' = [sess EXCEPT ![c] = "gone"]
  /\ LET id == cid[c]
         u == IF id \in Listed THEN mClients[id].uri ELSE NoUri
     IN  /\ mClients' = [mClients EXCEPT ![id] = NoEntry]
         /\ mUriCounts' = DecrementUriCountLocked(u)
         /\ pending' = [pending EXCEPT ![c] = ClosedEvent(id) \o
              (IF u = NoUri THEN <<>> ELSE ChangeEvents(u, mUriCounts'[u]))]
  /\ UNCHANGED <<mShutdown, mAcceptor, mNextConnectionId, mUris, closing, cid, closeReq,
                 queue, call, bounds, closedTold>>

-----------------------------------------------------------------------------
(***************************************************************************)
(* The work queue's thread.                                                *)
(***************************************************************************)
Deliver ==
  /\ ~running /\ ~wqStopped /\ wq # <<>>
  /\ running' = TRUE
  /\ wq' = Tail(wq)
  /\ Tell(Head(wq))
  /\ UNCHANGED <<registry, network, wqStopped, call, bounds>>

CallbackReturn ==
  /\ running /\ call[Worker].pc = "idle"
  /\ running' = FALSE
  /\ UNCHANGED <<registry, network, wq, wqStopped, call, bounds, closedTold>>

Destroyed == call[Main].pc = "destroyed"

Next ==
  \/ Shutdown \/ WorkQueueStop \/ WorkQueueJoin
  \/ \E a \in Apps : \/ Start(a) \/ StartFails(a) \/ StartLocked(a) \/ StopLocked(a)
                     \/ \E id \in Ids : RemoveClientLocked(a, id)
                     \/ CloseSessions(a) \/ NotifyClosedSync(a)
                     \/ Invoke(a) \/ InvokeReturn(a) \/ Return(a)
                     \/ \E u \in Uris : AddUri(a, u) \/ RemoveUri(a, u)
                     \/ \E id \in Ids : SendToClient(a, id)
                     \/ \E to \in Destinations : Broadcast(a, to) \/ DelayedSend(a, to)
                     \/ DelayedBroadcast(a) \/ SendReturn(a)
  \/ AcceptorClosed \/ NextConnectionId
  \/ \E c \in Conns : \/ Accept(c) \/ RegisterRefused(c) \/ RegisterWsClient(c)
                      \/ PostCallback(c) \/ OnWsMessage(c) \/ OnWsClosed(c)
  \/ Deliver \/ CallbackReturn
  \/ Destroyed /\ UNCHANGED vars

Spec == Init /\ [][Next]_vars

\* The next step of the call that a is in.
CallStep(a) ==
  \/ StartFails(a) \/ StartLocked(a) \/ (call[a].pc = "stop" /\ StopLocked(a))
  \/ CloseSessions(a) \/ NotifyClosedSync(a) \/ Invoke(a) \/ Return(a)
  \/ DelayedBroadcast(a) \/ SendReturn(a)

(***************************************************************************)
(* Calls that were made go on, handlers run, callbacks return, and a       *)
(* session that was told to close ends (ServerSession, CloseCompletes;     *)
(* that rests on a peer that reads or falls silent).  Strong fairness of   *)
(* CallbackReturn and InvokeReturn: a callback makes finitely many calls   *)
(* and then returns.                                                       *)
(***************************************************************************)
Fairness ==
  /\ \A a \in Apps : WF_vars(CallStep(a))
  /\ \A b \in DOMAIN Within : SF_vars(InvokeReturn(Within[b]))
  /\ WF_vars(WorkQueueStop) /\ WF_vars(WorkQueueJoin)
  /\ WF_vars(Deliver) /\ SF_vars(CallbackReturn)
  /\ \A c \in Conns : /\ WF_vars(PostCallback(c))
                      /\ WF_vars(closeReq[c] /\ OnWsClosed(c))

FairSpec == Spec /\ Fairness
-----------------------------------------------------------------------------
(***************************************************************************)
(* Properties.                                                             *)
(***************************************************************************)
\* The values of the registry's fields, the sessions, the queue and the calls.
TypeOK ==
  /\ mShutdown \in BOOLEAN /\ mAcceptor \in BOOLEAN /\ wqStopped \in BOOLEAN /\ running \in BOOLEAN
  /\ mNextConnectionId \in Ids
  /\ mClients \in [Ids -> Entry \cup {NoEntry}]
  /\ mUris \subseteq Uris
  /\ mUriCounts \in [Uris -> Nat]
  /\ closing \in Nat /\ starts \in Nat /\ allocs \in Nat /\ extras \in Nat
  /\ sess \in [Conns -> {"idle", "upgrading", "open", "gone", "refused"}]
  /\ cid \in [Conns -> Ids]
  /\ closeReq \in [Conns -> BOOLEAN]
  /\ pending \in [Conns -> Seq(Event)]
  /\ wq \in Seq(Event)
  /\ call \in [Apps -> [pc : {"idle", "starting", "stop", "close", "notify", "callback",
                              "evaluate", "send", "stopQueue", "join", "destroyed"},
                        todo : SUBSET [id : Ids, conn : Conns, uri : Uris \cup {NoUri}],
                        sync : Seq(Event), to : SUBSET (Uris \cup {NoUri})]]
  /\ closedTold \in [Ids -> Nat]

\* mUriCounts is always the number of listed clients per uri, whatever mix of
\* registrations, disconnects, RemoveClient(), Stop() and RemoveUri() happened:
\* AnyClients(uri), which decides whether a delayed send is evaluated at all,
\* and every reported count rest on it.
UriCountsMatch == \A u \in Uris : mUriCounts[u] = Cardinality(Receivers({u}))

\* A client is reported closed at most once, although its disconnect,
\* RemoveClient() and Stop() may all happen at once, and never while listed.
ClosedAtMostOnce ==
  \A i \in Ids : /\ closedTold[i] <= 1
                 /\ closedTold[i] = 1 => mClients[i] = NoEntry

\* A client's closed and message events are posted after its added event, so
\* the work queue delivers them after it.
AddedFirst ==
  \A k \in 1 .. Len(wq) :
    wq[k].kind \in {"closed", "message"} =>
      /\ \A j \in k + 1 .. Len(wq) : wq[j] # Added(wq[k].id)
      /\ \A c \in Conns : ~Contains(pending[c], Added(wq[k].id))

\* A session that is open is known to the server or has been told to close,
\* or the call that took it out is about to close it: no connection is left
\* that nobody can end.
NoOrphanSession ==
  \A c \in Conns : sess[c] = "open" =>
    \/ mClients[cid[c]] # NoEntry /\ mClients[cid[c]].conn = c
    \/ closeReq[c]
    \/ \E a \in Apps : call[a].pc = "close" /\ \E e \in call[a].todo : e.conn = c

\* After the destructor the server does not listen, lists no client, and no
\* callback is running or queued.
ShutdownComplete ==
  Destroyed => /\ ~mAcceptor /\ Listed = {}
               /\ ~running /\ wq = <<>>

\* The destructor returns and then every connection of the server ends.
ShutdownDisconnects ==
  /\ mShutdown ~> Destroyed
  /\ Destroyed ~> \A c \in Conns : sess[c] # "open"

\* The application hears of every listed client that ended, unless the
\* destructor discarded the event.
EndIsReported ==
  \A c \in Conns : sess[c] = "gone" ~> (closedTold[cid[c]] = 1 \/ wqStopped)

\* Start(), Stop(), RemoveClient() and the sends return, also when called by a callback.
CallsReturn == \A a \in Apps : call[a].pc # "idle" ~> call[a].pc \in {"idle", "destroyed"}

-----------------------------------------------------------------------------
(***************************************************************************)
(* What the comments and the header say and the code does not always do.   *)
(***************************************************************************)
NoCallInProgress == \A a \in Apps : call[a].pc = "idle"

\* "numConnections number of clients connected to this uri": when every event
\* has been posted, the last count to be delivered for a uri is the current one.
LastCountIsCurrent ==
  NoCallInProgress /\ (\A c \in Conns : pending[c] = <<>>) =>
    \A k \in 1 .. Len(wq) :
      wq[k].kind = "change" /\ (\A j \in k + 1 .. Len(wq) : wq[j].uri # wq[k].uri) =>
        wq[k].count = Cardinality(Receivers({wq[k].uri}))
=============================================================================
