# A TLA+ model of the websockets library

The library (`src/src/`) is a websocket client (`CWebsocketClient`) and a
websocket and http server (`CWebsocketServer`) on top of Boost.Beast. Both run
their IO on a shared thread pool (`CIoPool`), one strand per connection, and
deliver callbacks on one thread per instance (`CWorkQueue`). What is difficult
in it is not the protocol, which Beast does, but the concurrency around it: who
may still call whom while a connection, a client or a server is being closed.

## 1. Inventory

| Component | State | Operations | Talks to |
|---|---|---|---|
| `CWorkQueue` (CWorkQueue.h) | `mQueue`, `mStopped`, `mThread`, guarded by `mMutex` | `Start`, `Post`, `Stop`, `Run` | runs the callbacks of one client or server |
| `CWsSession` (CWebsocketServer.cpp:188) | `mOpen`, `mCloseRequested`, `mCloseSent`, `mDropLogged`, `mWriteQueue`, `mClientId`; on a strand | `Accept`, `Send`, `Close`, completion handlers | reports to `IServerEvents` (weakly held) |
| `CWebsocketServer::CImpl` (:772) | `mClients`, `mUris`, `mUriCounts`, `mAcceptor`, `mNextConnectionId`, `mClientCbs` under `mMutex`; atomic `mShutdown` | `Start`, `Stop`, `Shutdown`, `RemoveClient`, `AddUri`, `RemoveUri`, `SendToClient`, `Broadcast`; `RegisterWsClient`, `OnWsClosed`, `OnWsMessage`, `OnWsContent` | closes sessions, posts to its work queue |
| `CUriWrapper` (:1356) | - | `AddUri` in the constructor, `RemoveUri` in the destructor | `CImpl` |
| `CHttpConnection`, `CHttpWrapper` (:423, :728) | parser, `mResponseSent` | request, reply, upgrade | `CImpl`, `CWsSession` |
| `CDetectSession` (:657) | - | TLS or plain | makes a `CHttpConnection` |
| target parsing (:84-151) | pure functions | `UrlDecode`, `ParseTarget`, `UriMatches` | |
| `CSession` (CWebsocketClient.cpp:104) | as `CWsSession`, with `mOnConnectComplete` | `AsyncConnect`, `Send`, `Close`, four connect stages, completion handlers | reports to `ISessionEvents` (weakly held) |
| `CWebsocketClient::CImpl` (:447) | `mSession` under `mSessionMutex`, callbacks and headers under `mCallbackMutex`, atomic `mShutdown` | `Connect`, `AsyncConnect`, `Close`, `Send`, `Register...Callback`, `Shutdown` | makes and closes sessions, posts to its work queue |
| `CIoPool` | threads, io_context, `mStopped` | `Stop`, `Default` | runs all handlers; kept alive by the instances that use it |
| `ISslContext` | OpenSSL context | load | |

Interactions. A call on a client or a server takes a lock, changes a map or a
pointer, releases the lock and only then closes sessions, posts events or runs
callbacks. A session's handlers run on a pool thread and call into `CImpl`
under its lock; `CImpl` posts to the work queue, whose thread runs the
application's callbacks, which may call the client or the server again. The
destructor of either joins the work queue's thread but neither the pool nor
the sessions.

What is hard: everything between two critical sections. The hazards are listed
in `PROJECT.json`, each at its line, with the property that would catch it.

What makes each component correct:

- work queue: first in, first out; no lost wake-up; `Stop` returns and is a
  barrier;
- sessions: one write at a time and always of the queue's head; accepted
  payloads are written in order before the closing handshake; the end is
  reported once; a close always completes; a connect attempt has one outcome;
- server: counts and clients agree; a client is reported added, then closed
  once; no open session is forgotten; nothing runs after the destructor; calls
  return;
- client: a session tells one story (connect, messages, disconnect); no session
  is forgotten; the destructor returns and is a barrier;
- http connection: one operation on the stream at a time; every request is
  answered once, in order, by whoever is responsible for it; the handler gets
  what the client encoded;
- pool: handlers run; a stop joins the threads; nobody uses a pool that is gone.

## 2. Modules

```
WorkQueue  <- WorkQueueProofs          SessionContract (abstract)
ServerSession  <- ServerSessionProofs      |  implemented by ServerSession
ClientSession  <- ClientSessionProofs      |  and by ClientSession
IoPool         <- IoPoolProofs
ServerRegistry <- MCServerRegistry, ServerRegistryProofs
                                       (uses what WorkQueue and ServerSession show)
WebsocketClient <- WebsocketClientProofs
                                       (uses what WorkQueue and ClientSession show)
Targets <- HttpConnection <- MCHttpConnection, HttpConnectionProofs
                |  implements HttpExchange (abstract)
SequenceLemmas                         (lemmas for the proof modules)
```

**WorkQueue** (`CWorkQueue`). One action per critical section of `mMutex` and
one per step outside it: `Post` / `PostNotify`, `Stop` / `StopNotify` /
`StopJoin`, `RunLocked` (one evaluation of the wait's predicate and what
follows it), `RunReturn`, and `SpuriousWakeup`. `Stop` may be called by any
thread and by the worker itself from inside a function. `accepted` and `ran`
are histories.

**SessionContract**. What a session promises the object that owns it: it opens
or does not, accepts payloads, delivers a prefix of them in order, starts the
closing handshake only when all are delivered, and ends once.

**ServerSession** (`CWsSession`) and **ClientSession** (`CSession`). `strand`
holds the handlers posted by `Send`, `Close` and `AsyncConnect`; each handler
and each completion is one action, run to its end as the strand does. Pending
operations (`acceptOp` or `connectOp`, `readOp`, `writeOp`, `closeOp`) complete
at any moment relative to the strand. Of Beast both modules assume that a
started operation completes once, and that once one operation has delivered an
error (`stream = "failed"`) no other succeeds; this is what
`websocket::stream` does on a strand and what the code needs, since
`HandleClosed` empties the queue under a write in flight. In ClientSession a
`Close` during the connect may find the stage already succeeded, in which case
`cancel()` has no effect (`CloseHandler` may leave `aborted` unchanged). Text
and binary payloads, contents and error codes are not told apart.

**ServerRegistry** (`CWebsocketServer::CImpl`). Every call of a thread is a
sequence of actions recorded in `call[a]`: the critical section (`StartLocked`,
`StopLocked`, `RemoveClientLocked`), closing the sessions taken out, then one
`NotifyClosedSync` and the `Invoke`s for each; a `Start` whose bind fails ends
in `StartFails`. A callback run by `Invoke` may call the server again until
`InvokeReturn`: its calls are those of a caller of its own, `b`, with
`Within[b]` the caller whose call runs it. `mMutex` is not a variable: the
actions are its critical sections, so the model cannot show a callback that runs
while the lock is held. A strand's handler is its critical section
(`RegisterWsClient`, `OnWsClosed`, `OnWsMessage`) followed by one `PostCallback`
per event in `pending[c]`. The worker runs one callback at a time and may itself
make calls while it does. A session is "open" until its end, which the network
may bring at any time and `Close` brings eventually; a work queue is a sequence
and a flag. Uris are sequences of segments, so `UriMatches` is "non-empty
prefix", or prefix up to the empty segment of a uri that ends in `/`; ids are
counted modulo `IdSpace`, as `mNextConnectionId` is modulo 2^32, and http
requests on open connections take ids too, also after `Stop`. All client and uri
callbacks are set, which is the case in which there are most events. A send
copies the sessions under the lock and uses them after it; with a function to
evaluate it first tests `AnyClients`, runs the function without the lock and
only then copies. What `Send` does to a session is in ServerSession. A message
event carries the uri whose receive callback was looked up with it.

**WebsocketClient** (`CWebsocketClient::CImpl`). `Connect` and `AsyncConnect`
are the test of `mShutdown`, `DoConnectLocked`, `AsyncConnect` and, for the
former, the wait with its safety timeout. A session is unused, made,
connecting, open or over. Its handlers leave in `pending[s]` what they have
still to do: events to post, then the promise to set. `Close` and `Send` copy
`mSession` under the lock and use it after it; a session keeps the handshake
headers that were set when it was made.

**Targets** (`UrlDecode`, `ParseTarget`, `UriMatches`, `LongestUriMatchLocked`).
The functions on sequences of character codes, as recursive functions over the
position, and beside them a reference stated another way: what a client encodes,
and uris as lists of segments. Here the characters are the point: an escape that
is cut short, or the last character of a parameter, is lost or kept by an index
into the string, and `RequestUnderstood` is about nothing else.

**HttpExchange**. What a client may rely on from one http connection: a request
is answered at most once, in order, before the next one is read, and nothing
follows the last answer.

**HttpConnection** (`CDetectSession`, `CHttpConnection`, `CHttpWrapper`). `ops`
holds the operations in flight on the stream, of which there should be one, and
`strand` the replies that `SendResponse` has still to write. A request becomes a
wrapper, held by the work queue, then by the running callback and perhaps by
another thread (`HandOver`); the last holder to let go runs the destructor. The
destruction of the server is two steps: the queue is stopped, which destroys
the wrappers it holds, and the server is gone once the running callback has
returned. A refusal, an unhandled request and a reply differ in `code` and
`keepAlive`; bodies, methods and header fields are left out. One thread at a
time replies on a wrapper.

**IoPool** (`CIoPool`, and of its users the references). `poolRefs` and
`implRefs` are the reference counts as sets of holders. A handler locks its
instance if it still exists and drops it when it returns; whoever drops the last
reference runs the destructors, down to `CIoPool::Stop()`. A thread is inside
`run()`, in a handler, in a handler that is destroying the pool, or has
returned. `Stop()` may be called while instances still use the pool, and
instances may be made on a stopped pool: the code excludes neither, and what
`io_pool` checks holds in both cases.

Operators whose comment begins with `Fault:` are not part of the
specification; each is a plausible mistake in the definition after it and is
named in `PROJECT.json` with the property that notices it.

## 3. Runs

| Run | Instance | Distinct states | Shows |
|---|---|---|---|
| `work_queue` | 3 functions, a foreign stopper and the worker | 7,815 | order, wake-ups, barrier, return of `Stop` |
| `server_session` | 4 payloads, backlog 2, 2 closes, 1 read | 240,475 | write loop, backlog, contract, close completes, sends settle |
| `client_session` | 3 payloads, 2 closes, 1 read, plain and TLS | 56,470 | write loop, contract, one outcome, close completes |
| `server_registry` | 2 interchangeable clients of one uri, 1 start, 2 callers | 3,702,820 | counts, order and number of events, no orphan, shutdown |
| `server_registry_live` | 1 client below nested uris, 2 starts, sends, calls from callbacks inside `Stop` and `RemoveClient` | 152,722 | calls return, ends are reported, shutdown disconnects |
| `websocket_client` | 2 attempts, by owner and callbacks | 269,524 | one story per session, no orphan, destructor returns, ends are signalled |
| `http_connection` | 2 requests out of 50, 3 uris, 3 TLS modes | 72,416 | one operation, right answers, requests understood, exchange, settling |
| `io_pool` | 2 threads, 2 instances, 4 handlers | 10,064 | joins, life of the pool, handlers run |

Bounds. Three functions or payloads are one in flight, one waiting and one
arriving; the fourth payload of `server_session` goes over the backlog of two.
Two closes show that the second changes nothing. Two clients, or two sessions,
are one that is being replaced or removed and one that interferes; a third adds
no new pair of racing critical sections. Two starts are a restart. Two requests
are one whose answer, late or not, could disturb the next. Two threads of a pool
are one that stops it and one that is joined. `MaxExtras` bounds what neither
makes nor ends a connection (`AddUri`, `RemoveUri`, sends and messages in the
registry; messages, `Close`, `Send`, headers and `Register...Callback` in the
client); `MaxAllocs`, `MaxReads`, `MaxCloses`, `MaxStarts`, `MaxRequests`,
`MaxUriOps` and `MaxReady` bound how often the environment acts. Sends are in
`server_registry_live` only, from callbacks (`Senders`): they change nothing of the
registry, so what they could break is that calls return. Calls from callbacks that
`Stop` and `RemoveClient` run in the owner's thread are there too (`Within`), one
level deep: a callback of a nested call does not call again. What the
safety properties have to do with them is in the proofs, which are for any
`Within`; TLC has checked their inductive invariant with two clients as well.

The requests of `http_connection` are paths inside, beside and below the
registered uris `/`, `/a` and `/a/b`, with parameters made of every character that
has a meaning in a query, a byte beyond ASCII and words that look like escapes,
with `+` or `%20` for a space, and parameters with a bare `%` that ends the string
or is followed by too few or by other characters.

Deadlock is checked in every passing run. The only states in which
nothing more happens are the stuttering `Finished`, `Released` and `Destroyed`,
and in each of them no call, handler or callback is in progress.

Symmetry is used in `server_registry` only, on connections with equal paths,
and no liveness is checked there.

### Where the code and its comments disagree

Four runs expect a violation; each checks what a comment says.

- `stale_connection_count`: `RegisterWsClient` and `OnWsClosed` compute a
  uri's count under the lock and post it after the lock. Two sessions may post
  in the other order, and the last count the application hears ("number of
  clients connected to this uri", CWebsocketServer.h:137) is then wrong until
  the next change.
- `connect_timeout_then_connects`: `Connect()` returns false by its safety
  timeout but leaves the session alone, which may connect afterwards; no
  disconnect callback follows (CWebsocketClient.h:113-115).
- `reconnect_races_destructor`: `AsyncConnect()` of a callback passes its test
  of `mShutdown`, the destructor takes `mSession`, and the session is published
  afterwards: it outlives the client and is never told to close
  (CWebsocketClient.h:57). `NoOrphanSession` therefore speaks of the time before
  the destructor is done.
- `pool_last_reference`: a handler holds the last reference to an instance whose
  owner has destroyed it and let go of the pool. Its release destroys the pool
  on one of the pool's own threads, which is detached instead of joined
  (CIoPool.h:41), and the context is destroyed below its `run()`. With a caller
  outside the pool all threads are joined (`OthersJoined`).

Two more are hazards without a run. `Start()` has the same window between its test
of `mShutdown` and the installation of the acceptor as `AsyncConnect()`: a `Start()`
of a callback may install its acceptor after the destructor's `Stop()`, and the
pending accept then keeps the port open although "Destructor. Stops the server (if
started)" (CWebsocketServer.h:246). With `Starters = {main, worker}` and
`MaxStarts = 2` in `ServerRegistry.cfg`, TLC shows a violation of
`ShutdownComplete`; this is why `Starters` is `{main}` there. The behaviour is in `server_registry_live`, whose
callbacks do call `Start()`, and its consequences are bounded: connections end all
the same (`ShutdownDisconnects`), and no client is left and no callback runs
(`QuietAfterDestructor`). And `mNextConnectionId`, which http requests advance as
well, wraps to 0 after 2^32 of them; the client is then listed under 0 while its
session takes 0 for a refusal. The runs hand out fewer than `IdSpace` ids. The
proofs name both hypotheses (`NoStartInCallback`, `NoWrap`), and each theorem that
needs one says so.

README.md:159 of the repository says that a blocking `Connect` from a callback would
deadlock because callbacks run on IO threads. They run on the work queue's
thread; `websocket_client` contains such calls and neither they nor the
destructor waiting for them get stuck. (The advice remains good: later
callbacks wait meanwhile.)

### Fairness

- WorkQueue: threads inside `Post`, `Stop` or `Run` go on, and posted functions
  return. Nobody has to call `Post` or `Stop`.
- Sessions: the pool's threads run the strand's handlers in order; the accept, the
  connect stages and the closing handshake end because Beast's handshake timeout
  ends them. It is a setting with a nonzero default; with 0 the liveness
  properties are not claimed. A read need not end unless the stream has failed.
  The resolver returns. That a write ends is an assumption on the peer: it reads,
  or it falls silent and the (nonzero) idle timeout ends the write. Only received
  data resets that timeout (README.md:12 of the repository) and the session has no
  other (`expires_never`, CWebsocketServer.cpp:211), so a peer that keeps sending
  and never reads stalls a write, and a `Close()` behind it, for as long as it
  likes. `CloseCompletes` of both sessions, `SendSettles` and the server's
  `ShutdownDisconnects` rest on this.
- ServerRegistry and WebsocketClient: a call that has been made goes on;
  handlers post their events; a session told to close ends (`CloseCompletes`
  of the session modules) and a connect attempt has an outcome
  (`ConnectSettles`); a callback makes finitely many calls and returns (strong
  fairness of `CallbackReturn` and `InvokeReturn`). The network never has to disconnect anybody.
- HttpConnection: replies posted to the strand are sent, the work queue runs
  handlers and they return, and an operation that has a deadline ends, with an
  error if need be; `handshakeTimeoutS` is nonzero, as by default. Nothing is
  assumed of clients, of a thread that keeps a wrapper, or of the owner.
- IoPool: threads run handlers, handlers return, `Stop` goes on. Nothing is
  assumed of the application.

## 4. Proofs

The theorems hold for every value of the constants under the `ASSUME`s of the
modules, which say that bounds are naturals and that model values differ.

**WorkQueueProofs**: `TypeCorrect`, `Fifo`, `WakeupNotLost`, `StopBarrier`,
`StoppedForGood`. The inductive invariant adds to the properties `OneWinner`
(the thread past the critical section of `Stop` is the one that set
`mStopped`; without it a second stopper could be the one whose notification
`NoLostWakeup` counts on), `ThreadPhase` (which states of `mThread` and `Run`
go together; the join succeeds only after `Run` returned) and `StoppedQueue`.

**ServerSessionProofs**: `TypeCorrect`, `WriteLoopCorrect`, `Ordered`,
`CloseFlushes`, `BacklogRespected`, `EndReportedOnce` and `KeepsContract` (the
session implements `SessionContract`). `WriteLoopCorrect` is three facts: the
write in flight is the head of the queue, it never runs beside the closing
handshake, and the backlog keeps its limit. The strengthening:
`BlankBeforeAccept` (nothing has happened before the accept), `CloseSentLast`
(a close was requested and nothing is queued or in flight once the handshake
started; it is why `Send` must test `mCloseRequested`) and `OpenWhileWriting`
(an operation that can still succeed belongs to an open session; it is why
`OnWrite` may pop the queue without looking). The refinement shows for each
action which step of the contract, or which stutter, it is.

**ClientSessionProofs**: `TypeCorrect`, `WriteLoopCorrect`, `KeepsContract`, along
the same argument, with `ConnectOnce` (one connect handler, stages only before
the outcome and with the completion handler set) and `BlankWhileOpening` for the
connect stages. `StepCases` sorts the actions by
what they can disturb, so that the invariants about the connection need not
look at the ones that leave it alone.

**IoPoolProofs**: `TypeCorrect`, `StopJoinsOthers`, `PoolLivesLongEnough`. The
strengthening is `JoinLoop` (a thread that `Stop` is done with has returned or
is the stopper; once `Stop` is done there is none left) and `References` (an
instance somebody holds has its reference to the pool, and a destructor of the
pool runs or has run only when nobody refers to it). Without `References` a handler could be in an instance
whose pool another thread is destroying.

**HttpConnectionProofs**: `TypeCorrect`, `StreamUsedInTurn` (`OneOperation`),
`RightAnswers` (`AnswersAreRight`) and `KeepsExchange` (the connection
implements `HttpExchange`). The argument is that the connection has one turn:
an operation on the stream, a reply posted to the strand, or a wrapper that is
held and not answered. `OneOperation` alone is not inductive, because a second
wrapper could be answered while a read is in flight; `OneTurn` adds that an
unanswered wrapper is that of the last request and that nothing goes on beside
it. `Queued` says that a wrapper in the work queue is held by nobody else (so
that the queue's destruction answers at most one request), `WrappersAsked` that
wrappers belong to requests that were read, and `Balance` that there is one
unanswered request exactly when the turn is with a reply or a wrapper, and that
the reply under way is the right one for it. The refinement follows from
`Balance`. Nothing is assumed of what Targets computes.

**WebsocketClientProofs**: `TypeCorrect`, `NoSessionLeftBehind`
(`NoOrphanSession`) and `StoriesInOrder` (`OneStoryPerSession`). For the first
two the strengthening says where a session is between being made and being
started: `NewHeldOnce` (one call holds it), `PublishedReachable` (from
`DoConnectLocked` on it is `mSession`, or was replaced and so closed or about
to be) and `WaitsForSession`. For the story, `PendingMatches` lists what a
handler may have left to do in each state of its session and that nothing was
said of the session before its connect or after its disconnect; the order is
then kept within what was delivered, within the queue and between the two
(`ToldInOrder`, `QueuedInOrder`, `ToldBeforeQueued`). A concatenation of three
parts is ordered when these are (`ThreeParts` in SequenceLemmas).

**ServerRegistryProofs**. `TypeCorrect` needs no hypothesis, wrapped ids
included, and neither does `QuietAfterDestructor` (no client and no callback is
left); `ShutdownIsComplete` (`ShutdownComplete`), which adds that the server
does not listen, assumes `NoStartInCallback`. Their invariant says which calls
can be in progress after the destructor began (`OwnerShutsDown`: none but its
own and those of callbacks), that only `Starters` are between the two halves of
`Start()`, and what each step of the destructor has left empty
(`StoppedIsEmpty`). The other four, `CountsAreRight` (`UriCountsMatch`),
`ClosedOnce` (`ClosedAtMostOnce`), `AddedComesFirst` (`AddedFirst`) and
`NoConnectionLeftBehind` (`NoOrphanSession`), assume `NoWrap`, for any number of
connections, uris and threads, and share one inductive invariant:

- `IdInv`: the next id was never given, every id in `mClients`, in the queue, in
  a session or in the history was, no two sessions have the same, and a listed
  client is the one whose session has its id. Without it a registration could
  overwrite an entry, and a disconnect take out somebody else's.
- `EventInv`: a handler has at most one event about its own client, before any
  count, and an added event only while nothing else about the client is queued
  (`PendingShape`); a call runs the closed callback first (`SyncShape`).
- `CloseInv`: between its registration and its closed callback a client is in one
  place only: listed, taken out by a call, in a callback of the call, in a
  handler's pending events, in the queue, or reported; and there only once.
  Every action either moves a client from one place to the next or leaves it.
  `ClosedAtMostOnce` alone says nothing of a closed event that is still queued.

`UnseenSteps` sorts the actions: all but nine leave clients and events alone,
and each part of the invariant looks only at those nine. That counts follow the
listed clients uses the library's theorems on cardinalities. TLC has checked all
these inductive invariants on the instances of the runs.

**SequenceLemmas** states the facts about concatenation, heads, tails and short
sequences that the proofs share.

Model-checked only: every liveness property (fairness is beyond the prover) and
`RequestUnderstood`, which is about what the recursive functions of Targets
compute (it needs induction over data). Every other property of a passing run is
the statement of a theorem.

## 5. Not modelled

- `ISslContext`: it loads certificates once and keeps no state afterwards.
- Contents: bodies, methods and header fields of http messages, payloads, the
  `uriAppend` given to the added callback, logging, formatting of errors. Text
  and binary payloads, and message and content callbacks, are one kind.
- `Port()`, `IsConnected()`, `GetConnectedClientIds()`, `ClientsConnected()`:
  they read modelled state under its lock.
- Two threads that call `Reply()` on one wrapper at the same instant:
  `mResponseSent` is not atomic, the model has one replier at a time.
- Two threads calling `Stop` on the same work queue and both relying on it:
  `Shutdown` lets one through.
- `internalMutex` shared by several servers: it only makes critical sections of
  different servers exclude each other.
- The `std::future_error` that `Connect()` turns into false
  (CWebsocketClient.cpp:524-527). A broken promise needs the session destroyed
  while the call waits; the session is held by its handlers, these by the
  io_context, and that by the pool, to which the client has a reference while one
  of its calls runs.
- Exceptions of callbacks, which `Invoke` and `InvokeCallback` swallow.
- The examples and tests, which use the library.

## 6. Plan

Done: every component of section 1 but `ISslContext` is modelled with its races,
and every safety property and refinement that a run checks, except
`RequestUnderstood`, is proved.

Next, in this order:

1. Theorems about the steps, where the invariants are about states: that a
   client's id is never given again, that a server's session once told to close
   is never listed, that a wrapper once answered stays answered.
2. What holds of the registry after a wrap: which of the four properties still
   hold for ids that are given again only after their first client was reported.
