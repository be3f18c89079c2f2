--------------------------- MODULE HttpConnection ---------------------------
(***************************************************************************)
(* One http connection of the server (CDetectSession, CHttpConnection and  *)
(* CHttpWrapper in src/src/CWebsocketServer.cpp): from the accepted socket *)
(* through TLS detection and handshake to the loop of requests and         *)
(* replies, with the handler that answers on the work queue's thread or    *)
(* hands the wrapper to another thread, and the server's destruction.      *)
(*                                                                         *)
(* An action is one handler of the connection's strand, one operation of a *)
(* handler thread on a wrapper, or one step of the server's life.  At most *)
(* one thread at a time calls Reply() on a wrapper.                        *)
(***************************************************************************)
EXTENDS Targets, FiniteSets

CONSTANTS
  Requests,     \* requests a client sends: [target, path, parameters,
                \*   upgrade, keepAlive], the target encoding the path and parameters
  Uris,         \* uris the application registers
  HttpUris,     \* those of them with an mOnRequestReceivedCb
  AllowedUris,  \* the setting allowedUris, every uri in a one-element set
  SslModes,     \* the TLS settings: "none", "required", "detect"
  handshakeTimeoutS,
  NoMsg,        \* no message, no request, no reply
  MaxRequests, MaxUriOps  \* bounds on requests and AddUri()/RemoveUri() calls

ASSUME SettingsOK ==
  /\ HttpUris \subseteq Uris /\ <<>> \notin Uris
  /\ SslModes \subseteq {"none", "required", "detect"}
  /\ handshakeTimeoutS \in Nat /\ MaxRequests \in Nat /\ MaxUriOps \in Nat
  /\ \A q \in Requests : q.upgrade \in BOOLEAN /\ q.keepAlive \in BOOLEAN

Numbers == 1 .. MaxRequests  \* requests by the order they were read in
NoRequest == 0

VARIABLES
  mUris,          \* the registered uris
  uriOps,         \* counter for the bound
  server,         \* "up", "queueStopped" by the destructor, "gone": mEvents expired
  ssl,            \* the stream is a CSslStream
  ops,            \* operations in flight on the stream
  strand,         \* replies posted to the strand, SendResponse not yet run
  asked,          \* number of requests read
  msg,            \* [uri, queryParameters] of a request whose handler has not run
  keepAlive,      \* HttpMsg::keepAlive of each request
  holders,        \* who holds the CHttpWrapper of each request
  mResponseSent,  \* of each wrapper
  wq, running,    \* wrappers queued on the work queue; the one its callback runs for
  replies,        \* history: the replies written to the client
  failed,         \* history: an operation failed or timed out
  request         \* history: the request being handled, as its client meant it

stream == <<ssl, ops, failed>>
wrappers == <<msg, keepAlive, holders, mResponseSent>>
worker == <<wq, running>>
uris == <<mUris, uriOps>>
vars == <<uris, server, stream, strand, asked, wrappers, worker, replies, request>>

Operation(kind) == [kind |-> kind, reply |-> NoMsg]
Reading == Operation("read")
Writing(reply) == [kind |-> "write", reply |-> reply]

\* Fault: the response's status is not set.
ReplyWithoutCode(r, code, keep) == [req |-> r, code |-> NoMsg, keepAlive |-> keep]

ReplyTo(r, code, keep) == [req |-> r, code |-> code, keepAlive |-> keep]

\* OnAccept: the settings choose the first operation of a connection.
Init ==
  /\ mUris \in SUBSET Uris /\ uriOps = 0
  /\ server = "up"
  /\ \E mode \in SslModes :
       /\ ssl = (mode = "required")
       /\ ops = <<CASE mode = "none" -> Reading
                    [] mode = "required" -> Operation("handshake")
                    [] mode = "detect" -> Operation("detect")>>
  /\ strand = <<>> /\ asked = 0
  /\ msg = [r \in Numbers |-> NoMsg]
  /\ keepAlive = [r \in Numbers |-> TRUE]
  /\ holders = [r \in Numbers |-> {}]
  /\ mResponseSent = [r \in Numbers |-> FALSE]
  /\ wq = <<>> /\ running = NoRequest
  /\ replies = <<>> /\ failed = FALSE /\ request = NoMsg

\* Operation k completes and the handler starts those of next.
Completes(k, next) == ops' = RemoveAt(ops, k) \o next

-----------------------------------------------------------------------------
(***************************************************************************)
(* The connection's strand.                                                *)
(***************************************************************************)
\* An error, the expiry of the timer, the end of the stream: the handler
\* returns and starts nothing.
OperationFails(k) ==
  /\ Completes(k, <<>>)
  /\ failed' = TRUE
  /\ request' = NoMsg
  /\ UNCHANGED <<uris, server, ssl, strand, asked, wrappers, worker, replies>>

\* CDetectSession: the first bytes decide which connection takes the stream.
Detected(k, isSsl) ==
  /\ ops[k].kind = "detect"
  /\ ssl' = isSsl
  /\ Completes(k, <<IF isSsl THEN Operation("handshake") ELSE Reading>>)
  /\ UNCHANGED <<uris, server, failed, strand, asked, wrappers, worker, replies, request>>

OnSslHandshake(k) ==
  /\ ops[k].kind = "handshake"
  /\ Completes(k, <<Reading>>)
  /\ UNCHANGED <<uris, server, ssl, failed, strand, asked, wrappers, worker, replies, request>>

\* OnRead when the server is gone: the connection ends.
OnReadServerGone(k) ==
  /\ ops[k].kind = "read" /\ server = "gone"
  /\ Completes(k, <<>>)
  /\ UNCHANGED <<uris, server, ssl, failed, strand, asked, wrappers, worker, replies, request>>

UpgradeAllowed(path) == \A list \in AllowedUris : \E u \in list : UriMatches(u, path)

\* OnRead of an upgrade: a websocket session takes the stream over ...
Upgrade(k, q) ==
  /\ ops[k].kind = "read" /\ server # "gone" /\ q.upgrade
  /\ UpgradeAllowed(ParseTarget(q.target).path)
  /\ Completes(k, <<Operation("websocket")>>)
  /\ request' = q
  /\ UNCHANGED <<uris, server, ssl, failed, strand, asked, wrappers, worker, replies>>

\* ... or is refused, and the refusal closes the connection.
RefuseUpgrade(k, q) ==
  /\ ops[k].kind = "read" /\ server # "gone" /\ q.upgrade /\ asked < MaxRequests
  /\ ~UpgradeAllowed(ParseTarget(q.target).path)
  /\ asked' = asked + 1
  /\ Completes(k, <<Writing(ReplyTo(asked + 1, "notFound", FALSE))>>)
  /\ request' = q
  /\ UNCHANGED <<uris, server, ssl, failed, strand, wrappers, worker, replies>>

\* The longest registered uri decides, also when it has no handler.
FindHttpHandler(path) == LongestUriMatch(mUris, path) \in HttpUris

\* HandleHttpRequest without a handler for the path.
NoHandler(k, q) ==
  /\ ops[k].kind = "read" /\ server # "gone" /\ ~q.upgrade /\ asked < MaxRequests
  /\ ~FindHttpHandler(ParseTarget(q.target).path)
  /\ asked' = asked + 1
  /\ Completes(k, <<Writing(ReplyTo(asked + 1, "notFound", q.keepAlive))>>)
  /\ request' = q
  /\ UNCHANGED <<uris, server, ssl, failed, strand, wrappers, worker, replies>>

\* Fault: the next request is read while the handler works.
ReadsOn == <<Reading>>

\* What HandleHttpRequest starts after it has posted the handler: nothing.
NoRead == <<>>

\* HandleHttpRequest with a handler: the wrapper goes to the work queue and no
\* further read is started.  A stopped queue drops the function it is given,
\* and with it the wrapper.
HandleHttpRequest(k, q) ==
  LET r == asked + 1
      parsed == ParseTarget(q.target)
  IN /\ ops[k].kind = "read" /\ server # "gone" /\ ~q.upgrade /\ asked < MaxRequests
     /\ FindHttpHandler(parsed.path)
     /\ asked' = r
     /\ keepAlive' = [keepAlive EXCEPT ![r] = q.keepAlive]
     /\ Completes(k, NoRead)
     /\ \/ /\ server = "up"
           /\ wq' = Append(wq, r)
           /\ holders' = [holders EXCEPT ![r] = {"queue"}]
           /\ msg' = [msg EXCEPT ![r] = [uri |-> parsed.path,
                                         queryParameters |-> parsed.parameters]]
           /\ UNCHANGED strand
        \/ /\ server = "queueStopped"
           /\ strand' = Append(strand, ReplyTo(r, "badRequest", q.keepAlive))
           /\ UNCHANGED <<wq, holders, msg>>
     /\ request' = q
     /\ UNCHANGED <<uris, server, ssl, failed, mResponseSent, running, replies>>

\* SendResponse runs on the strand: DoWrite starts the write.
SendResponse ==
  /\ strand # <<>>
  /\ ops' = Append(ops, Writing(Head(strand)))
  /\ strand' = Tail(strand)
  /\ UNCHANGED <<uris, server, ssl, failed, asked, wrappers, worker, replies, request>>

\* What follows a reply: the next request, or DoShutdown, which with TLS is an
\* operation of its own.
AfterWrite(reply) ==
  IF reply.keepAlive THEN <<Reading>> ELSE IF ssl THEN <<Operation("shutdown")>> ELSE <<>>

OnWritten(k) ==
  /\ ops[k].kind = "write"
  /\ replies' = Append(replies, ops[k].reply)
  /\ Completes(k, AfterWrite(ops[k].reply))
  /\ request' = NoMsg
  /\ UNCHANGED <<uris, server, ssl, failed, strand, asked, wrappers, worker>>

OnSslShutdown(k) ==
  /\ ops[k].kind = "shutdown"
  /\ Completes(k, <<>>)
  /\ UNCHANGED <<uris, server, ssl, failed, strand, asked, wrappers, worker, replies, request>>

-----------------------------------------------------------------------------
(***************************************************************************)
(* The handler: the callback on the work queue's thread and the thread it  *)
(* may hand the wrapper to.                                                *)
(***************************************************************************)
RunHandler ==
  /\ running = NoRequest /\ wq # <<>>
  /\ running' = Head(wq) /\ wq' = Tail(wq)
  /\ holders' = [holders EXCEPT ![Head(wq)] = {"callback"}]
  /\ msg' = [msg EXCEPT ![Head(wq)] = NoMsg]
  /\ request' = NoMsg
  /\ UNCHANGED <<uris, server, stream, strand, asked, keepAlive, mResponseSent, replies>>

\* The callback copies the wrapper's pointer for another thread, which from
\* then on is the one that replies.
HandOver(r) ==
  /\ holders[r] = {"callback"}
  /\ holders' = [holders EXCEPT ![r] = {"callback", "app"}]
  /\ UNCHANGED <<uris, server, stream, strand, asked, msg, keepAlive, mResponseSent, worker,
                 replies, request>>

\* The handler decides whether the connection is kept after its reply, whatever
\* the client asked for.
SetKeepAlive(r, keep) ==
  /\ holders[r] \cap {"callback", "app"} # {} /\ ~mResponseSent[r]
  /\ keepAlive' = [keepAlive EXCEPT ![r] = keep]
  /\ UNCHANGED <<uris, server, stream, strand, asked, msg, holders, mResponseSent, worker,
                 replies, request>>

\* Fault: repeated calls of Reply() are not ignored.
AnyCallSends(r) == TRUE

\* Only the first call of Reply() sends.
FirstCall(r) == ~mResponseSent[r]

Reply(r) ==
  /\ holders[r] \cap {"callback", "app"} # {} /\ FirstCall(r)
  /\ mResponseSent' = [mResponseSent EXCEPT ![r] = TRUE]
  /\ strand' = Append(strand, ReplyTo(r, "handler", keepAlive[r]))
  /\ UNCHANGED <<uris, server, stream, asked, msg, keepAlive, holders, worker, replies, request>>

\* Fault: the destructor does not look whether the handler has replied.
AlwaysRefuse(r) == <<ReplyTo(r, "badRequest", keepAlive[r])>>

\* Fault: the destructor does nothing.
NeverRefuse(r) == <<>>

\* What ~CHttpWrapper posts to the strand.
Unhandled(r) ==
  IF mResponseSent[r] THEN <<>> ELSE <<ReplyTo(r, "badRequest", keepAlive[r])>>

\* A holder lets go of the wrapper; the last one destroys it.
Release(holder, r) ==
  /\ holder \in holders[r]
  /\ holders' = [holders EXCEPT ![r] = @ \ {holder}]
  /\ strand' = IF holders[r] = {holder} THEN strand \o Unhandled(r) ELSE strand
  /\ running' = IF holder = "callback" THEN NoRequest ELSE running
  /\ UNCHANGED <<uris, server, stream, asked, msg, keepAlive, mResponseSent, wq, replies, request>>

CallbackReturns(r) == Release("callback", r)
AppReleases(r) == Release("app", r)

-----------------------------------------------------------------------------
(***************************************************************************)
(* The server.                                                             *)
(***************************************************************************)
AddUri(u) ==
  /\ uriOps < MaxUriOps /\ server = "up" /\ u \notin mUris
  /\ mUris' = mUris \cup {u} /\ uriOps' = uriOps + 1
  /\ UNCHANGED <<server, stream, strand, asked, wrappers, worker, replies, request>>

RemoveUri(u) ==
  /\ uriOps < MaxUriOps /\ server = "up" /\ u \in mUris
  /\ mUris' = mUris \ {u} /\ uriOps' = uriOps + 1
  /\ UNCHANGED <<server, stream, strand, asked, wrappers, worker, replies, request>>

\* The destructor stops the work queue, which destroys the queued wrappers.
WorkQueueStop ==
  /\ server = "up"
  /\ server' = "queueStopped"
  /\ wq' = <<>>
  /\ holders' = [r \in Numbers |-> holders[r] \ {"queue"}]
  /\ msg' = [r \in Numbers |-> NoMsg]
  /\ strand' = strand \o FlattenSeq([i \in 1 .. Len(wq) |-> Unhandled(wq[i])])
  /\ request' = NoMsg
  /\ UNCHANGED <<uris, stream, asked, keepAlive, mResponseSent, running, replies>>

\* It waits for the running callback and the server is destroyed.
ServerDestroyed ==
  /\ server = "queueStopped" /\ running = NoRequest
  /\ server' = "gone"
  /\ UNCHANGED <<uris, stream, strand, asked, wrappers, worker, replies, request>>

\* Something may still happen on the connection.
InUse ==
  \/ \E k \in DOMAIN ops : ops[k].kind \notin {"shutdown", "websocket"}
  \/ strand # <<>>
  \/ \E r \in Numbers : holders[r] # {} /\ ~mResponseSent[r]

Next ==
  \/ \E k \in DOMAIN ops :
       \/ ops[k].kind # "websocket" /\ OperationFails(k)
       \/ \E isSsl \in BOOLEAN : Detected(k, isSsl)
       \/ OnSslHandshake(k) \/ OnReadServerGone(k) \/ OnWritten(k) \/ OnSslShutdown(k)
       \/ \E q \in Requests : \/ Upgrade(k, q) \/ RefuseUpgrade(k, q)
                              \/ NoHandler(k, q) \/ HandleHttpRequest(k, q)
  \/ SendResponse \/ RunHandler
  \/ \E r \in Numbers : \/ HandOver(r) \/ Reply(r)
                        \/ \E keep \in BOOLEAN : SetKeepAlive(r, keep)
                        \/ CallbackReturns(r) \/ AppReleases(r)
  \/ \E u \in Uris : AddUri(u) \/ RemoveUri(u)
  \/ WorkQueueStop \/ ServerDestroyed
  \/ ~InUse /\ UNCHANGED vars

Spec == Init /\ [][Next]_vars

\* SetRequestExpiry sets a deadline for every operation, the TLS shutdown has
\* that of the write before it; 0 disables it.
Expires == handshakeTimeoutS # 0

(***************************************************************************)
(* Posted handlers run and callbacks return; an operation with a deadline  *)
(* completes, with an error if need be.  No fairness of clients, of the    *)
(* threads that keep a wrapper, or of the destructor.                      *)
(***************************************************************************)
Fairness ==
  /\ WF_vars(SendResponse) /\ WF_vars(RunHandler)
  /\ \A r \in Numbers : WF_vars(CallbackReturns(r))
  /\ WF_vars(Expires /\ \E k \in DOMAIN ops : ops[k].kind # "websocket" /\ OperationFails(k))

FairSpec == Spec /\ Fairness
-----------------------------------------------------------------------------
(***************************************************************************)
(* Properties.                                                             *)
(***************************************************************************)
Replies == [req : Numbers, code : {"notFound", "badRequest", "handler"}, keepAlive : BOOLEAN]
Operations ==
  {Operation(kind) : kind \in {"detect", "handshake", "read", "shutdown", "websocket"}}
  \cup {Writing(reply) : reply \in Replies}

\* The operations, replies, wrappers and queues have the values they should.
TypeOK ==
  /\ mUris \subseteq Uris /\ uriOps \in 0 .. MaxUriOps
  /\ server \in {"up", "queueStopped", "gone"} /\ ssl \in BOOLEAN /\ failed \in BOOLEAN
  /\ ops \in Seq(Operations)
  /\ strand \in Seq(Replies) /\ replies \in Seq(Replies)
  /\ asked \in 0 .. MaxRequests /\ running \in 0 .. MaxRequests /\ wq \in Seq(Numbers)
  /\ DOMAIN msg = Numbers
  /\ keepAlive \in [Numbers -> BOOLEAN] /\ mResponseSent \in [Numbers -> BOOLEAN]
  /\ holders \in [Numbers -> SUBSET {"queue", "callback", "app"}]

\* The stream never has two operations at once, nor one while a reply waits to
\* be sent: neither a handler that replies late or twice, nor the wrapper's
\* destructor, nor the stopped work queue starts a write beside another
\* operation.
OneOperation == Len(ops) + Len(strand) <= 1

\* The i-th answer a client gets is the answer to its i-th request; it is "bad
\* request" only when the handler did not reply, and the handler's reply only
\* when it did, over all interleavings of Reply(), the release of the wrapper by
\* two threads, and the destructor.
AnswersAreRight ==
  \A i \in DOMAIN replies :
    /\ replies[i].req = i
    /\ replies[i].code = "handler" => mResponseSent[i]
    /\ replies[i].code = "badRequest" => ~mResponseSent[i] /\ holders[i] = {}

\* What the handler is given is what the client meant: the path and every
\* parameter it encoded; and the request goes to the handler of the deepest
\* registered ancestor of its path, an upgrade only below an allowed uri.
RequestUnderstood ==
  [][request' \notin {request, NoMsg} =>
       LET q == request'
           routed == DeepestAncestor(mUris, q.path) \in HttpUris
           given == msg'[asked']
       IN IF q.upgrade
          THEN Contains(ops', Operation("websocket")) <=>
                 \A list \in AllowedUris : DeepestAncestor(list, q.path) # <<>>
          ELSE /\ server = "up" => (routed <=> given # NoMsg)
               /\ given # NoMsg => /\ given.uri = q.path
                                   /\ given.queryParameters = q.parameters]_vars

Exchange == INSTANCE HttpExchange WITH
  answered <- Len(replies), open <- InUse

\* The connection keeps what HttpExchange promises its client: one answer per
\* request, in order, before the next request, nothing after the last answer.
ImplementsExchange == Exchange!Spec

\* Once the handler has replied or nobody holds the wrapper any more, the
\* client gets its answer unless the connection fails; and when the server is
\* gone every connection comes to its end, unless a thread still keeps the
\* wrapper of an unanswered request.
ConnectionSettles ==
  /\ \A r \in Numbers :
       r <= asked /\ (mResponseSent[r] \/ holders[r] = {}) ~> Len(replies) >= r \/ failed
  /\ server = "gone" ~> ~InUse \/ \E r \in Numbers : holders[r] = {"app"} /\ ~mResponseSent[r]
=============================================================================
