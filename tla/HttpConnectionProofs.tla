----------------------- MODULE HttpConnectionProofs ------------------------
(***************************************************************************)
(* TLAPS proofs about HttpConnection, for any requests, registered uris    *)
(* and TLS settings and any number of requests on the connection.          *)
(*                                                                         *)
(* The argument: the connection has one turn, which is an operation on the *)
(* stream, a reply posted to the strand, or a wrapper whose request nobody *)
(* has answered yet; every step passes the turn on or drops it.            *)
(***************************************************************************)
EXTENDS HttpConnection, SequenceLemmas

\* Somebody holds the wrapper of r and may still answer.
Waiting(r) == holders[r] # {} /\ ~mResponseSent[r]

\* There is one turn: an unanswered wrapper is that of the last request, and
\* neither an operation nor a posted reply goes on beside it.
OneTurn ==
  /\ OneOperation
  /\ \A r \in Numbers : Waiting(r) => r = asked /\ ops = <<>> /\ strand = <<>>

\* The work queue holds at most one wrapper, and is the only one to hold it.
Queued ==
  /\ Len(wq) <= 1
  /\ \A r \in Numbers : "queue" \in holders[r] => wq = <<r>>
  /\ wq # <<>> => holders[wq[1]] = {"queue"} /\ ~mResponseSent[wq[1]]

\* Wrappers belong to requests that were read.
WrappersAsked == \A r \in Numbers : mResponseSent[r] \/ holders[r] # {} => r <= asked

\* Reply c says what became of request r.
Right(c, r) ==
  /\ c.req = r
  /\ c.code = "handler" => mResponseSent[r]
  /\ c.code = "badRequest" => ~mResponseSent[r] /\ holders[r] = {}

\* Whoever has the turn decides how many requests are unanswered: one, and the
\* reply under way is for it, or none before the next request is read.
Balance ==
  /\ Len(replies) <= asked
  /\ strand # <<>> => asked = Len(replies) + 1 /\ Right(strand[1], asked)
  /\ ops # <<>> /\ ops[1].kind = "write" => asked = Len(replies) + 1 /\ Right(ops[1].reply, asked)
  /\ ops # <<>> /\ ops[1].kind \in {"detect", "handshake", "read"} => asked = Len(replies)
  /\ \A r \in Numbers : Waiting(r) => asked = Len(replies) + 1

IInv == TypeOK /\ OneTurn /\ Queued /\ WrappersAsked /\ Balance /\ AnswersAreRight

-----------------------------------------------------------------------------
\* The stream and the strand: both idle, one reply posted, or one operation.
LEMMA TurnCases ==
  ASSUME TypeOK, OneTurn
  PROVE  \/ ops = <<>> /\ strand = <<>>
         \/ ops = <<>> /\ \E c \in Replies : strand = <<c>>
         \/ strand = <<>> /\ \E o \in Operations : ops = <<o>>
  <1>1. ops \in Seq(Operations) /\ strand \in Seq(Replies) /\ Len(ops) + Len(strand) <= 1
    BY DEF TypeOK, OneTurn, OneOperation
  <1>2. Len(ops) \in Nat /\ Len(strand) \in Nat
    BY <1>1, LenProperties
  <1>3. ops = <<>> \/ \E o \in Operations : ops = <<o>>
    BY <1>1, <1>2, ShortSeq
  <1>4. strand = <<>> \/ \E c \in Replies : strand = <<c>>
    BY <1>1, <1>2, ShortSeq
  <1> QED
    BY <1>1, <1>3, <1>4

\* An operation that completes was the only one and nothing else had the turn:
\* only what its handler starts goes on.
LEMMA Completion ==
  ASSUME TypeOK, OneTurn, NEW k \in DOMAIN ops, NEW next \in Seq(Operations), Completes(k, next)
  PROVE  /\ k = 1 /\ ops[1] \in Operations /\ ops = <<ops[1]>> /\ strand = <<>> /\ ops' = next
         /\ \A r \in Numbers : ~Waiting(r)
  <1>1. PICK o \in Operations : ops = <<o>> /\ strand = <<>>
    BY TurnCases
  <1>2. k = 1 /\ ops # <<>> /\ ops[1] = o
    BY <1>1
  <1>3. RemoveAt(ops, 1) = <<>>
    BY <1>1 DEF RemoveAt
  <1> QED
    BY <1>1, <1>2, <1>3 DEF OneTurn, Completes

\* Flattening a list of at most one list.
LEMMA FlattenNone == ASSUME NEW s, Len(s) = 0 PROVE FlattenSeq(s) = s
  BY DEF FlattenSeq

LEMMA FlattenOne == ASSUME NEW x PROVE FlattenSeq(<<x>>) = x
  <1> DEFINE F(f) == [i \in 1 .. 1 |-> IF i = 1 THEN <<x>>[i] ELSE f[i - 1] \o <<x>>[i]]
             g == CHOOSE f : f = F(f)
  <1>1. FlattenSeq(<<x>>) = g[1]
    BY DEF FlattenSeq
  <1>2. [i \in 1 .. 1 |-> x] = F([i \in 1 .. 1 |-> x])
    OBVIOUS
  <1>3. g = F(g)
    BY <1>2
  <1> QED
    BY <1>1, <1>3

-----------------------------------------------------------------------------
\* OnAccept gives the turn to the first operation.
LEMMA InitIInv == Init => IInv
  <1> SUFFICES ASSUME Init PROVE IInv
    OBVIOUS
  <1> USE SettingsOK
  <1>1. PICK mode \in SslModes :
          /\ ssl = (mode = "required")
          /\ ops = <<CASE mode = "none" -> Reading
                       [] mode = "required" -> Operation("handshake")
                       [] mode = "detect" -> Operation("detect")>>
    BY DEF Init
  <1>2. PICK o \in {Reading, Operation("handshake"), Operation("detect")} : ops = <<o>>
    BY <1>1
  <1>3. o \in Operations /\ o.kind \in {"detect", "handshake", "read"}
    BY DEF Operations, Reading, Operation
  <1>4. ops \in Seq(Operations) /\ ops[1] = o /\ Len(ops) = 1 /\ ops # <<>>
    BY <1>2, <1>3
  <1>5. TypeOK
    <2>1. strand \in Seq(Replies) /\ replies \in Seq(Replies) /\ wq \in Seq(Numbers)
      BY EmptySeq DEF Init
    <2>2. ssl \in BOOLEAN
      BY <1>1, Zenon
    <2>3. /\ mUris \subseteq Uris /\ uriOps = 0 /\ server = "up" /\ failed = FALSE
          /\ asked = 0 /\ running = 0
          /\ msg = [r \in Numbers |-> NoMsg]
          /\ keepAlive = [r \in Numbers |-> TRUE]
          /\ holders = [r \in Numbers |-> {}]
          /\ mResponseSent = [r \in Numbers |-> FALSE]
      BY DEF Init, NoRequest
    <2>4. /\ keepAlive \in [Numbers -> BOOLEAN] /\ mResponseSent \in [Numbers -> BOOLEAN]
          /\ DOMAIN msg = Numbers
          /\ holders \in [Numbers -> SUBSET {"queue", "callback", "app"}]
      BY <2>3
    <2>5. uriOps \in 0 .. MaxUriOps /\ asked \in 0 .. MaxRequests /\ running \in 0 .. MaxRequests
      BY <2>3, SettingsOK
    <2> QED
      BY <1>4, <2>1, <2>2, <2>3, <2>4, <2>5 DEF TypeOK
  <1>6. /\ strand = <<>> /\ Len(strand) = 0 /\ replies = <<>> /\ Len(replies) = 0
        /\ wq = <<>> /\ Len(wq) = 0 /\ asked = 0
        /\ \A r \in Numbers : holders[r] = {} /\ ~mResponseSent[r]
    BY DEF Init
  <1>7. OneTurn
    BY <1>4, <1>6 DEF OneTurn, OneOperation, Waiting
  <1>8. Queued /\ WrappersAsked
    BY <1>6 DEF Queued, WrappersAsked
  <1>9. Balance
    BY <1>3, <1>4, <1>6 DEF Balance, Waiting
  <1>10. AnswersAreRight
    BY <1>6 DEF AnswersAreRight
  <1> QED
    BY <1>5, <1>7, <1>8, <1>9, <1>10 DEF IInv

-----------------------------------------------------------------------------
\* A completion that leaves the wrappers alone passes the turn to next, if that
\* is anything at all.
LEMMA TurnPassed ==
  ASSUME IInv, NEW k \in DOMAIN ops, NEW next \in Seq(Operations), Len(next) <= 1,
         Completes(k, next), UNCHANGED <<strand, wrappers, worker>>,
         asked' = asked \/ asked' = asked + 1
  PROVE  /\ k = 1 /\ ops # <<>> /\ ops[1] \in Operations /\ ops' = next
         /\ strand' = <<>> /\ \A r \in Numbers : ~Waiting(r)'
         /\ OneTurn' /\ Queued' /\ WrappersAsked'
  <1> USE DEF IInv
  <1>1. /\ k = 1 /\ ops[1] \in Operations /\ ops = <<ops[1]>> /\ strand = <<>> /\ ops' = next
        /\ \A r \in Numbers : ~Waiting(r)
    BY Completion
  <1>2. ops # <<>>
    BY <1>1
  <1>3. strand' = <<>> /\ Len(strand') = 0
    BY <1>1
  <1>4. \A r \in Numbers : ~Waiting(r)'
    BY <1>1 DEF wrappers, Waiting
  <1>5. OneTurn'
    <2>1. Len(next) + Len(strand') <= 1
      BY <1>3, LenProperties
    <2> QED
      BY <1>1, <1>4, <2>1 DEF OneTurn, OneOperation
  <1>6. Queued'
    BY DEF Queued, wrappers, worker
  <1>7. WrappersAsked'
    BY SettingsOK DEF WrappersAsked, wrappers, TypeOK, Numbers
  <1> QED
    BY <1>1, <1>2, <1>3, <1>4, <1>5, <1>6, <1>7

\* Whether a reply is right does not change when the wrappers do not, and the
\* replies the client has got stay right.
LEMMA RightKept ==
  ASSUME AnswersAreRight, UNCHANGED <<wrappers, replies>>
  PROVE  AnswersAreRight'
  BY DEF AnswersAreRight, wrappers

\* A single operation.
LEMMA OneOp ==
  ASSUME NEW o \in Operations
  PROVE  <<o>> \in Seq(Operations) /\ Len(<<o>>) = 1 /\ <<o>> # <<>> /\ <<o>>[1] = o
  OBVIOUS

\* The kinds of operations there are.
LEMMA SomeOps ==
  /\ \A kind \in {"detect", "handshake", "read", "shutdown", "websocket"} :
       Operation(kind) \in Operations /\ Operation(kind).kind = kind
  /\ Reading = Operation("read")
  /\ \A c \in Replies : Writing(c) \in Operations /\ Writing(c).kind = "write" /\ Writing(c).reply = c
  BY DEF Operations, Operation, Writing, Reading

\* What may take the turn, when asked requests were read and answered of them
\* answered: nothing, an operation that ends the exchange, one that leads to the
\* next request, or the reply to the last one.
MayFollow(next) ==
  next = <<>> \/ \E o \in Operations :
    /\ next = <<o>>
    /\ \/ o.kind \in {"shutdown", "websocket"}
       \/ o.kind \in {"detect", "handshake", "read"} /\ asked = Len(replies)
       \/ o.kind = "write" /\ asked = Len(replies) + 1 /\ Right(o.reply, asked)

\* A completion that leaves the wrappers alone keeps the invariant when what it
\* starts may follow.
LEMMA StreamStep ==
  ASSUME IInv, NEW k \in DOMAIN ops, NEW next, Completes(k, next),
         UNCHANGED <<uris, server, strand, wrappers, worker>>,
         ssl' \in BOOLEAN, failed' \in BOOLEAN, replies' \in Seq(Replies),
         asked' = asked \/ asked' = asked + 1, asked' <= MaxRequests,
         AnswersAreRight', Len(replies)' <= asked', MayFollow(next)'
  PROVE  IInv'
  <1>1. next \in Seq(Operations) /\ Len(next) <= 1
    <2>1. CASE next = <<>>
      BY <2>1, EmptySeq
    <2>2. CASE \E o \in Operations : next = <<o>>
      BY <2>2
    <2> QED
      BY <2>1, <2>2 DEF MayFollow
  <1>2. /\ ops' = next /\ strand' = <<>> /\ \A r \in Numbers : ~Waiting(r)'
        /\ OneTurn' /\ Queued' /\ WrappersAsked'
    BY <1>1, TurnPassed
  <1>3. asked' \in 0 .. MaxRequests
    BY SettingsOK DEF IInv, TypeOK
  <1>4. TypeOK'
    BY <1>1, <1>2, <1>3 DEF IInv, TypeOK, uris, wrappers, worker
  <1>5. Balance'
    BY <1>2 DEF Balance, MayFollow
  <1> QED
    BY <1>2, <1>4, <1>5 DEF IInv

\* An error, a timeout or the end of the stream drops the turn.
LEMMA StepOperationFails == ASSUME IInv, NEW k \in DOMAIN ops, OperationFails(k) PROVE IInv'
  <1>1. Completes(k, <<>>) /\ MayFollow(<<>>)'
    BY DEF OperationFails, MayFollow
  <1>2. Len(replies)' <= asked' /\ AnswersAreRight'
    BY RightKept DEF OperationFails, IInv, Balance
  <1> QED
    BY <1>1, <1>2, StreamStep DEF OperationFails, IInv, TypeOK

\* Detection leads to the handshake or to the first request.
LEMMA StepDetected ==
  ASSUME IInv, NEW k \in DOMAIN ops, NEW isSsl \in BOOLEAN, Detected(k, isSsl)
  PROVE  IInv'
  <1>1. PICK o \in Operations : /\ o.kind \in {"handshake", "read"}
                               /\ Completes(k, <<o>>)
    BY SomeOps DEF Detected
  <1>2. k = 1 /\ ops # <<>> /\ ops[1].kind = "detect"
    BY <1>1, OneOp, Completion DEF IInv, Detected
  <1>3. MayFollow(<<o>>)'
    BY <1>1, <1>2 DEF MayFollow, IInv, Balance, Detected
  <1>4. Len(replies)' <= asked' /\ AnswersAreRight'
    BY RightKept DEF Detected, IInv, Balance
  <1> QED
    BY <1>1, <1>3, <1>4, StreamStep DEF Detected, IInv, TypeOK

\* The TLS handshake leads to the first request.
LEMMA StepOnSslHandshake == ASSUME IInv, NEW k \in DOMAIN ops, OnSslHandshake(k) PROVE IInv'
  <1>1. PICK o \in Operations : o.kind = "read" /\ Completes(k, <<o>>)
    BY SomeOps DEF OnSslHandshake
  <1>2. k = 1 /\ ops # <<>> /\ ops[1].kind = "handshake"
    BY <1>1, OneOp, Completion DEF IInv, OnSslHandshake
  <1>3. MayFollow(<<o>>)'
    BY <1>1, <1>2 DEF MayFollow, IInv, Balance, OnSslHandshake
  <1>4. Len(replies)' <= asked' /\ AnswersAreRight'
    BY RightKept DEF OnSslHandshake, IInv, Balance
  <1> QED
    BY <1>1, <1>3, <1>4, StreamStep DEF OnSslHandshake, IInv, TypeOK

\* A request read after the server is gone, and the end of the TLS shutdown.
LEMMA StepEnds ==
  ASSUME IInv, NEW k \in DOMAIN ops, OnReadServerGone(k) \/ OnSslShutdown(k)
  PROVE  IInv'
  <1>1. Completes(k, <<>>) /\ MayFollow(<<>>)'
    BY DEF OnReadServerGone, OnSslShutdown, MayFollow
  <1>2. UNCHANGED <<uris, server, ssl, failed, strand, asked, wrappers, worker, replies, request>>
    BY DEF OnReadServerGone, OnSslShutdown
  <1>3. Len(replies)' <= asked' /\ AnswersAreRight'
    BY <1>2, RightKept DEF IInv, Balance
  <1> QED
    BY <1>1, <1>2, <1>3, StreamStep DEF IInv, TypeOK

\* An upgrade gives the stream away.
LEMMA StepUpgrade ==
  ASSUME IInv, NEW k \in DOMAIN ops, NEW q \in Requests, Upgrade(k, q)
  PROVE  IInv'
  <1>1. PICK o \in Operations : o.kind = "websocket" /\ Completes(k, <<o>>)
    BY SomeOps DEF Upgrade
  <1>2. MayFollow(<<o>>)'
    BY <1>1 DEF MayFollow
  <1>3. Len(replies)' <= asked' /\ AnswersAreRight'
    BY RightKept DEF Upgrade, IInv, Balance
  <1> QED
    BY <1>1, <1>2, <1>3, StreamStep DEF Upgrade, IInv, TypeOK

\* What a handler that answers at once does with the turn.
RepliesAtOnce(k, keep) ==
  /\ ops[k].kind = "read" /\ asked < MaxRequests
  /\ asked' = asked + 1
  /\ Completes(k, <<Writing(ReplyTo(asked + 1, "notFound", keep))>>)
  /\ UNCHANGED <<uris, server, ssl, failed, strand, wrappers, worker, replies>>

\* A reply of the connection itself is the answer to the request just read.
LEMMA StepRepliesAtOnce ==
  ASSUME IInv, NEW k \in DOMAIN ops, NEW keep \in BOOLEAN, RepliesAtOnce(k, keep)
  PROVE  IInv'
  <1>1. asked \in Nat /\ asked + 1 \in Numbers
    BY SettingsOK DEF IInv, TypeOK, RepliesAtOnce, Numbers
  <1>2. PICK c \in Replies : c = ReplyTo(asked + 1, "notFound", keep)
    BY <1>1 DEF Replies, ReplyTo
  <1>3. PICK o \in Operations : /\ o.kind = "write" /\ o.reply = c /\ Completes(k, <<o>>)
    BY <1>2, SomeOps DEF RepliesAtOnce
  <1>4. k = 1 /\ ops # <<>> /\ ops[1].kind = "read"
    BY <1>3, OneOp, Completion DEF IInv, RepliesAtOnce
  <1>5. asked = Len(replies)
    BY <1>4 DEF IInv, Balance
  <1>6. Right(o.reply, asked)'
    BY <1>2, <1>3 DEF Right, ReplyTo, RepliesAtOnce
  <1>7. MayFollow(<<o>>)'
    BY <1>3, <1>5, <1>6 DEF MayFollow, RepliesAtOnce
  <1>8. Len(replies)' <= asked' /\ AnswersAreRight'
    BY <1>1, <1>5, RightKept DEF RepliesAtOnce, IInv
  <1> QED
    BY <1>1, <1>3, <1>7, <1>8, StreamStep, SettingsOK DEF RepliesAtOnce, IInv, TypeOK

\* Refused upgrades and requests without a handler are answered at once.
LEMMA StepNotFound ==
  ASSUME IInv, NEW k \in DOMAIN ops, NEW q \in Requests, RefuseUpgrade(k, q) \/ NoHandler(k, q)
  PROVE  IInv'
  <1>1. CASE RefuseUpgrade(k, q)
    BY <1>1, StepRepliesAtOnce DEF RefuseUpgrade, RepliesAtOnce
  <1>2. CASE NoHandler(k, q)
    BY <1>2, StepRepliesAtOnce, SettingsOK DEF NoHandler, RepliesAtOnce
  <1> QED
    BY <1>1, <1>2

\* The reply just written answers the last request; the next one may be read.
LEMMA StepOnWritten == ASSUME IInv, NEW k \in DOMAIN ops, OnWritten(k) PROVE IInv'
  <1>1. PICK next : next = AfterWrite(ops[k].reply)
    OBVIOUS
  <1>2. next = <<>> \/ \E o \in Operations : next = <<o>> /\ o.kind \in {"read", "shutdown"}
    BY <1>1, SomeOps DEF AfterWrite
  <1>3. next \in Seq(Operations)
    <2>1. CASE next = <<>>
      BY <2>1, EmptySeq
    <2> QED
      BY <1>2, <2>1, OneOp
  <1>4. Completes(k, next)
    BY <1>1 DEF OnWritten
  <1>5. k = 1 /\ ops # <<>> /\ ops[1] \in Operations /\ ops[1].kind = "write"
    BY <1>3, <1>4, Completion DEF IInv, OnWritten
  <1>6. asked = Len(replies) + 1 /\ Right(ops[1].reply, asked)
    BY <1>5 DEF IInv, Balance
  <1>7. PICK c \in Replies : c = ops[1].reply
    BY <1>5 DEF Operations, Operation, Writing
  <1>8. /\ replies \in Seq(Replies) /\ Len(replies) \in Nat /\ replies' = Append(replies, c)
        /\ replies' \in Seq(Replies) /\ Len(replies') = Len(replies) + 1
        /\ replies'[Len(replies) + 1] = c
        /\ \A i \in 1 .. Len(replies) : replies'[i] = replies[i]
    BY <1>5, <1>7, LenProperties, AppendProperties DEF IInv, TypeOK, OnWritten
  <1>9. AnswersAreRight'
    <2> SUFFICES ASSUME NEW i \in 1 .. Len(replies) + 1
                 PROVE  Right(replies[i], i)'
      BY <1>8 DEF AnswersAreRight, Right
    <2>1. CASE i = Len(replies) + 1
      BY <2>1, <1>6, <1>7, <1>8 DEF Right, OnWritten, wrappers
    <2>2. CASE i \in 1 .. Len(replies)
      BY <2>2, <1>8 DEF Right, IInv, AnswersAreRight, OnWritten, wrappers
    <2> QED
      BY <2>1, <2>2, <1>8
  <1>10. Len(replies)' <= asked' /\ MayFollow(next)'
    BY <1>2, <1>6, <1>8 DEF MayFollow, OnWritten
  <1> QED
    BY <1>4, <1>8, <1>9, <1>10, StreamStep, SettingsOK DEF OnWritten, IInv, TypeOK

-----------------------------------------------------------------------------
\* Without a wrapper that waits, none is queued.
LEMMA QueueEmpty ==
  ASSUME TypeOK, Queued, \A r \in Numbers : ~Waiting(r)
  PROVE  wq = <<>>
  <1> SUFFICES ASSUME wq # <<>> PROVE FALSE
    OBVIOUS
  <1>1. wq[1] \in Numbers
    BY EmptySeq, ElementOfSeq DEF TypeOK
  <1> QED
    BY <1>1 DEF Queued, Waiting

\* The turn goes to the new wrapper, or, when the queue is stopped, to the reply
\* that its destructor posts.
LEMMA StepHandleHttpRequest ==
  ASSUME IInv, NEW k \in DOMAIN ops, NEW q \in Requests, HandleHttpRequest(k, q)
  PROVE  IInv'
  <1> DEFINE r == asked + 1
  <1>1. asked \in Nat /\ r \in Numbers /\ asked' = r /\ r \in 0 .. MaxRequests
    BY SettingsOK DEF IInv, TypeOK, HandleHttpRequest, Numbers
  <1>2. <<>> \in Seq(Operations) /\ Completes(k, <<>>)
    BY EmptySeq DEF HandleHttpRequest, NoRead
  <1>3. /\ k = 1 /\ ops[1] \in Operations /\ ops = <<ops[1]>> /\ strand = <<>> /\ ops' = <<>>
        /\ \A n \in Numbers : ~Waiting(n)
    BY <1>2, Completion DEF IInv
  <1>4. ops # <<>> /\ ops[1].kind = "read" /\ asked = Len(replies)
    <2>1. ops # <<>>
      BY <1>3
    <2>2. ops[1].kind = "read"
      BY <1>3 DEF HandleHttpRequest
    <2> QED
      BY <2>1, <2>2 DEF IInv, Balance
  <1>5. wq = <<>>
    BY <1>3, QueueEmpty DEF IInv
  <1>6. holders[r] = {} /\ ~mResponseSent[r]
    BY <1>1 DEF IInv, WrappersAsked
  <1>7. /\ UNCHANGED <<uris, server, ssl, failed, mResponseSent, running, replies>>
        /\ keepAlive' = [keepAlive EXCEPT ![r] = q.keepAlive]
        /\ q.keepAlive \in BOOLEAN
    BY SettingsOK DEF HandleHttpRequest
  <1>8. ASSUME \A n \in Numbers \ {r} : holders'[n] = holders[n]
        PROVE  AnswersAreRight'
    <2>1. DOMAIN replies = 1 .. asked
      BY <1>4, LenProperties DEF IInv, TypeOK
    <2>2. \A i \in DOMAIN replies : i \in Numbers \ {r}
      BY <1>1, <2>1, SettingsOK DEF Numbers
    <2> QED
      BY <2>2, <1>7, <1>8 DEF IInv, AnswersAreRight
  <1>9. CASE /\ server = "up"
             /\ wq' = Append(wq, r)
             /\ holders' = [holders EXCEPT ![r] = {"queue"}]
             /\ DOMAIN msg' = Numbers
             /\ UNCHANGED strand
    <2>1. wq' = <<r>> /\ wq' \in Seq(Numbers) /\ Len(wq') = 1 /\ wq'[1] = r
      BY <1>1, <1>5, <1>9
    <2>2. /\ holders' \in [Numbers -> SUBSET {"queue", "callback", "app"}]
          /\ holders'[r] = {"queue"}
          /\ \A n \in Numbers \ {r} : holders'[n] = holders[n]
      BY <1>1, <1>9 DEF IInv, TypeOK
    <2>3. TypeOK'
      BY <1>1, <1>3, <1>7, <1>9, <2>1, <2>2, EmptySeq DEF IInv, TypeOK, uris
    <2>4. \A n \in Numbers : Waiting(n)' => n = r
      BY <1>3, <1>7, <2>2 DEF Waiting
    <2>5. OneTurn'
      BY <1>1, <1>3, <1>9, <2>4, EmptySeq DEF OneTurn, OneOperation
    <2>6. Queued'
      BY <1>1, <1>5, <1>6, <1>7, <2>1, <2>2 DEF IInv, Queued
    <2>7. WrappersAsked'
      BY <1>1, <1>7, <2>2 DEF IInv, WrappersAsked, Numbers
    <2>8. Balance'
      BY <1>1, <1>3, <1>4, <1>7, <1>9 DEF Balance
    <2> QED
      BY <1>8, <2>2, <2>3, <2>5, <2>6, <2>7, <2>8 DEF IInv
  <1>10. CASE /\ strand' = Append(strand, ReplyTo(r, "badRequest", q.keepAlive))
              /\ UNCHANGED <<wq, holders, msg>>
    <2>1. PICK c \in Replies : c = ReplyTo(r, "badRequest", q.keepAlive)
      BY <1>1, <1>7 DEF Replies, ReplyTo
    <2>2. strand' = <<c>> /\ strand' \in Seq(Replies) /\ Len(strand') = 1 /\ strand'[1] = c
      BY <1>3, <1>10, <2>1
    <2>3. TypeOK'
      BY <1>1, <1>3, <1>7, <1>10, <2>2, EmptySeq DEF IInv, TypeOK, uris
    <2>4. \A n \in Numbers : ~Waiting(n)'
      BY <1>3, <1>7, <1>10 DEF Waiting
    <2>5. OneTurn'
      BY <1>3, <2>2, <2>4, EmptySeq DEF OneTurn, OneOperation
    <2>6. Queued'
      BY <1>7, <1>10 DEF IInv, Queued
    <2>7. WrappersAsked'
      BY <1>1, <1>7, <1>10 DEF IInv, WrappersAsked, Numbers
    <2>8. Right(c, asked)'
      BY <1>1, <1>6, <1>7, <1>10, <2>1 DEF Right, ReplyTo
    <2>9. Balance'
      BY <1>1, <1>3, <1>4, <1>7, <2>2, <2>4, <2>8 DEF Balance
    <2> QED
      BY <1>8, <1>10, <2>3, <2>5, <2>6, <2>7, <2>9 DEF IInv
  <1>11. DOMAIN msg' = Numbers
    BY DEF HandleHttpRequest, IInv, TypeOK
  <1> QED
    BY <1>9, <1>10, <1>11 DEF HandleHttpRequest

\* The turn goes from the posted reply to the write of it.
LEMMA StepSendResponse == ASSUME IInv, SendResponse PROVE IInv'
  <1>1. PICK c \in Replies : ops = <<>> /\ strand = <<c>>
    BY TurnCases DEF IInv, SendResponse
  <1>2. PICK o \in Operations : o = Writing(c) /\ o.kind = "write" /\ o.reply = c
    BY SomeOps
  <1>3. ops' = <<o>> /\ strand' = <<>>
    BY <1>1, <1>2 DEF SendResponse
  <1>4. ops' \in Seq(Operations) /\ Len(ops') = 1 /\ ops'[1] = o /\ ops' # <<>> /\ Len(strand') = 0
    BY <1>3
  <1>5. UNCHANGED <<uris, server, ssl, failed, asked, wrappers, worker, replies>>
    BY DEF SendResponse
  <1>6. \A r \in Numbers : ~Waiting(r) /\ ~Waiting(r)'
    BY <1>1, <1>5 DEF IInv, OneTurn, Waiting, wrappers
  <1>7. TypeOK'
    BY <1>3, <1>4, <1>5, EmptySeq DEF IInv, TypeOK, uris, wrappers, worker
  <1>8. OneTurn'
    BY <1>4, <1>6 DEF OneTurn, OneOperation
  <1>9. Queued' /\ WrappersAsked' /\ AnswersAreRight'
    BY <1>5 DEF IInv, Queued, WrappersAsked, AnswersAreRight, wrappers, worker
  <1>10. asked = Len(replies) + 1 /\ Right(c, asked)
    BY <1>1 DEF IInv, Balance
  <1>11. Balance'
    BY <1>2, <1>3, <1>4, <1>5, <1>6, <1>10 DEF IInv, Balance, Right, wrappers
  <1> QED
    BY <1>7, <1>8, <1>9, <1>11 DEF IInv

\* The head of the work queue waits.
LEMMA QueueHead ==
  ASSUME TypeOK, Queued, wq # <<>>
  PROVE  /\ Head(wq) \in Numbers /\ wq = <<Head(wq)>>
         /\ holders[Head(wq)] = {"queue"} /\ ~mResponseSent[Head(wq)]
  <1>1. PICK x \in Numbers : wq = <<x>>
    BY ShortSeq DEF TypeOK, Queued
  <1>2. Head(wq) = x /\ wq[1] = x
    BY <1>1
  <1> QED
    BY <1>1, <1>2 DEF Queued

\* The answers the client has got are to requests that were read.
LEMMA RepliesNumbered ==
  ASSUME IInv
  PROVE  \A i \in DOMAIN replies : i \in Numbers
  <1>1. DOMAIN replies = 1 .. Len(replies) /\ Len(replies) \in Nat /\ Len(replies) <= asked
    BY LenProperties DEF IInv, TypeOK, Balance
  <1> QED
    BY <1>1, SettingsOK DEF IInv, TypeOK, Numbers

\* When the holders of wrappers change but not whether anybody holds them, and
\* not the queue's, the turn stays where it is.
LEMMA HoldersChange ==
  ASSUME IInv,
         UNCHANGED <<uris, stream, strand, asked, mResponseSent, replies>>,
         server' \in {"up", "queueStopped", "gone"}, DOMAIN msg' = Numbers, keepAlive' \in [Numbers -> BOOLEAN],
         running' \in 0 .. MaxRequests, wq' \in Seq(Numbers),
         holders' \in [Numbers -> SUBSET {"queue", "callback", "app"}],
         \A r \in Numbers : holders'[r] = {} <=> holders[r] = {},
         Queued'
  PROVE  IInv'
  <1>1. \A r \in Numbers : Waiting(r)' <=> Waiting(r)
    BY DEF Waiting
  <1>2. TypeOK'
    BY DEF IInv, TypeOK, uris, stream
  <1>3. OneTurn' /\ WrappersAsked'
    BY <1>1 DEF IInv, OneTurn, OneOperation, WrappersAsked, stream
  <1>4. \A i \in DOMAIN replies : i \in Numbers
    BY RepliesNumbered
  <1>5. AnswersAreRight'
    BY <1>4 DEF IInv, AnswersAreRight
  <1>6. Len(replies) \in Nat
    BY LenProperties DEF IInv, TypeOK
  <1>7. ASSUME NEW c, asked = Len(replies) + 1, Right(c, asked) PROVE Right(c, asked)'
    <2>1. asked \in Numbers
      BY <1>6, <1>7, SettingsOK DEF IInv, TypeOK, Numbers
    <2> QED
      BY <1>7, <2>1 DEF Right
  <1>8. Balance'
    BY <1>1, <1>7 DEF IInv, Balance, stream
  <1> QED
    BY <1>2, <1>3, <1>5, <1>8 DEF IInv

\* The work queue hands its wrapper to the callback.
LEMMA StepRunHandler == ASSUME IInv, RunHandler PROVE IInv'
  <1>1. /\ Head(wq) \in Numbers /\ wq = <<Head(wq)>>
        /\ holders[Head(wq)] = {"queue"} /\ ~mResponseSent[Head(wq)]
    BY QueueHead DEF IInv, RunHandler
  <1>2. wq' = <<>> /\ wq' \in Seq(Numbers) /\ Len(wq') = 0
    BY <1>1, EmptySeq DEF RunHandler
  <1>3. /\ holders' \in [Numbers -> SUBSET {"queue", "callback", "app"}]
        /\ holders'[Head(wq)] = {"callback"}
        /\ \A r \in Numbers \ {Head(wq)} : holders'[r] = holders[r]
    BY <1>1 DEF RunHandler, IInv, TypeOK
  <1>4. \A r \in Numbers : "queue" \in holders[r] => r = Head(wq)
    BY <1>1 DEF IInv, Queued
  <1>5. Queued'
    BY <1>2, <1>3, <1>4 DEF Queued
  <1>6. /\ DOMAIN msg' = Numbers /\ running' \in 0 .. MaxRequests
        /\ keepAlive' \in [Numbers -> BOOLEAN]
    BY <1>1, SettingsOK DEF RunHandler, IInv, TypeOK, Numbers
  <1>7. \A r \in Numbers : holders'[r] = {} <=> holders[r] = {}
    BY <1>1, <1>3
  <1> QED
    BY <1>2, <1>3, <1>5, <1>6, <1>7, HoldersChange DEF RunHandler, IInv, TypeOK

\* The callback shares its wrapper with another thread.
LEMMA StepHandOver == ASSUME IInv, NEW r \in Numbers, HandOver(r) PROVE IInv'
  <1>1. /\ holders' \in [Numbers -> SUBSET {"queue", "callback", "app"}]
        /\ holders'[r] = {"callback", "app"} /\ holders[r] = {"callback"}
        /\ \A n \in Numbers \ {r} : holders'[n] = holders[n]
    BY DEF HandOver, IInv, TypeOK
  <1>2. UNCHANGED <<uris, server, stream, strand, asked, msg, keepAlive, mResponseSent,
                    wq, running, replies>>
    BY DEF HandOver, worker
  <1>3. wq # <<>> => wq[1] \in Numbers /\ wq[1] # r
    <2> HAVE wq # <<>>
    <2>1. Head(wq) \in Numbers /\ wq = <<Head(wq)>> /\ holders[Head(wq)] = {"queue"}
      BY QueueHead DEF IInv
    <2>2. wq[1] = Head(wq)
      BY <2>1
    <2> QED
      BY <1>1, <2>1, <2>2
  <1>4. Queued'
    BY <1>1, <1>2, <1>3 DEF IInv, Queued
  <1>5. \A n \in Numbers : holders'[n] = {} <=> holders[n] = {}
    BY <1>1
  <1> QED
    BY <1>1, <1>2, <1>4, <1>5, HoldersChange DEF IInv, TypeOK

\* keepAlive is only read when a reply is made.
LEMMA StepSetKeepAlive == ASSUME IInv, NEW r \in Numbers, NEW keep \in BOOLEAN, SetKeepAlive(r, keep) PROVE IInv'
  <1>1. UNCHANGED <<uris, server, stream, strand, asked, msg, holders, mResponseSent,
                    wq, running, replies>>
    BY DEF SetKeepAlive, worker
  <1>2. keepAlive' \in [Numbers -> BOOLEAN]
    BY DEF SetKeepAlive, IInv, TypeOK
  <1>3. Queued'
    BY <1>1 DEF IInv, Queued
  <1> QED
    BY <1>1, <1>2, <1>3, HoldersChange DEF IInv, TypeOK

-----------------------------------------------------------------------------
\* The turn goes from the wrapper that waits to a reply posted for it.
LEMMA ReplyPosted ==
  ASSUME IInv, TypeOK', Queued',
         NEW r \in Numbers, Waiting(r), ~Waiting(r)',
         NEW c \in Replies, strand' = Append(strand, c), Right(c, r)',
         UNCHANGED <<stream, asked, replies>>,
         \A n \in Numbers \ {r} : holders'[n] = holders[n] /\ mResponseSent'[n] = mResponseSent[n]
  PROVE  IInv'
  <1>1. /\ r = asked /\ ops = <<>> /\ strand = <<>> /\ asked = Len(replies) + 1
        /\ \A n \in Numbers : Waiting(n) => n = r
    BY DEF IInv, OneTurn, Balance
  <1>2. strand' = <<c>> /\ strand'[1] = c /\ Len(strand') = 1 /\ ops' = <<>> /\ Len(ops') = 0
    BY <1>1, EmptySeq DEF stream
  <1>3. \A n \in Numbers : ~Waiting(n)'
    BY <1>1 DEF Waiting
  <1>4. OneTurn'
    BY <1>2, <1>3 DEF OneTurn, OneOperation
  <1>5. asked \in Nat /\ Len(replies) \in Nat /\ DOMAIN replies = 1 .. Len(replies)
    BY LenProperties DEF IInv, TypeOK
  <1>6. WrappersAsked'
    BY <1>1, <1>5 DEF IInv, WrappersAsked
  <1>7. Balance'
    BY <1>1, <1>2, <1>3, <1>5 DEF Balance
  <1>8. \A i \in DOMAIN replies : i \in Numbers \ {r}
    BY <1>1, <1>5, SettingsOK DEF IInv, TypeOK, Numbers
  <1>9. AnswersAreRight'
    BY <1>8 DEF IInv, AnswersAreRight
  <1> QED
    BY <1>4, <1>6, <1>7, <1>9 DEF IInv

\* What the handler and the wrapper's destructor reply has the type of a reply.
LEMMA ReplyType ==
  ASSUME TypeOK, NEW r \in Numbers, NEW code \in {"badRequest", "handler"}
  PROVE  ReplyTo(r, code, keepAlive[r]) \in Replies
  BY DEF TypeOK, Replies, ReplyTo

\* The queued wrapper is held by nobody but the queue.
LEMMA NotQueued ==
  ASSUME TypeOK, Queued, NEW r \in Numbers, holders[r] \cap {"callback", "app"} # {}
  PROVE  "queue" \notin holders[r] /\ (wq # <<>> => wq[1] # r)
  <1>1. "queue" \in holders[r] => wq = <<r>> /\ wq # <<>> /\ wq[1] = r
    BY DEF Queued
  <1> QED
    BY <1>1 DEF Queued

\* The first call of Reply() posts the reply.
LEMMA StepReply == ASSUME IInv, NEW r \in Numbers, Reply(r) PROVE IInv'
  <1>1. Waiting(r)
    BY DEF Reply, FirstCall, Waiting
  <1>2. /\ mResponseSent' \in [Numbers -> BOOLEAN] /\ mResponseSent'[r]
        /\ \A n \in Numbers \ {r} : mResponseSent'[n] = mResponseSent[n]
    BY DEF Reply, IInv, TypeOK
  <1>3. UNCHANGED <<uris, server, stream, asked, msg, keepAlive, holders, wq, running, replies>>
    BY DEF Reply, worker
  <1>4. PICK c \in Replies : c = ReplyTo(r, "handler", keepAlive[r])
    BY ReplyType DEF IInv
  <1>5. strand' = Append(strand, c) /\ strand' \in Seq(Replies)
    BY <1>4, AppendProperties DEF Reply, IInv, TypeOK
  <1>6. TypeOK'
    BY <1>2, <1>3, <1>5 DEF IInv, TypeOK, uris, stream
  <1>7. wq # <<>> => wq[1] # r /\ wq[1] \in Numbers
    BY NotQueued, EmptySeq, ElementOfSeq DEF Reply, IInv, TypeOK
  <1>8. Queued'
    BY <1>2, <1>3, <1>7 DEF IInv, Queued
  <1>9. Right(c, r)' /\ ~Waiting(r)'
    BY <1>2, <1>4 DEF Right, ReplyTo, Waiting
  <1> QED
    BY <1>1, <1>2, <1>3, <1>5, <1>6, <1>8, <1>9, ReplyPosted

\* A holder lets go: the last one posts the refusal if nobody has replied.
LEMMA StepRelease ==
  ASSUME IInv, NEW r \in Numbers, NEW holder \in {"callback", "app"}, Release(holder, r)
  PROVE  IInv'
  <1>1. /\ holder \in holders[r]
        /\ holders' \in [Numbers -> SUBSET {"queue", "callback", "app"}]
        /\ holders'[r] = holders[r] \ {holder}
        /\ \A n \in Numbers \ {r} : holders'[n] = holders[n]
    BY DEF Release, IInv, TypeOK
  <1>2. /\ UNCHANGED <<uris, server, stream, asked, msg, keepAlive, mResponseSent, wq, replies>>
        /\ running' \in 0 .. MaxRequests
    BY SettingsOK DEF Release, IInv, TypeOK, NoRequest
  <1>3. "queue" \notin holders[r] /\ (wq # <<>> => wq[1] # r)
    BY <1>1, NotQueued DEF IInv
  <1>4. Queued'
    <2>1. wq # <<>> => wq[1] \in Numbers
      BY EmptySeq, ElementOfSeq DEF IInv, TypeOK
    <2> QED
      BY <1>1, <1>2, <1>3, <2>1 DEF IInv, Queued
  <1>5. CASE holders[r] # {holder}
    <2>1. \A n \in Numbers : holders'[n] = {} <=> holders[n] = {}
      BY <1>1, <1>5
    <2>2. UNCHANGED strand
      BY <1>5 DEF Release
    <2> QED
      BY <1>1, <1>2, <1>4, <2>1, <2>2, HoldersChange DEF IInv, TypeOK
  <1>6. CASE holders[r] = {holder} /\ ~mResponseSent[r]
    <2>1. PICK c \in Replies : c = ReplyTo(r, "badRequest", keepAlive[r])
      BY ReplyType DEF IInv
    <2>2. strand \in Seq(Replies) /\ strand' = strand \o <<c>>
      BY <1>6, <2>1 DEF Release, Unhandled, IInv, TypeOK
    <2>3. strand' = Append(strand, c) /\ strand' \in Seq(Replies)
      BY <2>2, AppendIsConcat, AppendProperties
    <2>4. TypeOK'
      BY <1>1, <1>2, <2>3 DEF IInv, TypeOK, uris, stream
    <2>5. holders'[r] = {}
      BY <1>1, <1>6
    <2>6. Waiting(r) /\ ~Waiting(r)' /\ Right(c, r)'
      BY <1>2, <1>6, <2>1, <2>5 DEF Waiting, Right, ReplyTo
    <2> QED
      BY <1>1, <1>2, <1>4, <2>3, <2>4, <2>6, ReplyPosted
  <1>7. CASE holders[r] = {holder} /\ mResponseSent[r]
    <2>1. strand' = strand
      BY <1>7, ConcatEmptySeq DEF Release, Unhandled, IInv, TypeOK
    <2>2. \A n \in Numbers : Waiting(n)' <=> Waiting(n)
      BY <1>1, <1>2, <1>7 DEF Waiting
    <2>3. \A n \in Numbers : holders'[n] # {} => holders[n] # {}
      BY <1>1
    <2>4. TypeOK'
      BY <1>1, <1>2, <2>1 DEF IInv, TypeOK, uris, stream
    <2>5. OneTurn' /\ WrappersAsked'
      BY <1>2, <2>1, <2>2, <2>3 DEF IInv, OneTurn, OneOperation, WrappersAsked, stream
    <2>6. Len(replies) \in Nat /\ DOMAIN replies = 1 .. Len(replies)
      BY LenProperties DEF IInv, TypeOK
    <2>7. ASSUME asked = Len(replies) + 1 PROVE asked \in Numbers
      BY <2>6, <2>7, SettingsOK DEF IInv, TypeOK, Numbers
    <2>9. Balance'
      <3>1. ASSUME NEW c, asked = Len(replies) + 1, Right(c, asked) PROVE Right(c, asked)'
        BY <1>2, <2>3, <2>7, <3>1 DEF Right
      <3> QED
        BY <1>2, <2>1, <2>2, <3>1 DEF IInv, Balance, stream
    <2>10. \A i \in DOMAIN replies : i \in Numbers
      BY RepliesNumbered
    <2>11. AnswersAreRight'
      BY <1>2, <2>3, <2>10 DEF IInv, AnswersAreRight
    <2> QED
      BY <1>4, <2>4, <2>5, <2>9, <2>11 DEF IInv
  <1> QED
    BY <1>5, <1>6, <1>7

\* The stopped queue posts the refusal of the wrapper it held, if any.
LEMMA StepWorkQueueStop == ASSUME IInv, WorkQueueStop PROVE IInv'
  <1> DEFINE refusals == [i \in 1 .. Len(wq) |-> Unhandled(wq[i])]
  <1>1. /\ UNCHANGED <<uris, stream, asked, keepAlive, mResponseSent, running, replies>>
        /\ server' = "queueStopped" /\ wq' = <<>> /\ wq' \in Seq(Numbers) /\ Len(wq') = 0
        /\ DOMAIN msg' = Numbers
        /\ strand' = strand \o FlattenSeq(refusals)
    BY EmptySeq DEF WorkQueueStop
  <1>2. /\ holders' \in [Numbers -> SUBSET {"queue", "callback", "app"}]
        /\ \A r \in Numbers : holders'[r] = holders[r] \ {"queue"}
    BY DEF WorkQueueStop, IInv, TypeOK
  <1>3. Queued'
    BY <1>1, <1>2 DEF Queued
  <1>4. CASE wq = <<>>
    <2>1. refusals = <<>> /\ Len(refusals) = 0
      BY <1>4
    <2>2. FlattenSeq(refusals) = <<>>
      BY <2>1, FlattenNone
    <2>3. strand' = strand
      BY <1>1, <2>2, ConcatEmptySeq DEF IInv, TypeOK
    <2>4. \A r \in Numbers : "queue" \notin holders[r]
      BY <1>4 DEF IInv, Queued
    <2>5. \A r \in Numbers : holders'[r] = {} <=> holders[r] = {}
      BY <1>2, <2>4
    <2> QED
      BY <1>1, <1>2, <1>3, <2>3, <2>5, HoldersChange DEF IInv, TypeOK
  <1>5. CASE wq # <<>>
    <2>1. PICK r \in Numbers : wq = <<r>> /\ holders[r] = {"queue"} /\ ~mResponseSent[r]
      BY <1>5, QueueHead DEF IInv
    <2>2. PICK c \in Replies : c = ReplyTo(r, "badRequest", keepAlive[r])
      BY <2>1, ReplyType DEF IInv
    <2>3. refusals = <<<<c>>>>
      <3>1. Len(wq) = 1 /\ wq[1] = r
        BY <2>1
      <3>2. Unhandled(wq[1]) = <<c>>
        BY <2>1, <2>2, <3>1 DEF Unhandled
      <3> QED
        BY <3>1, <3>2
    <2>4. FlattenSeq(refusals) = <<c>>
      BY <2>3, FlattenOne
    <2>5. strand \in Seq(Replies) /\ strand' = strand \o <<c>>
      BY <1>1, <2>4 DEF IInv, TypeOK
    <2>6. strand' = Append(strand, c) /\ strand' \in Seq(Replies)
      BY <2>5, AppendIsConcat, AppendProperties
    <2>7. TypeOK'
      BY <1>1, <1>2, <2>6 DEF IInv, TypeOK, uris, stream
    <2>8. Waiting(r) /\ ~Waiting(r)' /\ Right(c, r)'
      BY <1>1, <1>2, <2>1, <2>2 DEF Waiting, Right, ReplyTo
    <2>9. \A n \in Numbers \ {r} : holders'[n] = holders[n] /\ mResponseSent'[n] = mResponseSent[n]
      <3>1. ASSUME NEW n \in Numbers \ {r} PROVE "queue" \notin holders[n]
        <4>1. "queue" \in holders[n] => wq = <<n>>
          BY DEF IInv, Queued
        <4>2. wq # <<n>>
          BY <2>1
        <4> QED
          BY <4>1, <4>2
      <3>2. ASSUME NEW n \in Numbers \ {r} PROVE holders[n] \ {"queue"} = holders[n]
        BY <3>1
      <3> QED
        BY <1>1, <1>2, <3>2
    <2> QED
      BY <1>1, <1>3, <2>6, <2>7, <2>8, <2>9, ReplyPosted
  <1> QED
    BY <1>4, <1>5

\* Registering uris and the end of the server leave the connection alone.
LEMMA StepServer ==
  ASSUME IInv, (\E u \in Uris : AddUri(u) \/ RemoveUri(u)) \/ ServerDestroyed
  PROVE  IInv'
  <1>1. UNCHANGED <<stream, strand, asked, wrappers, worker, replies>>
    BY DEF AddUri, RemoveUri, ServerDestroyed
  <1>2. mUris' \subseteq Uris /\ uriOps' \in 0 .. MaxUriOps
    BY SettingsOK DEF AddUri, RemoveUri, ServerDestroyed, uris, IInv, TypeOK
  <1>3. server' \in {"up", "queueStopped", "gone"}
    BY DEF AddUri, RemoveUri, ServerDestroyed, IInv, TypeOK
  <1>4. TypeOK'
    BY <1>1, <1>2, <1>3 DEF IInv, TypeOK, stream, wrappers, worker
  <1>5. OneTurn' /\ Queued' /\ WrappersAsked' /\ Balance' /\ AnswersAreRight'
    BY <1>1 DEF IInv, OneTurn, OneOperation, Queued, WrappersAsked, Balance, AnswersAreRight,
                Waiting, Right, stream, wrappers, worker
  <1> QED
    BY <1>4, <1>5 DEF IInv

\* Every step passes the turn on or drops it.
LEMMA StepIInv == IInv /\ [Next]_vars => IInv'
  <1> SUFFICES ASSUME IInv, [Next]_vars PROVE IInv'
    OBVIOUS
  <1>1. ASSUME NEW k \in DOMAIN ops, OperationFails(k) PROVE IInv'
    BY <1>1, StepOperationFails
  <1>2. ASSUME NEW k \in DOMAIN ops, NEW isSsl \in BOOLEAN, Detected(k, isSsl) PROVE IInv'
    BY <1>2, StepDetected
  <1>3. ASSUME NEW k \in DOMAIN ops, OnSslHandshake(k) PROVE IInv'
    BY <1>3, StepOnSslHandshake
  <1>4. ASSUME NEW k \in DOMAIN ops, OnReadServerGone(k) \/ OnSslShutdown(k) PROVE IInv'
    BY <1>4, StepEnds
  <1>5. ASSUME NEW k \in DOMAIN ops, OnWritten(k) PROVE IInv'
    BY <1>5, StepOnWritten
  <1>6. ASSUME NEW k \in DOMAIN ops, NEW q \in Requests, Upgrade(k, q) PROVE IInv'
    BY <1>6, StepUpgrade
  <1>7. ASSUME NEW k \in DOMAIN ops, NEW q \in Requests, RefuseUpgrade(k, q) \/ NoHandler(k, q)
        PROVE  IInv'
    BY <1>7, StepNotFound
  <1>8. ASSUME NEW k \in DOMAIN ops, NEW q \in Requests, HandleHttpRequest(k, q) PROVE IInv'
    BY <1>8, StepHandleHttpRequest
  <1>9. CASE SendResponse
    BY <1>9, StepSendResponse
  <1>10. CASE RunHandler
    BY <1>10, StepRunHandler
  <1>11. ASSUME NEW r \in Numbers, HandOver(r) PROVE IInv'
    BY <1>11, StepHandOver
  <1>12. ASSUME NEW r \in Numbers, NEW keep \in BOOLEAN, SetKeepAlive(r, keep) PROVE IInv'
    BY <1>12, StepSetKeepAlive
  <1>13. ASSUME NEW r \in Numbers, Reply(r) PROVE IInv'
    BY <1>13, StepReply
  <1>14. ASSUME NEW r \in Numbers, CallbackReturns(r) \/ AppReleases(r) PROVE IInv'
    BY <1>14, StepRelease DEF CallbackReturns, AppReleases
  <1>15. CASE (\E u \in Uris : AddUri(u) \/ RemoveUri(u)) \/ ServerDestroyed
    BY <1>15, StepServer
  <1>16. CASE WorkQueueStop
    BY <1>16, StepWorkQueueStop
  <1>17. CASE UNCHANGED vars
    BY <1>17 DEF vars, IInv, TypeOK, OneTurn, OneOperation, Queued, WrappersAsked, Balance,
                 AnswersAreRight, Waiting, Right, uris, stream, wrappers, worker
  <1> QED
    BY <1>1, <1>2, <1>3, <1>4, <1>5, <1>6, <1>7, <1>8, <1>9, <1>10, <1>11, <1>12, <1>13,
       <1>14, <1>15, <1>16, <1>17 DEF Next

\* The invariant holds in every state.
LEMMA InvariantHolds == Spec => []IInv
  BY InitIInv, StepIInv, PTL DEF Spec

-----------------------------------------------------------------------------
\* The operations, replies, wrappers and queues keep their types.
THEOREM TypeCorrect == Spec => []TypeOK
  <1>1. IInv => TypeOK
    BY DEF IInv
  <1> QED
    BY <1>1, InvariantHolds, PTL

\* However handlers, wrappers' destructors and the server's destructor
\* interleave, the stream never has two operations, nor one beside a reply that
\* waits to be sent.
THEOREM StreamUsedInTurn == Spec => []OneOperation
  <1>1. IInv => OneOperation
    BY DEF IInv, OneTurn
  <1> QED
    BY <1>1, InvariantHolds, PTL

\* The i-th answer is to the i-th request and says what became of it, for any
\* number of requests.
THEOREM RightAnswers == Spec => []AnswersAreRight
  <1>1. IInv => AnswersAreRight
    BY DEF IInv
  <1> QED
    BY <1>1, InvariantHolds, PTL

-----------------------------------------------------------------------------
(***************************************************************************)
(* The refinement of HttpExchange: reading a request that is answered at   *)
(* once or given to a handler is Ask, OnWritten is Answer, and any other   *)
(* step leaves the counts alone and may at most end the connection.        *)
(***************************************************************************)
\* A connection with its first operation under way is in use.
LEMMA InitExchange == Init => Exchange!Init
  <1> SUFFICES ASSUME Init PROVE Exchange!Init
    OBVIOUS
  <1>1. PICK mode \in SslModes :
          ops = <<CASE mode = "none" -> Reading
                    [] mode = "required" -> Operation("handshake")
                    [] mode = "detect" -> Operation("detect")>>
    BY DEF Init
  <1>2. PICK o \in {Reading, Operation("handshake"), Operation("detect")} : ops = <<o>>
    BY <1>1, SettingsOK
  <1>3. 1 \in DOMAIN ops /\ ops[1].kind \notin {"shutdown", "websocket"}
    BY <1>2 DEF Reading, Operation
  <1>4. InUse
    BY <1>3 DEF InUse
  <1>5. asked = 0 /\ Len(replies) = 0
    BY DEF Init
  <1> QED
    BY <1>4, <1>5 DEF Exchange!Init

\* A step that reads no request and writes no reply is a step of the abstract
\* connection unless it opens the connection again.
LEMMA CountsKept ==
  ASSUME UNCHANGED <<asked, replies>>, InUse' => InUse
  PROVE  Exchange!Next \/ UNCHANGED Exchange!vars
  <1>1. CASE InUse /\ ~InUse'
    <2>1. Exchange!End
      BY <1>1 DEF Exchange!End
    <2> QED
      BY <2>1 DEF Exchange!Next
  <1>2. CASE InUse <=> InUse'
    BY <1>2 DEF Exchange!vars
  <1> QED
    BY <1>1, <1>2

\* Reading a request is Ask, in a connection that is in use and stays so.
LEMMA Asks ==
  ASSUME IInv, asked' = asked + 1, UNCHANGED replies, asked = Len(replies), InUse, InUse'
  PROVE  Exchange!Next
  <1>1. Exchange!Ask
    BY DEF Exchange!Ask
  <1> QED
    BY <1>1 DEF Exchange!Next

\* An operation other than the shutdown and a websocket keeps it in use.
LEMMA OperationUses ==
  ASSUME TypeOK, NEW k \in DOMAIN ops, ops[k].kind \notin {"shutdown", "websocket"}
  PROVE  InUse
  BY DEF InUse

\* So does a wrapper that waits.
LEMMA WaitingUses == ASSUME NEW r \in Numbers, Waiting(r) PROVE InUse
  BY DEF InUse, Waiting

\* A completion that starts nothing, or a websocket, ends the connection.
LEMMA CompletionEnds ==
  ASSUME IInv, NEW k \in DOMAIN ops, NEW next, Completes(k, next),
         next = <<>> \/ next = <<Operation("websocket")>>,
         UNCHANGED <<strand, wrappers>>
  PROVE  ~InUse'
  <1>1. next \in Seq(Operations)
    BY SomeOps, OneOp, EmptySeq
  <1>2. strand = <<>> /\ ops' = next /\ \A r \in Numbers : ~Waiting(r)
    BY <1>1, Completion DEF IInv
  <1>3. \A i \in DOMAIN next : next[i].kind = "websocket"
    <2>1. CASE next = <<>>
      BY <2>1
    <2>2. CASE next = <<Operation("websocket")>>
      BY <2>2 DEF Operation
    <2> QED
      BY <2>1, <2>2
  <1> QED
    BY <1>2, <1>3 DEF InUse, Waiting, wrappers

\* A request that is read is asked, by whatever branch of OnRead.
LEMMA ReadsAsk ==
  ASSUME IInv, IInv', NEW k \in DOMAIN ops, NEW q \in Requests,
         RefuseUpgrade(k, q) \/ NoHandler(k, q) \/ HandleHttpRequest(k, q)
  PROVE  Exchange!Next
  <1>1. /\ asked' = asked + 1 /\ UNCHANGED <<replies, mResponseSent>> /\ ops[k].kind = "read"
        /\ \E next \in Seq(Operations) : Completes(k, next)
    <2>1. CASE HandleHttpRequest(k, q)
      BY <2>1, EmptySeq DEF HandleHttpRequest, NoRead
    <2>2. CASE RefuseUpgrade(k, q) \/ NoHandler(k, q)
      <3>1. PICK keep \in BOOLEAN : Completes(k, <<Writing(ReplyTo(asked + 1, "notFound", keep))>>)
        <4>1. FALSE \in BOOLEAN /\ q.keepAlive \in BOOLEAN
          BY SettingsOK
        <4> QED
          BY <2>2, <4>1 DEF RefuseUpgrade, NoHandler
      <3> DEFINE c == ReplyTo(asked + 1, "notFound", keep)
      <3>2. asked + 1 \in Numbers
        BY <2>2, SettingsOK DEF RefuseUpgrade, NoHandler, IInv, TypeOK, Numbers
      <3>3. c \in Replies
        BY <3>2 DEF Replies, ReplyTo
      <3>4. <<Writing(c)>> \in Seq(Operations)
        BY <3>3, SomeOps, OneOp
      <3> QED
        BY <2>2, <3>1, <3>4 DEF RefuseUpgrade, NoHandler, wrappers
    <2> QED
      BY <2>1, <2>2
  <1>2. InUse
    BY <1>1, OperationUses DEF IInv
  <1>3. k = 1 /\ ops # <<>> /\ strand = <<>> /\ \A r \in Numbers : ~Waiting(r)
    <2>1. k = 1 /\ ops = <<ops[1]>> /\ strand = <<>> /\ \A r \in Numbers : ~Waiting(r)
      BY <1>1, Completion DEF IInv
    <2> QED
      BY <2>1
  <1>4. asked = Len(replies)
    BY <1>1, <1>3 DEF IInv, Balance
  <1>5. InUse'
    <2>1. CASE RefuseUpgrade(k, q) \/ NoHandler(k, q)
      <3>1. PICK o : o.kind = "write" /\ Completes(k, <<o>>)
        <4>1. PICK c : Completes(k, <<Writing(c)>>)
          BY <2>1 DEF RefuseUpgrade, NoHandler
        <4>2. Writing(c).kind = "write"
          BY DEF Writing
        <4> QED
          BY <4>1, <4>2
      <3>2. RemoveAt(ops, k) \o <<o>> = ops'
        BY <3>1 DEF Completes
      <3>3. RemoveAt(ops, k) = <<>>
        <4>1. PICK p \in Operations : ops = <<p>>
          BY <1>3, TurnCases DEF IInv
        <4> QED
          BY <1>3, <4>1 DEF RemoveAt
      <3>4. ops' = <<o>> /\ 1 \in DOMAIN ops' /\ ops'[1].kind = "write"
        BY <3>1, <3>2, <3>3
      <3> QED
        BY <3>4 DEF InUse
    <2>2. CASE HandleHttpRequest(k, q)
      <3>1. asked + 1 \in Numbers
        BY <2>2, SettingsOK DEF HandleHttpRequest, IInv, TypeOK, Numbers
      <3>2. PICK r \in Numbers : r = asked + 1
        BY <3>1
      <3>3. ~mResponseSent[r]
        BY <3>2, SettingsOK DEF IInv, TypeOK, WrappersAsked
      <3>4. \/ holders' = [holders EXCEPT ![r] = {"queue"}]
            \/ \E c : strand' = Append(strand, c)
        BY <2>2, <3>2 DEF HandleHttpRequest
      <3>5. CASE holders' = [holders EXCEPT ![r] = {"queue"}]
        <4>1. holders'[r] # {} /\ ~mResponseSent'[r]
          BY <1>1, <3>3, <3>5 DEF IInv, TypeOK
        <4> QED
          BY <4>1 DEF InUse
      <3>6. CASE \E c : strand' = Append(strand, c)
        <4>1. strand' # <<>>
          BY <1>3, <3>6
        <4> QED
          BY <4>1 DEF InUse
      <3> QED
        BY <3>4, <3>5, <3>6
    <2> QED
      BY <2>1, <2>2
  <1> QED
    BY <1>1, <1>2, <1>4, <1>5, Asks

\* A reply that is written is the answer to the request that waits for one.
LEMMA WrittenAnswers ==
  ASSUME IInv, IInv', NEW k \in DOMAIN ops, OnWritten(k)
  PROVE  Exchange!Next
  <1>1. InUse
    BY OperationUses DEF IInv, OnWritten
  <1>2. PICK o \in Operations : ops = <<o>>
    BY TurnCases DEF IInv
  <1>3. k = 1 /\ ops # <<>> /\ ops[1].kind = "write"
    BY <1>2 DEF OnWritten
  <1>4. asked = Len(replies) + 1 /\ Len(replies) \in Nat
    BY <1>3, LenProperties DEF IInv, Balance, TypeOK
  <1>5. ops[1].reply \in Replies
    BY <1>2, <1>3 DEF Operations, Operation, Writing
  <1>6. asked' = asked /\ Len(replies') = Len(replies) + 1
    BY <1>3, <1>5, AppendProperties DEF OnWritten, IInv, TypeOK
  <1>7. InUse' \in BOOLEAN
    BY DEF InUse
  <1>8. Exchange!Answer
    BY <1>1, <1>4, <1>6, <1>7 DEF Exchange!Answer
  <1> QED
    BY <1>8 DEF Exchange!Next

\* Releasing a wrapper never makes a connection that is over usable again.
LEMMA ReleaseUses ==
  ASSUME IInv, NEW r \in Numbers, NEW holder \in {"callback", "app"}, Release(holder, r), InUse'
  PROVE  InUse
  <1>1. CASE Waiting(r)
    BY <1>1, WaitingUses
  <1>2. CASE ~Waiting(r)
    <2>1. mResponseSent[r]
      BY <1>2 DEF Release, Waiting
    <2>2. strand' = strand
      BY <2>1, ConcatEmptySeq DEF Release, Unhandled, IInv, TypeOK
    <2>3. \A n \in Numbers : holders'[n] # {} => holders[n] # {}
      BY DEF Release, IInv, TypeOK
    <2> QED
      BY <2>2, <2>3 DEF InUse, Release, stream
  <1> QED
    BY <1>1, <1>2

\* Neither does stopping the work queue.
LEMMA StopUses == ASSUME IInv, WorkQueueStop, InUse' PROVE InUse
  <1>1. CASE wq # <<>>
    <2>1. PICK r \in Numbers : holders[r] = {"queue"} /\ ~mResponseSent[r]
      BY <1>1, QueueHead DEF IInv
    <2> QED
      BY <2>1, WaitingUses DEF Waiting
  <1>2. CASE wq = <<>>
    <2> DEFINE refusals == [i \in 1 .. Len(wq) |-> Unhandled(wq[i])]
    <2>1. refusals = <<>> /\ Len(refusals) = 0
      BY <1>2
    <2>2. strand' = strand
      BY <2>1, FlattenNone, ConcatEmptySeq DEF WorkQueueStop, IInv, TypeOK
    <2>3. \A n \in Numbers : holders'[n] # {} => holders[n] # {}
      BY DEF WorkQueueStop
    <2> QED
      BY <2>2, <2>3 DEF InUse, WorkQueueStop, stream
  <1> QED
    BY <1>1, <1>2

\* Every step of the connection is a step of the exchange or none.
LEMMA StepExchange ==
  IInv /\ IInv' /\ [Next]_vars => [Exchange!Next]_(Exchange!vars)
  <1> SUFFICES ASSUME IInv, IInv', [Next]_vars
               PROVE  Exchange!Next \/ UNCHANGED Exchange!vars
    OBVIOUS
  <1> DEFINE Implemented == Exchange!Next \/ UNCHANGED Exchange!vars
  <1>1. ASSUME NEW k \in DOMAIN ops, OperationFails(k) \/ OnReadServerGone(k) \/ OnSslShutdown(k)
        PROVE  Implemented
    <2>1. Completes(k, <<>>) /\ UNCHANGED <<strand, wrappers, asked, replies>>
      BY <1>1 DEF OperationFails, OnReadServerGone, OnSslShutdown
    <2> QED
      BY <2>1, CompletionEnds, CountsKept
  <1>2. ASSUME NEW k \in DOMAIN ops, NEW isSsl \in BOOLEAN, Detected(k, isSsl) PROVE Implemented
    BY <1>2, OperationUses, CountsKept DEF Detected, IInv
  <1>3. ASSUME NEW k \in DOMAIN ops, OnSslHandshake(k) PROVE Implemented
    BY <1>3, OperationUses, CountsKept DEF OnSslHandshake, IInv
  <1>4. ASSUME NEW k \in DOMAIN ops, OnWritten(k) PROVE Implemented
    BY <1>4, WrittenAnswers
  <1>5. ASSUME NEW k \in DOMAIN ops, NEW q \in Requests, Upgrade(k, q) PROVE Implemented
    <2>1. /\ Completes(k, <<Operation("websocket")>>)
          /\ UNCHANGED <<strand, wrappers, asked, replies>>
      BY <1>5 DEF Upgrade
    <2> QED
      BY <2>1, CompletionEnds, CountsKept
  <1>6. ASSUME NEW k \in DOMAIN ops, NEW q \in Requests,
               RefuseUpgrade(k, q) \/ NoHandler(k, q) \/ HandleHttpRequest(k, q)
        PROVE  Implemented
    BY <1>6, ReadsAsk
  <1>7. CASE SendResponse
    BY <1>7, CountsKept DEF SendResponse, InUse
  <1>8. CASE RunHandler
    <2>1. PICK r \in Numbers : Waiting(r)
      BY <1>8, QueueHead DEF RunHandler, IInv, Waiting
    <2> QED
      BY <1>8, <2>1, WaitingUses, CountsKept DEF RunHandler
  <1>9. ASSUME NEW r \in Numbers, HandOver(r) PROVE Implemented
    <2>1. \A n \in Numbers : holders'[n] # {} => holders[n] # {}
      BY <1>9 DEF HandOver, IInv, TypeOK
    <2>2. InUse' => InUse
      BY <1>9, <2>1 DEF HandOver, InUse, stream
    <2> QED
      BY <1>9, <2>2, CountsKept DEF HandOver
  <1>10. ASSUME NEW r \in Numbers, NEW keep \in BOOLEAN, SetKeepAlive(r, keep) \/ Reply(r)
         PROVE  Implemented
    <2>1. Waiting(r)
      BY <1>10 DEF SetKeepAlive, Reply, FirstCall, Waiting
    <2> QED
      BY <1>10, <2>1, WaitingUses, CountsKept DEF SetKeepAlive, Reply
  <1>11. ASSUME NEW r \in Numbers, CallbackReturns(r) \/ AppReleases(r) PROVE Implemented
    <2>1. PICK holder \in {"callback", "app"} : Release(holder, r)
      BY <1>11 DEF CallbackReturns, AppReleases
    <2>2. UNCHANGED <<asked, replies>>
      BY <2>1 DEF Release
    <2> QED
      BY <2>1, <2>2, ReleaseUses, CountsKept
  <1>12. CASE WorkQueueStop
    BY <1>12, StopUses, CountsKept DEF WorkQueueStop
  <1>13. CASE (\E u \in Uris : AddUri(u) \/ RemoveUri(u)) \/ ServerDestroyed \/ UNCHANGED vars
    <2>1. UNCHANGED <<ops, strand, asked, holders, mResponseSent, replies>>
      BY <1>13 DEF AddUri, RemoveUri, ServerDestroyed, vars, stream, wrappers
    <2>2. InUse' => InUse
      BY <2>1 DEF InUse
    <2> QED
      BY <2>1, <2>2, CountsKept
  <1> QED
    BY <1>1, <1>2, <1>3, <1>4, <1>5, <1>6, <1>7, <1>8, <1>9, <1>10, <1>11, <1>12, <1>13 DEF Next

\* A client gets at most one answer per request, in order, before its next
\* request is read, and nothing after the last one.
THEOREM KeepsExchange == Spec => ImplementsExchange
  BY InitExchange, InvariantHolds, StepExchange, PTL DEF Spec, ImplementsExchange, Exchange!Spec
=============================================================================
