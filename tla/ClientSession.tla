--------------------------- MODULE ClientSession ---------------------------
(***************************************************************************)
(* CSession (src/src/CWebsocketClient.cpp): one connection attempt of the  *)
(* client and, when it succeeds, the websocket connection, on a strand of  *)
(* its own.  An action is a call from another thread, which only posts a   *)
(* handler to the strand, or one handler run to its end.                   *)
(*                                                                         *)
(* Of the resolver and of boost::beast the model keeps what the session    *)
(* relies on: each started operation completes once, with success or with  *)
(* an error; cancel() makes the pending operation fail unless it has       *)
(* already succeeded and only its handler has still to run; after an error *)
(* delivered by the stream every later completion is an error.             *)
(***************************************************************************)
EXTENDS Integers, Sequences, SequencesExt

CONSTANTS Payloads,    \* the payloads passed to Send, each once
          MaxReads,    \* bound: messages the server sends
          MaxCloses,   \* bound: calls of Close()
          ConnectCall, \* the handler AsyncConnect() dispatches
          CloseCall,   \* the handler Close() posts
          None         \* "no payload"

ASSUME BoundsOK == MaxReads \in Nat /\ MaxCloses \in Nat
ASSUME ValuesOK ==
  /\ None \notin Payloads /\ CloseCall \notin Payloads /\ ConnectCall \notin Payloads
  /\ CloseCall # ConnectCall

VARIABLES
  isSsl,              \* IS_SSL: the stream is TLS over TCP
  mOpen, mCloseRequested, mCloseSent, mWriteQueue,
  mOnConnectComplete, \* the completion handler is set
  strand,      \* handlers posted by AsyncConnect, Send (its payload) and Close
  connectCalled, sent, closeCalls,  \* calls made so far
  connectOp,   \* the connect stage in progress: "none", "resolve", "tcp", "ssl", "ws"
  aborted,     \* the stage in progress was cancelled
  readOp,      \* async_read: "none", "pending"
  writeOp,     \* the payload async_write is sending, or None
  closeOp,     \* async_close: "none", "pending", "done"
  stream,      \* the beast stream: "open", "failed"
  clientAlive, \* mEvents.lock() succeeds
  connects, failures, \* history: calls of the completion handler with true, with false
  accepted,    \* history: payloads pushed to mWriteQueue, in order
  wire,        \* history: payloads written to the server, in order
  reads,       \* history: number of messages delivered by async_read
  disconnects  \* history: number of OnSessionDisconnect calls

flags == <<mOpen, mCloseRequested, mCloseSent, mOnConnectComplete>>
callers == <<isSsl, connectCalled, sent, closeCalls, clientAlive>>
completions == <<connects, failures>>
connecting == <<connectOp, aborted, completions>>
transfer == <<mWriteQueue, writeOp, accepted, wire>>
vars == <<flags, callers, connecting, transfer, strand, readOp, closeOp, stream,
          reads, disconnects>>

Init ==
  /\ isSsl \in BOOLEAN
  /\ mOpen = FALSE /\ mCloseRequested = FALSE /\ mCloseSent = FALSE
  /\ mOnConnectComplete = FALSE
  /\ mWriteQueue = <<>> /\ strand = <<>>
  /\ connectCalled = FALSE /\ sent = {} /\ closeCalls = 0 /\ clientAlive = TRUE
  /\ connectOp = "none" /\ aborted = FALSE
  /\ readOp = "none" /\ writeOp = None /\ closeOp = "none" /\ stream = "open"
  /\ connects = 0 /\ failures = 0 /\ accepted = <<>> /\ wire = <<>>
  /\ reads = 0 /\ disconnects = 0

-----------------------------------------------------------------------------
(***************************************************************************)
(* Calls from other threads.  The client publishes the session before it   *)
(* calls AsyncConnect, so a Close() of another thread may come first; it   *)
(* calls Send only on a session it has seen open.                          *)
(***************************************************************************)
AsyncConnect ==
  /\ ~connectCalled /\ clientAlive
  /\ connectCalled' = TRUE
  /\ strand' = Append(strand, ConnectCall)
  /\ UNCHANGED <<flags, isSsl, sent, closeCalls, clientAlive, connecting, transfer,
                 readOp, closeOp, stream, reads, disconnects>>

\* The handler that Send(p) posts.  Fault: p was moved from before.
MovedFrom(p) == None
SendCall(p) == p

Send(p) ==
  /\ connects > 0 /\ clientAlive /\ p \notin sent
  /\ sent' = sent \cup {p}
  /\ strand' = Append(strand, SendCall(p))
  /\ UNCHANGED <<flags, isSsl, connectCalled, closeCalls, clientAlive, connecting,
                 transfer, readOp, closeOp, stream, reads, disconnects>>

Close ==
  /\ clientAlive /\ closeCalls < MaxCloses
  /\ closeCalls' = closeCalls + 1
  /\ strand' = Append(strand, CloseCall)
  /\ UNCHANGED <<flags, isSsl, connectCalled, sent, clientAlive, connecting, transfer,
                 readOp, closeOp, stream, reads, disconnects>>

\* The client is destroyed; the session lives on until its operations end.
ClientGone ==
  /\ connectCalled /\ clientAlive
  /\ clientAlive' = FALSE
  /\ UNCHANGED <<flags, isSsl, connectCalled, sent, closeCalls, connecting, transfer,
                 strand, readOp, closeOp, stream, reads, disconnects>>

-----------------------------------------------------------------------------
(***************************************************************************)
(* CompleteConnect, MaybeSendClose and HandleClosed, shared by handlers.   *)
(***************************************************************************)
CompleteConnect(success) ==
  /\ connects' = IF mOnConnectComplete /\ success THEN connects + 1 ELSE connects
  /\ failures' = IF mOnConnectComplete /\ ~success THEN failures + 1 ELSE failures
  /\ mOnConnectComplete' = FALSE

\* With mWriteQueue holding q, MaybeSendClose() has nothing to do.  Fault: the
\* queue is not tested.
CloseBlockedOnce(q) == mCloseSent
CloseBlocked(q) == mCloseSent \/ q # <<>>

MaybeSendClose(q) ==
  IF CloseBlocked(q)
  THEN UNCHANGED <<mCloseSent, closeOp>>
  ELSE mCloseSent' = TRUE /\ closeOp' = "pending"

\* Fault: mOpen is not tested, every failing operation reports the end.
AlwaysReports == TRUE
ReportsEnd == mOpen /\ clientAlive

\* HandleClosed(): the delivered error also fails the stream.
HandleClosed ==
  /\ stream' = "failed" /\ mWriteQueue' = <<>> /\ mOpen' = FALSE
  /\ disconnects' = IF ReportsEnd THEN disconnects + 1 ELSE disconnects
  /\ UNCHANGED <<mCloseRequested, mCloseSent, mOnConnectComplete, callers, connecting,
                 accepted, wire, strand, closeOp, reads>>

(***************************************************************************)
(* The handlers posted by AsyncConnect, Send and Close.                    *)
(***************************************************************************)
ConnectHandler ==
  /\ strand # <<>> /\ Head(strand) = ConnectCall
  /\ strand' = Tail(strand)
  /\ mOnConnectComplete' = TRUE
  /\ connectOp' = "resolve"
  /\ UNCHANGED <<mOpen, mCloseRequested, mCloseSent, callers, aborted, completions,
                 transfer, readOp, closeOp, stream, reads, disconnects>>

\* After the push, q is a queue nobody writes yet.  Fault: off by one.
StartsWriteLate(q) == Len(q) = 0
StartsWrite(q) == Len(q) = 1

SendHandler ==
  /\ strand # <<>> /\ Head(strand) \notin {ConnectCall, CloseCall}
  /\ strand' = Tail(strand)
  /\ \/ /\ ~mOpen \/ mCloseRequested
        /\ UNCHANGED transfer
     \/ /\ mOpen /\ ~mCloseRequested
        /\ mWriteQueue' = Append(mWriteQueue, Head(strand))
        /\ accepted' = Append(accepted, Head(strand))
        /\ writeOp' = IF StartsWrite(mWriteQueue') THEN Head(mWriteQueue') ELSE writeOp
        /\ UNCHANGED wire
  /\ UNCHANGED <<flags, callers, connecting, readOp, closeOp, stream, reads, disconnects>>

\* Not open: the resolver and the lowest layer are cancelled.  That aborts the
\* connect stage in progress, unless it has already succeeded.
CloseHandler ==
  /\ strand # <<>> /\ Head(strand) = CloseCall
  /\ strand' = Tail(strand)
  /\ mCloseRequested' = TRUE
  /\ \/ /\ ~mOpen
        /\ \/ connectOp # "none" /\ aborted' = TRUE
           \/ UNCHANGED aborted
        /\ UNCHANGED <<mCloseSent, closeOp>>
     \/ /\ mOpen
        /\ MaybeSendClose(mWriteQueue)
        /\ UNCHANGED aborted
  /\ UNCHANGED <<mOpen, mOnConnectComplete, callers, connectOp, completions, transfer,
                 readOp, stream, reads, disconnects>>

(***************************************************************************)
(* The connect stages.  No stage tests mCloseRequested: a Close() that     *)
(* falls between two stages is honoured by OnWebsocketHandshake.           *)
(***************************************************************************)
\* Fault: an error path returns without CompleteConnect.
StageFailsSilently(stage) ==
  /\ connectOp = stage /\ connectOp' = "none"
  /\ UNCHANGED <<flags, callers, aborted, completions, transfer, strand, readOp, closeOp,
                 stream, reads, disconnects>>

\* The stage ends with an error: timeout, cancellation, refusal or, after the
\* TCP connect of a TLS stream, a failure to set the SNI name.
StageFails(stage) ==
  /\ connectOp = stage /\ connectOp' = "none"
  /\ CompleteConnect(FALSE)
  /\ UNCHANGED <<mOpen, mCloseRequested, mCloseSent, callers, aborted, transfer, strand,
                 readOp, closeOp, stream, reads, disconnects>>

StageAdvances(stage, next) ==
  /\ connectOp = stage /\ ~aborted /\ connectOp' = next
  /\ UNCHANGED <<flags, callers, aborted, completions, transfer, strand, readOp, closeOp,
                 stream, reads, disconnects>>

OnResolve == StageFails("resolve") \/ StageAdvances("resolve", "tcp")

OnTcpConnect == StageFails("tcp") \/ StageAdvances("tcp", IF isSsl THEN "ssl" ELSE "ws")

OnSslHandshake == StageFails("ssl") \/ StageAdvances("ssl", "ws")

Opened ==
  /\ connectOp = "ws" /\ ~aborted /\ connectOp' = "none"
  /\ mOpen' = TRUE
  /\ CompleteConnect(TRUE)
  /\ IF mCloseRequested THEN MaybeSendClose(mWriteQueue) ELSE UNCHANGED <<mCloseSent, closeOp>>
  /\ readOp' = "pending"
  /\ UNCHANGED <<mCloseRequested, callers, aborted, transfer, strand, stream, reads,
                 disconnects>>

OnWebsocketHandshake == StageFails("ws") \/ Opened

(***************************************************************************)
(* Completions of async_read, async_write and async_close.  A read may     *)
(* fail at any time: peer close, end of file, reset, idle timeout.         *)
(***************************************************************************)
OnRead ==
  /\ readOp = "pending" /\ stream = "open" /\ reads < MaxReads
  /\ reads' = reads + 1
  /\ UNCHANGED <<flags, callers, connecting, transfer, strand, readOp, closeOp, stream,
                 disconnects>>

OnReadError ==
  /\ readOp = "pending" /\ readOp' = "none"
  /\ HandleClosed
  /\ UNCHANGED writeOp

\* Everything is written and a Close() waits for that.  Fault: it is forgotten.
NeverDrained(q) == FALSE
Drained(q) == q = <<>> /\ mCloseRequested

OnWrite ==
  /\ writeOp # None /\ stream = "open"
  /\ wire' = Append(wire, writeOp)
  /\ mWriteQueue' = Tail(mWriteQueue)
  /\ writeOp' = IF mWriteQueue' # <<>> THEN Head(mWriteQueue') ELSE None
  /\ IF Drained(mWriteQueue')
     THEN MaybeSendClose(mWriteQueue')
     ELSE UNCHANGED <<mCloseSent, closeOp>>
  /\ UNCHANGED <<mOpen, mCloseRequested, mOnConnectComplete, callers, connecting, accepted,
                 strand, readOp, stream, reads, disconnects>>

OnWriteError ==
  /\ writeOp # None /\ writeOp' = None
  /\ HandleClosed
  /\ UNCHANGED readOp

\* async_close ends, by the closing handshake or by its timeout; its handler
\* does nothing, and the stream delivers no data any more.
OnClose ==
  /\ closeOp = "pending" /\ closeOp' = "done"
  /\ stream' = "failed"
  /\ UNCHANGED <<flags, callers, connecting, transfer, strand, readOp, reads, disconnects>>

\* No operation is pending and nobody calls any more: the session is freed.
Released ==
  /\ connectCalled /\ connectOp = "none" /\ readOp = "none" /\ writeOp = None
  /\ closeOp # "pending" /\ strand = <<>>
  /\ UNCHANGED vars

Next ==
  \/ AsyncConnect \/ Close \/ ClientGone
  \/ \E p \in Payloads : Send(p)
  \/ ConnectHandler \/ SendHandler \/ CloseHandler
  \/ OnResolve \/ OnTcpConnect \/ OnSslHandshake \/ OnWebsocketHandshake
  \/ OnRead \/ OnReadError \/ OnWrite \/ OnWriteError \/ OnClose
  \/ Released

Spec == Init /\ [][Next]_vars

(***************************************************************************)
(* DoConnect calls AsyncConnect right after publishing the session. The    *)
(* pool's threads run the strand's handlers; the resolver returns, the     *)
(* connect stages and the closing handshake end by their (nonzero)         *)
(* handshake timeout, a read once the stream has failed or closed. A write *)
(* ends because the peer reads or falls silent: the idle timeout ends it,  *)
(* but only received data resets that timeout, so this is an assumption on *)
(* the peer (one that keeps sending and never reads stalls a write, and    *)
(* with it Close).                                                         *)
(***************************************************************************)
Fairness ==
  /\ WF_vars(AsyncConnect)
  /\ WF_vars(ConnectHandler \/ SendHandler \/ CloseHandler)
  /\ WF_vars(OnResolve \/ OnTcpConnect \/ OnSslHandshake \/ OnWebsocketHandshake)
  /\ WF_vars(OnWrite \/ OnWriteError)
  /\ WF_vars(OnClose)
  /\ WF_vars(stream = "failed" /\ OnReadError)

FairSpec == Spec /\ Fairness
-----------------------------------------------------------------------------
(***************************************************************************)
(* Properties.                                                             *)
(***************************************************************************)
\* The values of the session's fields and of the pending operations.
TypeOK ==
  /\ isSsl \in BOOLEAN /\ mOpen \in BOOLEAN /\ mCloseRequested \in BOOLEAN
  /\ mCloseSent \in BOOLEAN /\ mOnConnectComplete \in BOOLEAN
  /\ connectCalled \in BOOLEAN /\ clientAlive \in BOOLEAN /\ aborted \in BOOLEAN
  /\ mWriteQueue \in Seq(Payloads)
  /\ strand \in Seq(Payloads \cup {ConnectCall, CloseCall})
  /\ sent \subseteq Payloads
  /\ closeCalls \in Nat /\ reads \in Nat /\ disconnects \in Nat
  /\ connects \in Nat /\ failures \in Nat
  /\ connectOp \in {"none", "resolve", "tcp", "ssl", "ws"}
  /\ readOp \in {"none", "pending"}
  /\ writeOp \in Payloads \cup {None}
  /\ closeOp \in {"none", "pending", "done"}
  /\ stream \in {"open", "failed"}
  /\ accepted \in Seq(Payloads) /\ wire \in Seq(Payloads)

\* While the session is open, async_write is running exactly when the queue
\* is not empty and it sends the queue's head: no payload is stranded by the
\* "size() == 1" test of Send, and the buffer of the write in flight is owned
\* by the queue.
WriteMatchesQueue ==
  mOpen => writeOp = IF mWriteQueue = <<>> THEN None ELSE Head(mWriteQueue)

\* Beast allows one write-type operation at a time: async_close is never
\* started beside async_write, nor the other way round, although a Close()
\* that came during the connect starts it from OnWebsocketHandshake.
OneWriteOp == closeOp = "pending" => writeOp = None

\* The write loop of Send, OnWrite and MaybeSendClose is sound: both together.
WriteLoop == WriteMatchesQueue /\ OneWriteOp

Opening == connects + failures = 0

\* The end of the attempt as the client hears of it: the completion handler
\* called with false, or OnSessionDisconnect.
Contract == INSTANCE SessionContract WITH
  phase <- IF Opening THEN "opening" ELSE IF mOpen THEN "open" ELSE "over",
  closeSent <- mCloseSent,
  ends <- disconnects + failures

\* The session keeps the session contract: exactly one outcome of the connect,
\* payloads written in order and without repetition, the closing handshake only
\* after everything accepted was written, one report of the end and no message
\* outside the time between the two.
ImplementsContract == Contract!Spec

\* Every connect attempt has an outcome, whatever stage fails or is aborted.
ConnectSettles == connectCalled ~> ~Opening

\* Close() ends the session and the client hears of it, also when the call
\* comes before AsyncConnect, between two connect stages or beside a write.
CloseCompletes ==
  mCloseRequested ~> ~Opening /\ ~mOpen /\ (failures = 1 \/ disconnects = 1 \/ ~clientAlive)
=============================================================================
