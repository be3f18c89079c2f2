--------------------------- MODULE ServerSession ---------------------------
(***************************************************************************)
(* CWsSession (src/src/CWebsocketServer.cpp): one accepted websocket        *)
(* connection of the server, on its own strand.  Every action that is not  *)
(* a call from another thread is one handler run to its end on the strand: *)
(* a posted Send or Close, or the completion of an asynchronous operation. *)
(* A completion may come at any moment relative to the posted handlers.    *)
(*                                                                         *)
(* Of boost::beast::websocket::stream the model keeps what the session     *)
(* relies on: each started operation completes once, with success or with  *)
(* an error; after an error has been delivered by one operation (stream =  *)
(* "failed") every later completion is an error.                           *)
(***************************************************************************)
EXTENDS Integers, Sequences, SequencesExt

CONSTANTS Payloads,    \* the payloads passed to Send, each once
          MaxBacklog,  \* CServerSettings::maxSessionBacklog, 0 = unlimited
          MaxReads,    \* bound: messages the peer sends
          MaxCloses,   \* bound: calls of Close()
          CloseCall,   \* the handler Close() posts
          None         \* "no payload"

ASSUME BoundsOK == MaxBacklog \in Nat /\ MaxReads \in Nat /\ MaxCloses \in Nat
ASSUME ValuesOK == None \notin Payloads /\ CloseCall \notin Payloads

VARIABLES
  mOpen, mCloseRequested, mCloseSent, mDropLogged, mWriteQueue,
  registered,  \* mClientId # 0
  strand,      \* handlers posted by Send (its payload) and Close (CloseCall)
  sent,        \* payloads passed to Send so far
  closeCalls,  \* number of Close() calls so far
  acceptOp,    \* async_accept: "pending", "done"
  readOp,      \* async_read: "none", "pending"
  writeOp,     \* the payload async_write is sending, or None
  closeOp,     \* async_close: "none", "pending", "done"
  stream,      \* the beast stream: "open", "failed"
  serverAlive, \* mEvents.lock() succeeds
  accepted,    \* history: payloads pushed to mWriteQueue, in order
  wire,        \* history: payloads written to the peer, in order
  reads,       \* history: number of messages delivered by async_read
  closedEvents \* history: number of OnWsClosed calls

session == <<mOpen, mCloseRequested, mCloseSent, mDropLogged, mWriteQueue, registered>>
callers == <<sent, closeCalls, serverAlive>>
vars == <<session, strand, callers, acceptOp, readOp, writeOp, closeOp, stream,
          accepted, wire, reads, closedEvents>>

Init ==
  /\ mOpen = FALSE /\ mCloseRequested = FALSE
  /\ mCloseSent = FALSE /\ mDropLogged = FALSE
  /\ mWriteQueue = <<>>
  /\ registered = FALSE
  /\ strand = <<>>
  /\ sent = {}
  /\ closeCalls = 0
  /\ acceptOp = "pending"
  /\ readOp = "none" /\ writeOp = None /\ closeOp = "none"
  /\ stream = "open"
  /\ serverAlive = TRUE
  /\ accepted = <<>> /\ wire = <<>>
  /\ reads = 0 /\ closedEvents = 0

-----------------------------------------------------------------------------
(***************************************************************************)
(* Calls from other threads.  The server holds the session only once it is *)
(* registered; both calls only post a handler to the strand.               *)
(***************************************************************************)
\* The handler that Send(p) posts.  Fault: p was moved from before.
MovedFrom(p) == None
SendCall(p) == p

Send(p) ==
  /\ registered /\ serverAlive /\ p \notin sent
  /\ sent' = sent \cup {p}
  /\ strand' = Append(strand, SendCall(p))
  /\ UNCHANGED <<session, closeCalls, serverAlive, acceptOp, readOp, writeOp,
                 closeOp, stream, accepted, wire, reads, closedEvents>>

Close ==
  /\ registered /\ serverAlive /\ closeCalls < MaxCloses
  /\ closeCalls' = closeCalls + 1
  /\ strand' = Append(strand, CloseCall)
  /\ UNCHANGED <<session, sent, serverAlive, acceptOp, readOp, writeOp,
                 closeOp, stream, accepted, wire, reads, closedEvents>>

\* The server is destroyed: its Shutdown() called Close() on every session it
\* still held, and OnWsClosed had removed the others.
ServerGone ==
  /\ serverAlive
  /\ registered => closeCalls > 0 \/ closedEvents > 0
  /\ serverAlive' = FALSE
  /\ UNCHANGED <<session, strand, sent, closeCalls, acceptOp, readOp, writeOp,
                 closeOp, stream, accepted, wire, reads, closedEvents>>

-----------------------------------------------------------------------------
(***************************************************************************)
(* MaybeSendClose and HandleClosed, the steps handlers share.              *)
(***************************************************************************)
\* With mWriteQueue holding q, MaybeSendClose() has nothing to do.  Fault: the
\* queue is not tested.
CloseBlockedOnce(q) == mCloseSent
CloseBlocked(q) == mCloseSent \/ q # <<>>

MaybeSendClose(q) ==
  IF CloseBlocked(q)
  THEN UNCHANGED <<mCloseSent, closeOp>>
  ELSE mCloseSent' = TRUE /\ closeOp' = "pending"

\* HandleClosed(): the delivered error also fails the stream.
HandleClosed ==
  /\ stream' = "failed"
  /\ mWriteQueue' = <<>>
  /\ mOpen' = FALSE
  /\ closedEvents' = IF mOpen /\ serverAlive THEN closedEvents + 1 ELSE closedEvents
  /\ UNCHANGED <<mCloseRequested, mCloseSent, mDropLogged, registered, closeOp,
                 accepted, wire, reads>>

(***************************************************************************)
(* OnAccept: registration may be refused (id 0), and then the session is   *)
(* closed without ever reading.                                            *)
(***************************************************************************)
OnAccept ==
  /\ acceptOp = "pending"
  /\ acceptOp' = "done"
  /\ \/ /\ stream' \in {stream, "failed"} /\ (stream' = "failed" \/ ~serverAlive)
        /\ UNCHANGED <<mOpen, registered, mCloseRequested, mCloseSent, closeOp, readOp>>
     \/ /\ serverAlive
        /\ mOpen' = TRUE
        /\ registered' \in BOOLEAN
        /\ mCloseRequested' = (mCloseRequested \/ ~registered')
        /\ IF mCloseRequested' THEN MaybeSendClose(mWriteQueue)
                               ELSE UNCHANGED <<mCloseSent, closeOp>>
        /\ readOp' = IF registered' THEN "pending" ELSE readOp
        /\ UNCHANGED stream
  /\ UNCHANGED <<mDropLogged, mWriteQueue, strand, callers, writeOp, accepted,
                 wire, reads, closedEvents>>

(***************************************************************************)
(* The handlers posted by Send and Close.                                  *)
(***************************************************************************)
\* Fault: off by one.
BacklogExceeded == MaxBacklog > 0 /\ Len(mWriteQueue) > MaxBacklog

BacklogFull == MaxBacklog > 0 /\ Len(mWriteQueue) >= MaxBacklog

\* Fault: mCloseRequested is not tested.
RefusesIfClosed == ~mOpen
Refuses == ~mOpen \/ mCloseRequested

\* After the push, q is a queue nobody writes yet.  Fault: off by one.
StartsWriteLate(q) == Len(q) = 0
StartsWrite(q) == Len(q) = 1

SendHandler ==
  /\ strand # <<>> /\ Head(strand) # CloseCall
  /\ strand' = Tail(strand)
  /\ \/ /\ Refuses
        /\ UNCHANGED <<mDropLogged, mWriteQueue, accepted, writeOp>>
     \/ /\ ~Refuses /\ BacklogFull
        /\ mDropLogged' = TRUE
        /\ UNCHANGED <<mWriteQueue, accepted, writeOp>>
     \/ /\ ~Refuses /\ ~BacklogFull
        /\ mWriteQueue' = Append(mWriteQueue, Head(strand))
        /\ accepted' = Append(accepted, Head(strand))
        /\ writeOp' = IF StartsWrite(mWriteQueue') THEN Head(mWriteQueue') ELSE writeOp
        /\ UNCHANGED mDropLogged
  /\ UNCHANGED <<mOpen, mCloseRequested, mCloseSent, registered, callers, acceptOp,
                 readOp, closeOp, stream, wire, reads, closedEvents>>

\* When the session is not open the lowest layer is cancelled: what is still
\* pending on the stream ends with an error.
CloseHandler ==
  /\ strand # <<>> /\ Head(strand) = CloseCall
  /\ strand' = Tail(strand)
  /\ mCloseRequested' = TRUE
  /\ \/ /\ ~mOpen
        /\ stream' = "failed"
        /\ UNCHANGED <<mCloseSent, closeOp>>
     \/ /\ mOpen
        /\ MaybeSendClose(mWriteQueue)
        /\ UNCHANGED stream
  /\ UNCHANGED <<mOpen, mDropLogged, mWriteQueue, registered, callers, acceptOp,
                 readOp, writeOp, accepted, wire, reads, closedEvents>>

(***************************************************************************)
(* Completions of async_read, async_write and async_close.  A read may     *)
(* fail at any time: peer close, end of file, reset, idle timeout.         *)
(***************************************************************************)
OnRead ==
  /\ readOp = "pending" /\ stream = "open" /\ reads < MaxReads
  /\ reads' = reads + 1
  /\ UNCHANGED <<session, strand, callers, acceptOp, readOp, writeOp, closeOp,
                 stream, accepted, wire, closedEvents>>

OnReadError ==
  /\ readOp = "pending"
  /\ readOp' = "none"
  /\ HandleClosed
  /\ UNCHANGED <<strand, callers, acceptOp, writeOp>>

\* Everything is written and a Close() waits for that.  Fault: it is forgotten.
NeverDrained(q) == FALSE
Drained(q) == q = <<>> /\ mCloseRequested

OnWrite ==
  /\ writeOp # None /\ stream = "open"
  /\ wire' = Append(wire, writeOp)
  /\ mWriteQueue' = Tail(mWriteQueue)
  /\ writeOp' = IF mWriteQueue' # <<>> THEN Head(mWriteQueue') ELSE None
  /\ IF Drained(mWriteQueue')
     THEN MaybeSendClose(mWriteQueue')
     ELSE UNCHANGED <<mCloseSent, closeOp>>
  /\ UNCHANGED <<mOpen, mCloseRequested, mDropLogged, registered, strand, callers,
                 acceptOp, readOp, stream, accepted, reads, closedEvents>>

OnWriteError ==
  /\ writeOp # None
  /\ writeOp' = None
  /\ HandleClosed
  /\ UNCHANGED <<strand, callers, acceptOp, readOp>>

\* async_close ends, by the closing handshake or by its timeout; its handler
\* does nothing, and the stream delivers no data any more.
OnClose ==
  /\ closeOp = "pending"
  /\ closeOp' = "done"
  /\ stream' = "failed"
  /\ UNCHANGED <<session, strand, callers, acceptOp, readOp, writeOp, accepted,
                 wire, reads, closedEvents>>

\* No operation is pending and nobody calls any more: the session is freed.
Released ==
  /\ acceptOp = "done" /\ readOp = "none" /\ writeOp = None
  /\ closeOp # "pending" /\ strand = <<>>
  /\ UNCHANGED vars

Next ==
  \/ \E p \in Payloads : Send(p)
  \/ Close \/ ServerGone
  \/ OnAccept
  \/ SendHandler \/ CloseHandler
  \/ OnRead \/ OnReadError
  \/ OnWrite \/ OnWriteError
  \/ OnClose
  \/ Released

Spec == Init /\ [][Next]_vars

(***************************************************************************)
(* The pool's threads run the strand's handlers. The accept and the        *)
(* closing handshake end by the (nonzero) handshake timeout, a read once   *)
(* the stream has failed or closed. A write ends because the peer reads or *)
(* falls silent: the idle timeout ends it, but only received data resets   *)
(* that timeout, so this is an assumption on the peer (one that keeps      *)
(* sending and never reads stalls a write, and with it Close).             *)
(***************************************************************************)
Fairness ==
  /\ WF_vars(OnAccept)
  /\ WF_vars(SendHandler \/ CloseHandler)
  /\ WF_vars(OnWrite \/ OnWriteError)
  /\ WF_vars(OnClose)
  /\ WF_vars(stream = "failed" /\ OnReadError)

FairSpec == Spec /\ Fairness
-----------------------------------------------------------------------------
(***************************************************************************)
(* Properties.                                                             *)
(***************************************************************************)
\* The values of the session's fields and of the stream's operations.
TypeOK ==
  /\ mOpen \in BOOLEAN /\ mCloseRequested \in BOOLEAN
  /\ mCloseSent \in BOOLEAN /\ mDropLogged \in BOOLEAN
  /\ registered \in BOOLEAN /\ serverAlive \in BOOLEAN
  /\ mWriteQueue \in Seq(Payloads)
  /\ strand \in Seq(Payloads \cup {CloseCall})
  /\ sent \subseteq Payloads
  /\ closeCalls \in Nat /\ reads \in Nat /\ closedEvents \in Nat
  /\ acceptOp \in {"pending", "done"}
  /\ readOp \in {"none", "pending"}
  /\ writeOp \in Payloads \cup {None}
  /\ closeOp \in {"none", "pending", "done"}
  /\ stream \in {"open", "failed"}
  /\ accepted \in Seq(Payloads) /\ wire \in Seq(Payloads)

\* While the session is open, async_write is running exactly when the queue
\* is not empty and it sends the queue's head: no payload is stranded by the
\* "size() == 1" test of Send, none is written twice, and the buffer of the
\* write in flight is owned by the queue.
WriteMatchesQueue ==
  mOpen => writeOp = IF mWriteQueue = <<>> THEN None ELSE Head(mWriteQueue)

\* Beast allows one write-type operation at a time: async_close is never
\* started beside async_write, nor the other way round.
OneWriteOp == closeOp = "pending" => writeOp = None

\* mWriteQueue, the payload in flight included, never exceeds the backlog.
BacklogBound == MaxBacklog > 0 => Len(mWriteQueue) <= MaxBacklog

\* The write loop of Send, OnWrite and MaybeSendClose is sound: the three facts
\* above together.
WriteLoop == WriteMatchesQueue /\ OneWriteOp /\ BacklogBound

Contract == INSTANCE SessionContract WITH
  phase <- IF acceptOp = "pending" THEN "opening" ELSE IF mOpen THEN "open" ELSE "over",
  closeSent <- mCloseSent,
  ends <- closedEvents

\* The session keeps the session contract: payloads are written in the order
\* they were accepted and without repetition, the closing handshake starts only
\* after everything accepted was written, OnWsClosed is called at most once,
\* and no message is delivered before the accept or after the end.
ImplementsContract == Contract!Spec

\* Close() on a registered session ends it, with data queued or not, and
\* whether or not the peer answers.
CloseCompletes == (registered /\ mCloseRequested) ~> ~mOpen

\* Every accepted payload is written unless the connection ends first.
SendSettles ==
  \A p \in Payloads : Contains(accepted, p) ~> (Contains(wire, p) \/ ~mOpen)
=============================================================================
