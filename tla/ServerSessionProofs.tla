------------------------ MODULE ServerSessionProofs ------------------------
(***************************************************************************)
(* TLAPS proofs about ServerSession, for any set of payloads, any backlog  *)
(* limit and any number of reads and Close() calls.                        *)
(***************************************************************************)
EXTENDS ServerSession, SequenceLemmas

(***************************************************************************)
(* The strengthening: what the handlers rely on without testing it.        *)
(***************************************************************************)
\* Before OnAccept the session is blank, and nobody else can reach it.
BlankBeforeAccept ==
  /\ acceptOp = "pending" => ~mOpen /\ ~registered /\ accepted = <<>> /\ wire = <<>>
  /\ ~registered => /\ strand = <<>> /\ readOp = "none" /\ writeOp = None
                    /\ mWriteQueue = <<>> /\ closedEvents = 0
                    /\ accepted = <<>> /\ wire = <<>>

\* The closing handshake is started once, for a requested close, with
\* nothing queued and no write in flight.
CloseSentLast ==
  /\ closeOp # "none" => mCloseSent
  /\ mCloseSent => mCloseRequested /\ mWriteQueue = <<>> /\ writeOp = None

\* An operation that can still succeed belongs to an open session, and a session
\* that has reported its end is not open.
OpenWhileWriting ==
  /\ writeOp # None /\ stream = "open" => mOpen
  /\ readOp = "pending" /\ stream = "open" => mOpen
  /\ ~mOpen => mWriteQueue = <<>>
  /\ mOpen \/ stream = "open" => closedEvents = 0

\* What has been written followed by what is queued is what was accepted, in
\* order, for as long as the session is open.
SendsInOrder == mOpen => wire \o mWriteQueue = accepted

\* The closing handshake starts only after every accepted payload has been
\* written, and nothing is accepted after it.
FlushBeforeClose == mCloseSent => wire = accepted

\* The server hears of the end of a session at most once, only of a session
\* it registered, and never while the session is still open.
ClosedOnce ==
  /\ closedEvents <= 1
  /\ closedEvents > 0 => registered /\ ~mOpen

IInv ==
  /\ TypeOK
  /\ BlankBeforeAccept
  /\ CloseSentLast
  /\ OpenWhileWriting
  /\ WriteMatchesQueue
  /\ OneWriteOp
  /\ SendsInOrder
  /\ FlushBeforeClose
  /\ BacklogBound
  /\ ClosedOnce

-----------------------------------------------------------------------------

\* Every handler keeps the session's fields in their types.
LEMMA TypeStep == IInv /\ [Next]_vars => TypeOK'
  <1> SUFFICES ASSUME IInv, [Next]_vars PROVE TypeOK'
    OBVIOUS
  <1> USE DEF IInv, TypeOK
  <1>1. ASSUME NEW p \in Payloads, Send(p) PROVE TypeOK'
    BY <1>1 DEF Send, SendCall, vars, session, callers
  <1>2. CASE Close
    BY <1>2 DEF Close, vars, session, callers
  <1>3. CASE ServerGone
    BY <1>3 DEF ServerGone, vars, session, callers
  <1>4. CASE OnAccept
    BY <1>4 DEF OnAccept, MaybeSendClose, CloseBlocked, vars, session, callers
  <1>5. CASE SendHandler
    <2>1. /\ Head(strand) \in Payloads
          /\ strand' \in Seq(Payloads \cup {CloseCall})
      <3>1. strand # <<>> /\ Head(strand) # CloseCall /\ strand' = Tail(strand)
        BY <1>5 DEF SendHandler, StartsWrite, Refuses
      <3> QED
        BY <3>1, HeadTailProperties
    <2>2. mDropLogged' \in BOOLEAN
      BY <1>5, Zenon DEF SendHandler, StartsWrite, Refuses
    <2>3. UNCHANGED <<mOpen, mCloseRequested, mCloseSent, registered, callers, acceptOp,
                      readOp, closeOp, stream, wire, reads, closedEvents>>
      BY <1>5, Zenon DEF SendHandler, StartsWrite, Refuses
    <2>4. /\ mWriteQueue' \in Seq(Payloads)
          /\ accepted' \in Seq(Payloads)
          /\ writeOp' \in Payloads \cup {None}
      <3>1. CASE UNCHANGED <<mWriteQueue, accepted, writeOp>>
        BY <3>1
      <3>2. CASE /\ mWriteQueue' = Append(mWriteQueue, Head(strand))
                 /\ accepted' = Append(accepted, Head(strand))
                 /\ writeOp' = IF Len(mWriteQueue') = 1 THEN Head(mWriteQueue') ELSE writeOp
        BY <2>1, <3>2
      <3> QED
        BY <1>5, <3>1, <3>2, Zenon DEF SendHandler, StartsWrite, Refuses
    <2> QED
      BY <2>1, <2>2, <2>3, <2>4 DEF callers
  <1>6. CASE CloseHandler
    <2>1. strand' \in Seq(Payloads \cup {CloseCall})
      BY <1>6, HeadTailProperties DEF CloseHandler
    <2>2. mCloseRequested' \in BOOLEAN /\ mCloseSent' \in BOOLEAN
      BY <1>6, Zenon DEF CloseHandler, MaybeSendClose, CloseBlocked
    <2>3. /\ closeOp' \in {"none", "pending", "done"}
          /\ stream' \in {"open", "failed"}
      BY <1>6 DEF CloseHandler, MaybeSendClose, CloseBlocked
    <2>4. UNCHANGED <<mOpen, mDropLogged, mWriteQueue, registered, callers, acceptOp,
                      readOp, writeOp, accepted, wire, reads, closedEvents>>
      BY <1>6, Zenon DEF CloseHandler
    <2> QED
      BY <2>1, <2>2, <2>3, <2>4 DEF callers
  <1>7. CASE OnRead
    BY <1>7 DEF OnRead, vars, session, callers
  <1>8. CASE OnReadError
    <2>1. mOpen' \in BOOLEAN
      BY <1>8, Zenon DEF OnReadError, HandleClosed
    <2>2. closedEvents' \in Nat
      BY <1>8 DEF OnReadError, HandleClosed
    <2>3. mWriteQueue' \in Seq(Payloads)
      BY <1>8, EmptySeq DEF OnReadError, HandleClosed
    <2>4. stream' = "failed" /\ readOp' = "none" /\ writeOp' = writeOp
      BY <1>8 DEF OnReadError, HandleClosed
    <2>5. UNCHANGED <<mCloseRequested, mCloseSent, mDropLogged, registered, strand, callers,
                      acceptOp, closeOp, accepted, wire, reads>>
      BY <1>8, Zenon DEF OnReadError, HandleClosed
    <2> QED
      BY <2>1, <2>2, <2>3, <2>4, <2>5 DEF callers
  <1>9. CASE OnWrite
    <2>1. mWriteQueue # <<>> /\ writeOp = Head(mWriteQueue)
      BY <1>9 DEF OnWrite, Drained, WriteMatchesQueue, OpenWhileWriting
    <2>2. /\ mWriteQueue' \in Seq(Payloads)
          /\ wire' \in Seq(Payloads)
          /\ writeOp' \in Payloads \cup {None}
      BY <1>9, <2>1, MoveHead DEF OnWrite, Drained
    <2>3. mCloseSent' \in BOOLEAN
      BY <1>9, Zenon DEF OnWrite, Drained, MaybeSendClose, CloseBlocked
    <2>4. closeOp' \in {"none", "pending", "done"}
      BY <1>9 DEF OnWrite, Drained, MaybeSendClose, CloseBlocked
    <2>5. UNCHANGED <<mOpen, mCloseRequested, mDropLogged, registered, strand, callers,
                      acceptOp, readOp, stream, accepted, reads, closedEvents>>
      BY <1>9, Zenon DEF OnWrite, Drained
    <2> QED
      BY <2>2, <2>3, <2>4, <2>5 DEF callers
  <1>10. CASE OnWriteError
    <2>1. mOpen' \in BOOLEAN
      BY <1>10, Zenon DEF OnWriteError, HandleClosed
    <2>2. closedEvents' \in Nat
      BY <1>10 DEF OnWriteError, HandleClosed
    <2>3. mWriteQueue' \in Seq(Payloads)
      BY <1>10, EmptySeq DEF OnWriteError, HandleClosed
    <2>4. stream' = "failed" /\ writeOp' = None /\ readOp' = readOp
      BY <1>10 DEF OnWriteError, HandleClosed
    <2>5. UNCHANGED <<mCloseRequested, mCloseSent, mDropLogged, registered, strand, callers,
                      acceptOp, closeOp, accepted, wire, reads>>
      BY <1>10, Zenon DEF OnWriteError, HandleClosed
    <2> QED
      BY <2>1, <2>2, <2>3, <2>4, <2>5 DEF callers
  <1>11. CASE OnClose
    BY <1>11 DEF OnClose, vars, session, callers
  <1>12. CASE Released
    BY <1>12 DEF Released, vars, session, callers
  <1>13. CASE UNCHANGED vars
    BY <1>13 DEF vars, session, callers
  <1> QED
    BY <1>1, <1>2, <1>3, <1>4, <1>5, <1>6, <1>7, <1>8, <1>9, <1>10, <1>11, <1>12, <1>13 DEF Next

\* Only OnAccept ends the blank state, by registering the session.
LEMMA BlankStep == IInv /\ [Next]_vars => BlankBeforeAccept'
  <1> SUFFICES ASSUME IInv, [Next]_vars PROVE BlankBeforeAccept'
    OBVIOUS
  <1> USE DEF IInv, TypeOK, BlankBeforeAccept
  <1>1. ASSUME NEW p \in Payloads, Send(p) PROVE BlankBeforeAccept'
    BY <1>1 DEF Send, SendCall, vars, session, callers
  <1>2. CASE Close
    BY <1>2 DEF Close, vars, session, callers
  <1>3. CASE ServerGone
    BY <1>3 DEF ServerGone, vars, session, callers
  <1>4. CASE OnAccept
    BY <1>4 DEF OnAccept, MaybeSendClose, CloseBlocked, vars, session, callers
  <1>5. CASE SendHandler
    BY <1>5 DEF SendHandler, StartsWrite, Refuses, BacklogFull, vars, session, callers
  <1>6. CASE CloseHandler
    BY <1>6 DEF CloseHandler, MaybeSendClose, CloseBlocked, vars, session, callers
  <1>7. CASE OnRead
    BY <1>7 DEF OnRead, vars, session, callers
  <1>8. CASE OnReadError
    BY <1>8 DEF OnReadError, HandleClosed, vars, session, callers
  <1>9. CASE OnWrite
    BY <1>9 DEF OnWrite, Drained, MaybeSendClose, CloseBlocked, vars, session, callers
  <1>10. CASE OnWriteError
    BY <1>10 DEF OnWriteError, HandleClosed, vars, session, callers
  <1>11. CASE OnClose
    BY <1>11 DEF OnClose, vars, session, callers
  <1>12. CASE Released
    BY <1>12 DEF Released, vars, session, callers
  <1>13. CASE UNCHANGED vars
    BY <1>13 DEF vars, session, callers
  <1> QED
    BY <1>1, <1>2, <1>3, <1>4, <1>5, <1>6, <1>7, <1>8, <1>9, <1>10, <1>11, <1>12, <1>13 DEF Next

\* mCloseRequested keeps the queue empty after MaybeSendClose.
LEMMA CloseSentStep == IInv /\ [Next]_vars => (CloseSentLast /\ OneWriteOp)'
  <1> SUFFICES ASSUME IInv, [Next]_vars PROVE (CloseSentLast /\ OneWriteOp)'
    OBVIOUS
  <1> USE DEF IInv, TypeOK, BlankBeforeAccept, CloseSentLast, OneWriteOp, WriteMatchesQueue, OpenWhileWriting
  <1>1. ASSUME NEW p \in Payloads, Send(p) PROVE (CloseSentLast /\ OneWriteOp)'
    BY <1>1 DEF Send, SendCall, vars, session, callers
  <1>2. CASE Close
    BY <1>2 DEF Close, vars, session, callers
  <1>3. CASE ServerGone
    BY <1>3 DEF ServerGone, vars, session, callers
  <1>4. CASE OnAccept
    BY <1>4 DEF OnAccept, MaybeSendClose, CloseBlocked, vars, session, callers
  <1>5. CASE SendHandler
    BY <1>5 DEF SendHandler, StartsWrite, Refuses, BacklogFull, vars, session, callers
  <1>6. CASE CloseHandler
    BY <1>6 DEF CloseHandler, MaybeSendClose, CloseBlocked, vars, session, callers
  <1>7. CASE OnRead
    BY <1>7 DEF OnRead, vars, session, callers
  <1>8. CASE OnReadError
    BY <1>8 DEF OnReadError, HandleClosed, vars, session, callers
  <1>9. CASE OnWrite
    BY <1>9 DEF OnWrite, Drained, MaybeSendClose, CloseBlocked, vars, session, callers
  <1>10. CASE OnWriteError
    BY <1>10 DEF OnWriteError, HandleClosed, vars, session, callers
  <1>11. CASE OnClose
    BY <1>11 DEF OnClose, vars, session, callers
  <1>12. CASE Released
    BY <1>12 DEF Released, vars, session, callers
  <1>13. CASE UNCHANGED vars
    BY <1>13 DEF vars, session, callers
  <1> QED
    BY <1>1, <1>2, <1>3, <1>4, <1>5, <1>6, <1>7, <1>8, <1>9, <1>10, <1>11, <1>12, <1>13 DEF Next

\* HandleClosed fails the stream, clears the queue and clears mOpen together.
LEMMA OpenStep == IInv /\ [Next]_vars => (OpenWhileWriting /\ ClosedOnce)'
  <1> SUFFICES ASSUME IInv, [Next]_vars PROVE (OpenWhileWriting /\ ClosedOnce)'
    OBVIOUS
  <1> USE DEF IInv, TypeOK, BlankBeforeAccept, OpenWhileWriting, ClosedOnce, CloseSentLast
  <1>1. ASSUME NEW p \in Payloads, Send(p) PROVE (OpenWhileWriting /\ ClosedOnce)'
    BY <1>1 DEF Send, SendCall, vars, session, callers
  <1>2. CASE Close
    BY <1>2 DEF Close, vars, session, callers
  <1>3. CASE ServerGone
    BY <1>3 DEF ServerGone, vars, session, callers
  <1>4. CASE OnAccept
    BY <1>4 DEF OnAccept, MaybeSendClose, CloseBlocked, vars, session, callers
  <1>5. CASE SendHandler
    BY <1>5 DEF SendHandler, StartsWrite, Refuses, BacklogFull, vars, session, callers
  <1>6. CASE CloseHandler
    BY <1>6 DEF CloseHandler, MaybeSendClose, CloseBlocked, vars, session, callers
  <1>7. CASE OnRead
    BY <1>7 DEF OnRead, vars, session, callers
  <1>8. CASE OnReadError
    BY <1>8 DEF OnReadError, HandleClosed, vars, session, callers
  <1>9. CASE OnWrite
    BY <1>9 DEF OnWrite, Drained, MaybeSendClose, CloseBlocked, vars, session, callers
  <1>10. CASE OnWriteError
    BY <1>10 DEF OnWriteError, HandleClosed, vars, session, callers
  <1>11. CASE OnClose
    BY <1>11 DEF OnClose, vars, session, callers
  <1>12. CASE Released
    BY <1>12 DEF Released, vars, session, callers
  <1>13. CASE UNCHANGED vars
    BY <1>13 DEF vars, session, callers
  <1> QED
    BY <1>1, <1>2, <1>3, <1>4, <1>5, <1>6, <1>7, <1>8, <1>9, <1>10, <1>11, <1>12, <1>13 DEF Next

\* Send starts a write exactly on an empty queue, OnWrite exactly on a rest.
LEMMA WriteStep == IInv /\ [Next]_vars => WriteMatchesQueue'
  <1> SUFFICES ASSUME IInv, [Next]_vars PROVE WriteMatchesQueue'
    OBVIOUS
  <1> USE DEF IInv, TypeOK, BlankBeforeAccept, OpenWhileWriting, WriteMatchesQueue
  <1>1. ASSUME NEW p \in Payloads, Send(p) PROVE WriteMatchesQueue'
    BY <1>1 DEF Send, SendCall, vars, session, callers
  <1>2. CASE Close
    BY <1>2 DEF Close, vars, session, callers
  <1>3. CASE ServerGone
    BY <1>3 DEF ServerGone, vars, session, callers
  <1>4. CASE OnAccept
    BY <1>4 DEF OnAccept, MaybeSendClose, CloseBlocked, vars, session, callers
  <1>5. CASE SendHandler
    <2>1. Head(strand) \in Payloads
      <3>1. strand # <<>> /\ Head(strand) # CloseCall
        BY <1>5 DEF SendHandler, StartsWrite, Refuses
      <3> QED
        BY <3>1, HeadTailProperties
    <2>2. CASE UNCHANGED <<mWriteQueue, accepted, writeOp>>
      BY <1>5, <2>2 DEF SendHandler, StartsWrite, Refuses
    <2>3. CASE /\ mOpen
               /\ mWriteQueue' = Append(mWriteQueue, Head(strand))
               /\ accepted' = Append(accepted, Head(strand))
               /\ writeOp' = IF Len(mWriteQueue') = 1 THEN Head(mWriteQueue') ELSE writeOp
      <3>1. writeOp = IF mWriteQueue = <<>> THEN None ELSE Head(mWriteQueue)
        BY <2>3
      <3>2. CASE mWriteQueue = <<>>
        BY <2>1, <2>3, <3>2
      <3>3. CASE mWriteQueue # <<>>
        <4>1. Len(mWriteQueue') # 1 /\ mWriteQueue' # <<>>
          BY <2>1, <2>3, <3>3, AppendProperties, EmptySeq
        <4>2. Head(mWriteQueue') = Head(mWriteQueue)
          BY <2>1, <2>3, <3>3, HeadTailAppend
        <4> QED
          BY <2>3, <3>1, <3>3, <4>1, <4>2
      <3> QED
        BY <3>2, <3>3
    <2> QED
      BY <1>5, <2>2, <2>3, Zenon DEF SendHandler, StartsWrite, Refuses
  <1>6. CASE CloseHandler
    BY <1>6 DEF CloseHandler, MaybeSendClose, CloseBlocked, vars, session, callers
  <1>7. CASE OnRead
    BY <1>7 DEF OnRead, vars, session, callers
  <1>8. CASE OnReadError
    BY <1>8 DEF OnReadError, HandleClosed, vars, session, callers
  <1>9. CASE OnWrite
    BY <1>9 DEF OnWrite, Drained, MaybeSendClose, CloseBlocked, vars, session, callers
  <1>10. CASE OnWriteError
    BY <1>10 DEF OnWriteError, HandleClosed, vars, session, callers
  <1>11. CASE OnClose
    BY <1>11 DEF OnClose, vars, session, callers
  <1>12. CASE Released
    BY <1>12 DEF Released, vars, session, callers
  <1>13. CASE UNCHANGED vars
    BY <1>13 DEF vars, session, callers
  <1> QED
    BY <1>1, <1>2, <1>3, <1>4, <1>5, <1>6, <1>7, <1>8, <1>9, <1>10, <1>11, <1>12, <1>13 DEF Next

\* Send tests the backlog before the push; everything else shortens the queue.
LEMMA BacklogStep == IInv /\ [Next]_vars => BacklogBound'
  <1> SUFFICES ASSUME IInv, [Next]_vars PROVE BacklogBound'
    OBVIOUS
  <1> USE DEF IInv, TypeOK, BacklogBound, WriteMatchesQueue, OpenWhileWriting
  <1>1. ASSUME NEW p \in Payloads, Send(p) PROVE BacklogBound'
    BY <1>1, BoundsOK DEF Send, SendCall, vars, session, callers
  <1>2. CASE Close
    BY <1>2, BoundsOK DEF Close, vars, session, callers
  <1>3. CASE ServerGone
    BY <1>3, BoundsOK DEF ServerGone, vars, session, callers
  <1>4. CASE OnAccept
    BY <1>4, BoundsOK DEF OnAccept, MaybeSendClose, CloseBlocked, vars, session, callers
  <1>5. CASE SendHandler
    BY <1>5, BoundsOK DEF SendHandler, StartsWrite, Refuses, BacklogFull, vars, session, callers
  <1>6. CASE CloseHandler
    BY <1>6, BoundsOK DEF CloseHandler, MaybeSendClose, CloseBlocked, vars, session, callers
  <1>7. CASE OnRead
    BY <1>7, BoundsOK DEF OnRead, vars, session, callers
  <1>8. CASE OnReadError
    BY <1>8, BoundsOK DEF OnReadError, HandleClosed, vars, session, callers
  <1>9. CASE OnWrite
    BY <1>9, BoundsOK DEF OnWrite, Drained, MaybeSendClose, CloseBlocked, vars, session, callers
  <1>10. CASE OnWriteError
    BY <1>10, BoundsOK DEF OnWriteError, HandleClosed, vars, session, callers
  <1>11. CASE OnClose
    BY <1>11, BoundsOK DEF OnClose, vars, session, callers
  <1>12. CASE Released
    BY <1>12, BoundsOK DEF Released, vars, session, callers
  <1>13. CASE UNCHANGED vars
    BY <1>13, BoundsOK DEF vars, session, callers
  <1> QED
    BY <1>1, <1>2, <1>3, <1>4, <1>5, <1>6, <1>7, <1>8, <1>9, <1>10, <1>11, <1>12, <1>13 DEF Next

\* OnWrite pops the payload that was written: it only moves across.
LEMMA OnWriteMoves ==
  ASSUME IInv, OnWrite
  PROVE  /\ Append(wire, Head(mWriteQueue)) \in Seq(Payloads)
         /\ Append(wire, Head(mWriteQueue)) \o Tail(mWriteQueue) = accepted
  <1>1. mOpen /\ mWriteQueue # <<>>
    BY DEF IInv, OnWrite, Drained, OpenWhileWriting, WriteMatchesQueue
  <1>2. wire \in Seq(Payloads) /\ mWriteQueue \in Seq(Payloads) /\ wire \o mWriteQueue = accepted
    BY <1>1 DEF IInv, TypeOK, SendsInOrder
  <1> QED
    BY <1>1, <1>2, MoveHead

\* Send appends to both sides, OnWrite moves the head across.
LEMMA OrderStep == IInv /\ [Next]_vars => SendsInOrder'
  <1> SUFFICES ASSUME IInv, [Next]_vars PROVE SendsInOrder'
    OBVIOUS
  <1> USE DEF IInv, TypeOK, BlankBeforeAccept, OpenWhileWriting, WriteMatchesQueue, SendsInOrder
  <1>1. ASSUME NEW p \in Payloads, Send(p) PROVE SendsInOrder'
    BY <1>1 DEF Send, SendCall, vars, session, callers
  <1>2. CASE Close
    BY <1>2 DEF Close, vars, session, callers
  <1>3. CASE ServerGone
    BY <1>3 DEF ServerGone, vars, session, callers
  <1>4. CASE OnAccept
    BY <1>4 DEF OnAccept, MaybeSendClose, CloseBlocked, vars, session, callers
  <1>5. CASE SendHandler
    <2>1. Head(strand) \in Payloads
      <3>1. strand # <<>> /\ Head(strand) # CloseCall
        BY <1>5 DEF SendHandler, StartsWrite, Refuses
      <3> QED
        BY <3>1, HeadTailProperties
    <2>2. CASE UNCHANGED <<mWriteQueue, accepted, writeOp>>
      BY <1>5, <2>2 DEF SendHandler, StartsWrite, Refuses
    <2>3. CASE /\ mOpen
               /\ mWriteQueue' = Append(mWriteQueue, Head(strand))
               /\ accepted' = Append(accepted, Head(strand))
               /\ writeOp' = IF Len(mWriteQueue') = 1 THEN Head(mWriteQueue') ELSE writeOp
      <3>1. wire \o mWriteQueue = accepted /\ wire' = wire
        BY <1>5, <2>3 DEF SendHandler, StartsWrite, Refuses
      <3>2. wire \o Append(mWriteQueue, Head(strand)) = Append(wire \o mWriteQueue, Head(strand))
        BY <2>1, AppendConcat
      <3> QED
        BY <2>3, <3>1, <3>2
    <2> QED
      BY <1>5, <2>2, <2>3, Zenon DEF SendHandler, StartsWrite, Refuses
  <1>6. CASE CloseHandler
    BY <1>6 DEF CloseHandler, MaybeSendClose, CloseBlocked, vars, session, callers
  <1>7. CASE OnRead
    BY <1>7 DEF OnRead, vars, session, callers
  <1>8. CASE OnReadError
    BY <1>8 DEF OnReadError, HandleClosed, vars, session, callers
  <1>9. CASE OnWrite
    <2>1. mOpen /\ mWriteQueue # <<>> /\ writeOp = Head(mWriteQueue)
      BY <1>9 DEF OnWrite, Drained
    <2>2. Append(wire, Head(mWriteQueue)) \o Tail(mWriteQueue) = accepted
      BY <1>9, OnWriteMoves
    <2> QED
      BY <1>9, <2>1, <2>2 DEF OnWrite, Drained
  <1>10. CASE OnWriteError
    BY <1>10 DEF OnWriteError, HandleClosed, vars, session, callers
  <1>11. CASE OnClose
    BY <1>11 DEF OnClose, vars, session, callers
  <1>12. CASE Released
    BY <1>12 DEF Released, vars, session, callers
  <1>13. CASE UNCHANGED vars
    BY <1>13 DEF vars, session, callers
  <1> QED
    BY <1>1, <1>2, <1>3, <1>4, <1>5, <1>6, <1>7, <1>8, <1>9, <1>10, <1>11, <1>12, <1>13 DEF Next

\* MaybeSendClose finds the queue empty, and nothing is written afterwards.
LEMMA FlushStep == IInv /\ [Next]_vars => FlushBeforeClose'
  <1> SUFFICES ASSUME IInv, [Next]_vars PROVE FlushBeforeClose'
    OBVIOUS
  <1> USE DEF IInv, TypeOK, BlankBeforeAccept, CloseSentLast, OpenWhileWriting, WriteMatchesQueue, SendsInOrder, FlushBeforeClose
  <1>1. ASSUME NEW p \in Payloads, Send(p) PROVE FlushBeforeClose'
    BY <1>1 DEF Send, SendCall, vars, session, callers
  <1>2. CASE Close
    BY <1>2 DEF Close, vars, session, callers
  <1>3. CASE ServerGone
    BY <1>3 DEF ServerGone, vars, session, callers
  <1>4. CASE OnAccept
    BY <1>4 DEF OnAccept, MaybeSendClose, CloseBlocked, vars, session, callers
  <1>5. CASE SendHandler
    BY <1>5 DEF SendHandler, StartsWrite, Refuses, BacklogFull, vars, session, callers
  <1>6. CASE CloseHandler
    <2>1. wire' = wire /\ accepted' = accepted
      BY <1>6 DEF CloseHandler
    <2>2. CASE mCloseSent
      BY <2>1, <2>2
    <2>3. CASE ~mCloseSent /\ mCloseSent'
      <3>1. mOpen /\ mWriteQueue = <<>>
        BY <1>6, <2>3, Zenon DEF CloseHandler, MaybeSendClose, CloseBlocked
      <3> QED
        BY <2>1, <3>1, ConcatEmptySeq
    <2> QED
      BY <2>2, <2>3
  <1>7. CASE OnRead
    BY <1>7 DEF OnRead, vars, session, callers
  <1>8. CASE OnReadError
    BY <1>8 DEF OnReadError, HandleClosed, vars, session, callers
  <1>9. CASE OnWrite
    <2>1. mOpen /\ mWriteQueue # <<>> /\ writeOp = Head(mWriteQueue)
      BY <1>9 DEF OnWrite, Drained
    <2>2. Append(wire, Head(mWriteQueue)) \o Tail(mWriteQueue) = accepted
      BY <1>9, OnWriteMoves
    <2>3. /\ wire' = Append(wire, Head(mWriteQueue)) /\ mWriteQueue' = Tail(mWriteQueue)
          /\ accepted' = accepted /\ ~mCloseSent
      BY <1>9, <2>1 DEF OnWrite, Drained
    <2>4. wire' \o mWriteQueue' = accepted' /\ wire' \in Seq(Payloads)
      BY <1>9, <2>2, <2>3, OnWriteMoves
    <2>5. CASE mWriteQueue' = <<>>
      BY <2>4, <2>5, ConcatEmptySeq
    <2>6. CASE mWriteQueue' # <<>>
      BY <1>9, <2>3, <2>6 DEF OnWrite, Drained, MaybeSendClose, CloseBlocked
    <2> QED
      BY <2>5, <2>6
  <1>10. CASE OnWriteError
    BY <1>10 DEF OnWriteError, HandleClosed, vars, session, callers
  <1>11. CASE OnClose
    BY <1>11 DEF OnClose, vars, session, callers
  <1>12. CASE Released
    BY <1>12 DEF Released, vars, session, callers
  <1>13. CASE UNCHANGED vars
    BY <1>13 DEF vars, session, callers
  <1> QED
    BY <1>1, <1>2, <1>3, <1>4, <1>5, <1>6, <1>7, <1>8, <1>9, <1>10, <1>11, <1>12, <1>13 DEF Next

-----------------------------------------------------------------------------
\* A session starts blank, with its accept pending.
LEMMA InitIInv == Init => IInv
  <1> SUFFICES ASSUME Init PROVE IInv
    OBVIOUS
  <1> USE DEF Init
  <1>1. TypeOK
    <2>1. /\ mOpen \in BOOLEAN /\ mCloseRequested \in BOOLEAN /\ mCloseSent \in BOOLEAN
          /\ mDropLogged \in BOOLEAN /\ registered \in BOOLEAN /\ serverAlive \in BOOLEAN
      BY Zenon
    <2> QED
      BY <2>1, EmptySeq DEF TypeOK
  <1>2. BlankBeforeAccept /\ CloseSentLast /\ OpenWhileWriting
    BY DEF BlankBeforeAccept, CloseSentLast, OpenWhileWriting
  <1>3. WriteMatchesQueue /\ OneWriteOp /\ SendsInOrder /\ FlushBeforeClose /\ ClosedOnce
    BY DEF WriteMatchesQueue, OneWriteOp, SendsInOrder, FlushBeforeClose, ClosedOnce
  <1>4. BacklogBound
    BY BoundsOK DEF BacklogBound
  <1> QED
    BY <1>1, <1>2, <1>3, <1>4 DEF IInv

\* Every handler preserves the inductive invariant.
LEMMA StepIInv == IInv /\ [Next]_vars => IInv'
  BY TypeStep, BlankStep, CloseSentStep, OpenStep, WriteStep, BacklogStep, OrderStep,
     FlushStep DEF IInv

\* The inductive invariant holds in every reachable state.
LEMMA InvariantHolds == Spec => []IInv
  BY InitIInv, StepIInv, PTL DEF Spec

\* The fields of CWsSession and its pending operations always have their types.
THEOREM TypeCorrect == Spec => []TypeOK
  <1>1. IInv => TypeOK
    BY DEF IInv
  <1> QED
    BY <1>1, InvariantHolds, PTL

\* async_write runs exactly while the queue of an open session holds something
\* and sends its head, it never runs beside async_close, and the queue keeps
\* within the backlog.
THEOREM WriteLoopCorrect == Spec => []WriteLoop
  <1>1. IInv => WriteLoop
    BY DEF IInv, WriteLoop
  <1> QED
    BY <1>1, InvariantHolds, PTL

\* Payloads are written in the order Send accepted them, without loss while the
\* session is open, for any number of payloads.
THEOREM Ordered == Spec => []SendsInOrder
  <1>1. IInv => SendsInOrder
    BY DEF IInv
  <1> QED
    BY <1>1, InvariantHolds, PTL

\* The closing handshake follows the last accepted payload.
THEOREM CloseFlushes == Spec => []FlushBeforeClose
  <1>1. IInv => FlushBeforeClose
    BY DEF IInv
  <1> QED
    BY <1>1, InvariantHolds, PTL

\* mWriteQueue never grows past maxSessionBacklog, whatever its value.
THEOREM BacklogRespected == Spec => []BacklogBound
  <1>1. IInv => BacklogBound
    BY DEF IInv
  <1> QED
    BY <1>1, InvariantHolds, PTL

\* OnWsClosed is called at most once per session, never while it is open.
THEOREM EndReportedOnce == Spec => []ClosedOnce
  <1>1. IInv => ClosedOnce
    BY DEF IInv
  <1> QED
    BY <1>1, InvariantHolds, PTL

-----------------------------------------------------------------------------
\* The initial state of a session is an initial state of the contract.
LEMMA InitContract == Init => Contract!Init
  BY DEF Init, Contract!Init

\* OnWrite delivers the next accepted payload, and closes only behind the last.
LEMMA OnWriteDelivers ==
  ASSUME IInv, IInv', OnWrite
  PROVE  Contract!Deliver
  <1>1. mOpen /\ mWriteQueue # <<>> /\ writeOp = Head(mWriteQueue) /\ acceptOp # "pending"
    BY DEF IInv, TypeOK, OnWrite, Drained, OpenWhileWriting, WriteMatchesQueue, BlankBeforeAccept
  <1>2. Len(wire) < Len(accepted) /\ accepted[Len(wire) + 1] = writeOp
    <2>1. /\ wire \in Seq(Payloads) /\ mWriteQueue \in Seq(Payloads)
          /\ wire \o mWriteQueue = accepted
      BY <1>1 DEF IInv, TypeOK, SendsInOrder
    <2> QED
      BY <1>1, <2>1, NextOfConcat
  <1>3. wire' = Append(wire, accepted[Len(wire) + 1])
    BY <1>2 DEF OnWrite, Drained
  <1>4. mCloseSent' \in BOOLEAN /\ (mCloseSent' => wire' = accepted')
    BY DEF IInv, TypeOK, FlushBeforeClose
  <1>5. mCloseSent => mCloseSent'
    BY Zenon DEF OnWrite, Drained, MaybeSendClose, CloseBlocked
  <1>6. UNCHANGED <<mOpen, acceptOp, accepted, reads, closedEvents>>
    BY Zenon DEF OnWrite, Drained
  <1> QED
    BY <1>1, <1>2, <1>3, <1>4, <1>5, <1>6 DEF Contract!Deliver, Contract!MayClose

\* HandleClosed ends an open session and is silent otherwise.
LEMMA HandleClosedEnds ==
  ASSUME IInv, HandleClosed, acceptOp' = acceptOp
  PROVE  Contract!End \/ UNCHANGED Contract!vars
  <1>1. mOpen \in BOOLEAN /\ (mOpen => acceptOp # "pending")
    BY DEF IInv, TypeOK, BlankBeforeAccept
  <1>2. UNCHANGED <<accepted, wire, mCloseSent, reads>> /\ ~mOpen'
    BY Zenon DEF HandleClosed
  <1>3. closedEvents' \in {closedEvents, closedEvents + 1} /\ (~mOpen => closedEvents' = closedEvents)
    BY DEF HandleClosed
  <1>4. CASE mOpen
    BY <1>1, <1>2, <1>3, <1>4 DEF Contract!End
  <1>5. CASE ~mOpen
    BY <1>1, <1>2, <1>3, <1>5 DEF Contract!vars
  <1> QED
    BY <1>1, <1>4, <1>5

\* Every handler is a step of the contract or leaves its state alone.
LEMMA StepContract == IInv /\ IInv' /\ [Next]_vars => [Contract!Next]_Contract!vars
  <1> SUFFICES ASSUME IInv, IInv', [Next]_vars
               PROVE  Contract!Next \/ UNCHANGED Contract!vars
    OBVIOUS
  <1>0. /\ mOpen \in BOOLEAN /\ mOpen' \in BOOLEAN /\ mCloseSent' \in BOOLEAN
        /\ mOpen => acceptOp # "pending"
        /\ mCloseSent' => wire' = accepted'
    BY DEF IInv, TypeOK, BlankBeforeAccept, FlushBeforeClose
  <1>1. ASSUME NEW p \in Payloads, Send(p) PROVE UNCHANGED Contract!vars
    BY <1>1 DEF Send, SendCall, Contract!vars, session
  <1>2. CASE Close
    BY <1>2 DEF Close, Contract!vars, session
  <1>3. CASE ServerGone
    BY <1>3 DEF ServerGone, Contract!vars, session
  <1>4. CASE OnAccept
    <2>1. /\ acceptOp = "pending" /\ acceptOp' = "done"
          /\ UNCHANGED <<accepted, wire, reads, closedEvents>>
      BY <1>4, Zenon DEF OnAccept
    <2>2. CASE UNCHANGED <<mOpen, mCloseSent>>
      BY <1>0, <2>1, <2>2 DEF Contract!Next, Contract!End
    <2>3. CASE mOpen' = TRUE /\ (mCloseSent => mCloseSent')
      BY <1>0, <2>1, <2>3 DEF Contract!Next, Contract!Open, Contract!MayClose
    <2> QED
      BY <1>4, <2>2, <2>3, Zenon DEF OnAccept, MaybeSendClose, CloseBlocked
  <1>5. CASE SendHandler
    <2>1. UNCHANGED <<mOpen, mCloseSent, acceptOp, wire, reads, closedEvents>>
      BY <1>5, Zenon DEF SendHandler, StartsWrite, Refuses
    <2>2. CASE accepted' = accepted
      BY <2>1, <2>2 DEF Contract!vars
    <2>3. CASE /\ mOpen /\ ~mCloseRequested
               /\ accepted' = Append(accepted, Head(strand))
      <3>1. Head(strand) \in Payloads
        <4>1. strand # <<>> /\ Head(strand) # CloseCall
          BY <1>5 DEF SendHandler, StartsWrite, Refuses
        <4> QED
          BY <4>1, HeadTailProperties DEF IInv, TypeOK
      <3>2. ~mCloseSent
        BY <2>3 DEF IInv, CloseSentLast
      <3> QED
        BY <1>0, <2>1, <2>3, <3>1, <3>2 DEF Contract!Next, Contract!Accept
    <2> QED
      BY <1>5, <2>2, <2>3, Zenon DEF SendHandler, StartsWrite, Refuses
  <1>6. CASE CloseHandler
    <2>1. UNCHANGED <<mOpen, acceptOp, accepted, wire, reads, closedEvents>>
      BY <1>6, Zenon DEF CloseHandler
    <2>2. CASE mCloseSent' = mCloseSent
      BY <2>1, <2>2 DEF Contract!vars
    <2>3. CASE mOpen /\ (mCloseSent => mCloseSent')
      BY <1>0, <2>1, <2>3 DEF Contract!Next, Contract!SendClose, Contract!MayClose
    <2> QED
      BY <1>6, <2>2, <2>3, Zenon DEF CloseHandler, MaybeSendClose, CloseBlocked
  <1>7. CASE OnRead
    <2>1. mOpen /\ reads' = reads + 1 /\ UNCHANGED <<mOpen, mCloseSent>>
      BY <1>7, Zenon DEF OnRead, session, IInv, OpenWhileWriting
    <2>2. UNCHANGED <<acceptOp, accepted, wire, closedEvents>>
      BY <1>7, Zenon DEF OnRead
    <2> QED
      BY <1>0, <2>1, <2>2 DEF Contract!Next, Contract!Receive
  <1>8. CASE OnReadError
    BY <1>8, HandleClosedEnds DEF OnReadError, Contract!Next
  <1>9. CASE OnWrite
    BY <1>9, OnWriteDelivers DEF Contract!Next
  <1>10. CASE OnWriteError
    BY <1>10, HandleClosedEnds DEF OnWriteError, Contract!Next
  <1>11. CASE OnClose
    BY <1>11 DEF OnClose, Contract!vars, session
  <1>12. CASE Released
    BY <1>12 DEF Released, Contract!vars, vars, session
  <1>13. CASE UNCHANGED vars
    BY <1>13 DEF Contract!vars, vars, session
  <1> QED
    BY <1>1, <1>2, <1>3, <1>4, <1>5, <1>6, <1>7, <1>8, <1>9, <1>10, <1>11, <1>12, <1>13 DEF Next

\* CWsSession keeps the session contract, for any payloads and any backlog.
THEOREM KeepsContract == Spec => ImplementsContract
  BY InitContract, InvariantHolds, StepContract, PTL DEF Spec, ImplementsContract, Contract!Spec
=============================================================================
