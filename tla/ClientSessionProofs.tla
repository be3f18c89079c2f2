------------------------ MODULE ClientSessionProofs ------------------------
(***************************************************************************)
(* TLAPS proofs about ClientSession, for any set of payloads and any number *)
(* of reads and Close() calls, plain or TLS.                               *)
(***************************************************************************)
EXTENDS ClientSession, SequenceLemmas

(***************************************************************************)
(* The strengthening: what the handlers rely on without testing it.        *)
(***************************************************************************)
NoConnectCall(q) == \A i \in 1 .. Len(q) : q[i] # ConnectCall

\* The connect runs once: its handler is posted at most once, the stages run
\* only before the outcome, and with the completion handler set.
ConnectOnce ==
  /\ \A i, j \in 1 .. Len(strand) : strand[i] = ConnectCall /\ strand[j] = ConnectCall => i = j
  /\ ~NoConnectCall(strand) => connectCalled /\ Opening /\ connectOp = "none"
  /\ ~connectCalled => Opening /\ connectOp = "none"
  /\ connectOp # "none" => connectCalled /\ Opening /\ mOnConnectComplete

\* Before the outcome nothing has been opened, accepted or written.
BlankWhileOpening ==
  Opening => /\ ~mOpen /\ ~mCloseSent
             /\ accepted = <<>> /\ wire = <<>> /\ mWriteQueue = <<>>
             /\ readOp = "none" /\ writeOp = None

\* The closing handshake is started once, for a requested close, with nothing
\* queued and no write in flight.
CloseSentLast ==
  /\ closeOp # "none" => mCloseSent
  /\ mCloseSent => mCloseRequested /\ mWriteQueue = <<>> /\ writeOp = None

\* An operation that can still succeed belongs to an open session.
OpenWhileBusy ==
  /\ writeOp # None /\ stream = "open" => mOpen
  /\ readOp = "pending" /\ stream = "open" => mOpen
  /\ ~mOpen => mWriteQueue = <<>>

\* What has been written followed by what is queued is what was accepted, in
\* order, for as long as the session is open.
SendsInOrder == mOpen => wire \o mWriteQueue = accepted

\* The closing handshake starts only after every accepted payload has been
\* written, and nothing is accepted after it.
FlushBeforeClose == mCloseSent => wire = accepted

IInv ==
  /\ TypeOK
  /\ ConnectOnce
  /\ BlankWhileOpening
  /\ CloseSentLast
  /\ OpenWhileBusy
  /\ WriteMatchesQueue
  /\ OneWriteOp
  /\ SendsInOrder
  /\ FlushBeforeClose

-----------------------------------------------------------------------------
(***************************************************************************)
(* The steps, sorted by what they can disturb: calls, the posted connect   *)
(* handler and a stage that succeeds leave the connection alone.           *)
(***************************************************************************)
Quiet ==
  UNCHANGED <<mOpen, mCloseRequested, mCloseSent, mWriteQueue, writeOp, accepted, wire,
              readOp, closeOp, stream, reads, connects, failures, disconnects>>

Stages == {"resolve", "tcp", "ssl", "ws"}

\* Every step is quiet or one of the handlers that touch the connection.
LEMMA StepCases ==
  ASSUME [Next]_vars
  PROVE  \/ Quiet
         \/ SendHandler \/ CloseHandler
         \/ (\E stage \in Stages : StageFails(stage)) \/ Opened
         \/ OnRead \/ OnReadError \/ OnWrite \/ OnWriteError \/ OnClose
  <1> USE DEF Quiet, flags, connecting, completions, transfer
  <1>1. CASE AsyncConnect
    BY <1>1, Zenon DEF AsyncConnect
  <1>2. CASE Close
    BY <1>2, Zenon DEF Close
  <1>3. CASE ClientGone
    BY <1>3, Zenon DEF ClientGone
  <1>4. ASSUME NEW p \in Payloads, Send(p) PROVE Quiet
    BY <1>4, Zenon DEF Send, SendCall
  <1>5. CASE ConnectHandler
    BY <1>5, Zenon DEF ConnectHandler
  <1>6. ASSUME NEW stage, NEW next, StageAdvances(stage, next) PROVE Quiet
    BY <1>6, Zenon DEF StageAdvances
  <1>7. CASE Released
    BY <1>7, Zenon DEF Released, vars
  <1>8. CASE UNCHANGED vars
    BY <1>8, Zenon DEF vars
  <1>9. CASE OnResolve \/ OnTcpConnect \/ OnSslHandshake \/ OnWebsocketHandshake
    BY <1>9, <1>6 DEF OnResolve, OnTcpConnect, OnSslHandshake, OnWebsocketHandshake, Stages
  <1> QED
    BY <1>1, <1>2, <1>3, <1>4, <1>5, <1>7, <1>8, <1>9 DEF Next

\* Every step keeps the session's fields in their types.
LEMMA TypeStep == IInv /\ [Next]_vars => TypeOK'
  <1> SUFFICES ASSUME IInv, [Next]_vars PROVE TypeOK'
    OBVIOUS
  <1> USE DEF IInv, TypeOK
  <1>1. CASE AsyncConnect
    <2>1. connectCalled' \in BOOLEAN
      BY <1>1, Zenon DEF AsyncConnect
    <2>2. strand' \in Seq(Payloads \cup {ConnectCall, CloseCall})
      BY <1>1 DEF AsyncConnect
    <2> QED
      BY <1>1, <2>1, <2>2 DEF AsyncConnect, flags, connecting, completions, transfer, callers
  <1>2. CASE Close
    BY <1>2 DEF Close, flags, connecting, completions, transfer, callers
  <1>3. CASE ClientGone
    <2>1. clientAlive' \in BOOLEAN
      BY <1>3, Zenon DEF ClientGone
    <2> QED
      BY <1>3, <2>1 DEF ClientGone, flags, connecting, completions, transfer, callers
  <1>4. ASSUME NEW p \in Payloads, Send(p) PROVE TypeOK'
    BY <1>4 DEF Send, SendCall, flags, connecting, completions, transfer, callers
  <1>5. CASE ConnectHandler
    <2>1. mOnConnectComplete' \in BOOLEAN
      BY <1>5, Zenon DEF ConnectHandler
    <2>2. strand' \in Seq(Payloads \cup {ConnectCall, CloseCall})
      BY <1>5, HeadTailProperties DEF ConnectHandler
    <2> QED
      BY <1>5, <2>1, <2>2 DEF ConnectHandler, flags, connecting, completions, transfer, callers
  <1>6. CASE SendHandler
    <2>1. /\ Head(strand) \in Payloads
          /\ strand' \in Seq(Payloads \cup {ConnectCall, CloseCall})
      <3>1. /\ strand # <<>> /\ Head(strand) \notin {ConnectCall, CloseCall}
            /\ strand' = Tail(strand)
        BY <1>6 DEF SendHandler, StartsWrite
      <3> QED
        BY <3>1, HeadTailProperties
    <2>2. /\ mWriteQueue' \in Seq(Payloads) /\ accepted' \in Seq(Payloads)
          /\ writeOp' \in Payloads \cup {None} /\ wire' \in Seq(Payloads)
      <3>1. CASE UNCHANGED transfer
        BY <3>1 DEF transfer
      <3>2. CASE /\ mWriteQueue' = Append(mWriteQueue, Head(strand))
                 /\ accepted' = Append(accepted, Head(strand))
                 /\ writeOp' = IF Len(mWriteQueue') = 1 THEN Head(mWriteQueue') ELSE writeOp
                 /\ UNCHANGED wire
        BY <2>1, <3>2
      <3> QED
        BY <1>6, <3>1, <3>2, Zenon DEF SendHandler, StartsWrite
    <2>3. UNCHANGED <<flags, callers, connecting, readOp, closeOp, stream, reads, disconnects>>
      BY <1>6, Zenon DEF SendHandler, StartsWrite
    <2> QED
      BY <2>1, <2>2, <2>3 DEF flags, connecting, completions, transfer, callers
  <1>7. CASE CloseHandler
    <2>1. strand' \in Seq(Payloads \cup {ConnectCall, CloseCall})
      BY <1>7, HeadTailProperties DEF CloseHandler
    <2>2. mCloseRequested' \in BOOLEAN /\ mCloseSent' \in BOOLEAN /\ aborted' \in BOOLEAN
      BY <1>7, Zenon DEF CloseHandler, MaybeSendClose, CloseBlocked
    <2>3. closeOp' \in {"none", "pending", "done"}
      BY <1>7 DEF CloseHandler, MaybeSendClose, CloseBlocked
    <2>4. UNCHANGED <<mOpen, mOnConnectComplete, callers, connectOp, completions, transfer,
                      readOp, stream, reads, disconnects>>
      BY <1>7, Zenon DEF CloseHandler
    <2> QED
      BY <2>1, <2>2, <2>3, <2>4 DEF flags, connecting, completions, transfer, callers
  <1>8. ASSUME NEW stage, StageFails(stage) PROVE TypeOK'
    <2>1. mOnConnectComplete' \in BOOLEAN
      BY <1>8, Zenon DEF StageFails, CompleteConnect
    <2>2. connects' \in Nat /\ failures' \in Nat /\ connectOp' = "none"
      BY <1>8 DEF StageFails, CompleteConnect
    <2>3. UNCHANGED <<mOpen, mCloseRequested, mCloseSent, callers, aborted, transfer, strand,
                      readOp, closeOp, stream, reads, disconnects>>
      BY <1>8, Zenon DEF StageFails
    <2> QED
      BY <2>1, <2>2, <2>3 DEF flags, connecting, completions, transfer, callers
  <1>9. ASSUME NEW stage, NEW next \in Stages, StageAdvances(stage, next) PROVE TypeOK'
    BY <1>9 DEF StageAdvances, Stages, flags, connecting, completions, transfer, callers
  <1>10. CASE Opened
    <2>1. mOpen' \in BOOLEAN /\ mOnConnectComplete' \in BOOLEAN /\ mCloseSent' \in BOOLEAN
      BY <1>10, Zenon DEF Opened, CompleteConnect, MaybeSendClose, CloseBlocked
    <2>2. /\ connects' \in Nat /\ failures' \in Nat /\ connectOp' = "none"
          /\ readOp' = "pending" /\ closeOp' \in {"none", "pending", "done"}
      BY <1>10 DEF Opened, CompleteConnect, MaybeSendClose, CloseBlocked
    <2>3. UNCHANGED <<mCloseRequested, callers, aborted, transfer, strand, stream, reads,
                      disconnects>>
      BY <1>10, Zenon DEF Opened
    <2> QED
      BY <2>1, <2>2, <2>3 DEF flags, connecting, completions, transfer, callers
  <1>11. CASE OnRead
    BY <1>11 DEF OnRead, flags, connecting, completions, transfer, callers
  <1>12. CASE OnReadError \/ OnWriteError
    <2>1. mOpen' \in BOOLEAN
      BY <1>12, Zenon DEF OnReadError, OnWriteError, HandleClosed, ReportsEnd
    <2>2. disconnects' \in Nat /\ stream' = "failed"
      BY <1>12 DEF OnReadError, OnWriteError, HandleClosed, ReportsEnd
    <2>3. mWriteQueue' \in Seq(Payloads)
      BY <1>12, EmptySeq DEF OnReadError, OnWriteError, HandleClosed, ReportsEnd
    <2>4. readOp' \in {"none", "pending"} /\ writeOp' \in Payloads \cup {None}
      BY <1>12 DEF OnReadError, OnWriteError
    <2>5. UNCHANGED <<mCloseRequested, mCloseSent, mOnConnectComplete, callers, connecting,
                      accepted, wire, strand, closeOp, reads>>
      BY <1>12, Zenon DEF OnReadError, OnWriteError, HandleClosed, ReportsEnd
    <2> QED
      BY <2>1, <2>2, <2>3, <2>4, <2>5 DEF flags, connecting, completions, transfer, callers
  <1>13. CASE OnWrite
    <2>1. mWriteQueue # <<>> /\ writeOp = Head(mWriteQueue)
      BY <1>13 DEF OnWrite, Drained, WriteMatchesQueue, OpenWhileBusy
    <2>2. /\ mWriteQueue' \in Seq(Payloads) /\ wire' \in Seq(Payloads)
          /\ writeOp' \in Payloads \cup {None}
      BY <1>13, <2>1, MoveHead DEF OnWrite, Drained
    <2>3. mCloseSent' \in BOOLEAN
      BY <1>13, Zenon DEF OnWrite, Drained, MaybeSendClose, CloseBlocked
    <2>4. closeOp' \in {"none", "pending", "done"}
      BY <1>13 DEF OnWrite, Drained, MaybeSendClose, CloseBlocked
    <2>5. UNCHANGED <<mOpen, mCloseRequested, mOnConnectComplete, callers, connecting, accepted,
                      strand, readOp, stream, reads, disconnects>>
      BY <1>13, Zenon DEF OnWrite, Drained
    <2> QED
      BY <2>2, <2>3, <2>4, <2>5 DEF flags, connecting, completions, transfer, callers
  <1>14. CASE OnClose
    BY <1>14 DEF OnClose, flags, connecting, completions, transfer, callers
  <1>15. CASE Released \/ UNCHANGED vars
    BY <1>15 DEF Released, vars, flags, connecting, completions, transfer, callers
  <1>16. CASE OnResolve \/ OnTcpConnect \/ OnSslHandshake \/ OnWebsocketHandshake
    BY <1>8, <1>9, <1>10, <1>16
       DEF OnResolve, OnTcpConnect, OnSslHandshake, OnWebsocketHandshake, Stages
  <1> QED
    BY <1>1, <1>2, <1>3, <1>4, <1>5, <1>6, <1>7, <1>11, <1>12, <1>13, <1>14, <1>15, <1>16 DEF Next

\* AsyncConnect posts the one connect handler, and it starts the stages.
LEMMA ConnectStep == IInv /\ [Next]_vars => ConnectOnce'
  <1> SUFFICES ASSUME IInv, [Next]_vars PROVE ConnectOnce'
    OBVIOUS
  <1> USE DEF IInv, TypeOK, ConnectOnce, NoConnectCall, Opening
  <1>1. CASE AsyncConnect
    BY <1>1, ValuesOK DEF AsyncConnect, flags, connecting, completions, transfer, callers
  <1>2. CASE Close
    BY <1>2, ValuesOK DEF Close, flags, connecting, completions, transfer, callers
  <1>3. CASE ClientGone
    BY <1>3 DEF ClientGone, flags, connecting, completions, transfer, callers
  <1>4. ASSUME NEW p \in Payloads, Send(p) PROVE ConnectOnce'
    BY <1>4, ValuesOK DEF Send, SendCall, flags, connecting, completions, transfer, callers
  <1>5. CASE ConnectHandler
    BY <1>5 DEF ConnectHandler, flags, connecting, completions, transfer, callers
  <1>6. CASE SendHandler
    BY <1>6 DEF SendHandler, StartsWrite, flags, connecting, completions, transfer, callers
  <1>7. CASE CloseHandler
    BY <1>7 DEF CloseHandler, flags, connecting, completions, transfer, callers
  <1>8. ASSUME NEW stage \in Stages, StageFails(stage) PROVE ConnectOnce'
    BY <1>8 DEF StageFails, Stages, flags, connecting, completions, transfer, callers
  <1>9. ASSUME NEW stage \in Stages, NEW next, StageAdvances(stage, next) PROVE ConnectOnce'
    BY <1>9 DEF StageAdvances, Stages, flags, connecting, completions, transfer, callers
  <1>10. CASE Opened
    BY <1>10 DEF Opened, flags, connecting, completions, transfer, callers
  <1>11. CASE OnRead
    BY <1>11 DEF OnRead, flags, connecting, completions, transfer, callers
  <1>12. CASE OnReadError \/ OnWriteError
    BY <1>12 DEF OnReadError, OnWriteError, HandleClosed, ReportsEnd, flags, connecting, completions, transfer, callers
  <1>13. CASE OnWrite
    BY <1>13 DEF OnWrite, Drained, flags, connecting, completions, transfer, callers
  <1>14. CASE OnClose
    BY <1>14 DEF OnClose, flags, connecting, completions, transfer, callers
  <1>15. CASE Released \/ UNCHANGED vars
    BY <1>15 DEF Released, vars, flags, connecting, completions, transfer, callers
  <1>16. CASE OnResolve \/ OnTcpConnect \/ OnSslHandshake \/ OnWebsocketHandshake
    BY <1>8, <1>9, <1>10, <1>16
       DEF OnResolve, OnTcpConnect, OnSslHandshake, OnWebsocketHandshake, Stages
  <1> QED
    BY <1>1, <1>2, <1>3, <1>4, <1>5, <1>6, <1>7, <1>11, <1>12, <1>13, <1>14, <1>15, <1>16 DEF Next

\* Only a connect outcome ends the blank state.
LEMMA BlankStep == IInv /\ [Next]_vars => BlankWhileOpening'
  <1> SUFFICES ASSUME IInv, [Next]_vars PROVE BlankWhileOpening'
    OBVIOUS
  <1> USE DEF IInv, TypeOK, BlankWhileOpening, Opening, OpenWhileBusy, ConnectOnce, Stages
  <1>1. CASE Quiet
    BY <1>1 DEF Quiet
  <1>2. CASE SendHandler
    BY <1>2 DEF SendHandler, StartsWrite, flags, connecting, completions, transfer, callers
  <1>3. CASE CloseHandler
    BY <1>3 DEF CloseHandler, MaybeSendClose, CloseBlocked, flags, connecting, completions, transfer, callers
  <1>4. ASSUME NEW stage \in Stages, StageFails(stage) PROVE BlankWhileOpening'
    BY <1>4 DEF StageFails, CompleteConnect, flags, connecting, completions, transfer, callers
  <1>5. CASE Opened
    BY <1>5 DEF Opened, CompleteConnect, MaybeSendClose, CloseBlocked, flags, connecting, completions, transfer, callers
  <1>6. CASE OnRead
    BY <1>6 DEF OnRead, flags, connecting, completions, transfer, callers
  <1>7. CASE OnReadError
    BY <1>7 DEF OnReadError, HandleClosed, ReportsEnd, flags, connecting, completions, transfer, callers
  <1>8. CASE OnWrite
    BY <1>8 DEF OnWrite, Drained, MaybeSendClose, CloseBlocked, flags, connecting, completions, transfer, callers
  <1>9. CASE OnWriteError
    BY <1>9 DEF OnWriteError, HandleClosed, ReportsEnd, flags, connecting, completions, transfer, callers
  <1>10. CASE OnClose
    BY <1>10 DEF OnClose, flags, connecting, completions, transfer, callers
  <1> QED
    BY <1>1, <1>2, <1>3, <1>4, <1>5, <1>6, <1>7, <1>8, <1>9, <1>10, StepCases

\* mCloseRequested keeps the queue empty after MaybeSendClose.
LEMMA CloseSentStep == IInv /\ [Next]_vars => (CloseSentLast /\ OneWriteOp)'
  <1> SUFFICES ASSUME IInv, [Next]_vars PROVE (CloseSentLast /\ OneWriteOp)'
    OBVIOUS
  <1> USE DEF IInv, TypeOK, BlankWhileOpening, CloseSentLast, OneWriteOp, WriteMatchesQueue, OpenWhileBusy, ConnectOnce
  <1>1. CASE Quiet
    BY <1>1 DEF Quiet
  <1>2. CASE SendHandler
    BY <1>2 DEF SendHandler, StartsWrite, flags, connecting, completions, transfer, callers
  <1>3. CASE CloseHandler
    BY <1>3 DEF CloseHandler, MaybeSendClose, CloseBlocked, flags, connecting, completions, transfer, callers
  <1>4. ASSUME NEW stage \in Stages, StageFails(stage) PROVE (CloseSentLast /\ OneWriteOp)'
    BY <1>4 DEF StageFails, CompleteConnect, flags, connecting, completions, transfer, callers
  <1>5. CASE Opened
    BY <1>5 DEF Opened, CompleteConnect, MaybeSendClose, CloseBlocked, flags, connecting, completions, transfer, callers
  <1>6. CASE OnRead
    BY <1>6 DEF OnRead, flags, connecting, completions, transfer, callers
  <1>7. CASE OnReadError
    BY <1>7 DEF OnReadError, HandleClosed, ReportsEnd, flags, connecting, completions, transfer, callers
  <1>8. CASE OnWrite
    BY <1>8 DEF OnWrite, Drained, MaybeSendClose, CloseBlocked, flags, connecting, completions, transfer, callers
  <1>9. CASE OnWriteError
    BY <1>9 DEF OnWriteError, HandleClosed, ReportsEnd, flags, connecting, completions, transfer, callers
  <1>10. CASE OnClose
    BY <1>10 DEF OnClose, flags, connecting, completions, transfer, callers
  <1> QED
    BY <1>1, <1>2, <1>3, <1>4, <1>5, <1>6, <1>7, <1>8, <1>9, <1>10, StepCases

\* HandleClosed fails the stream, clears the queue and clears mOpen together.
LEMMA BusyStep == IInv /\ [Next]_vars => OpenWhileBusy'
  <1> SUFFICES ASSUME IInv, [Next]_vars PROVE OpenWhileBusy'
    OBVIOUS
  <1> USE DEF IInv, TypeOK, OpenWhileBusy, CloseSentLast
  <1>1. CASE Quiet
    BY <1>1 DEF Quiet
  <1>2. CASE SendHandler
    BY <1>2 DEF SendHandler, StartsWrite, flags, connecting, completions, transfer, callers
  <1>3. CASE CloseHandler
    BY <1>3 DEF CloseHandler, MaybeSendClose, CloseBlocked, flags, connecting, completions, transfer, callers
  <1>4. ASSUME NEW stage \in Stages, StageFails(stage) PROVE OpenWhileBusy'
    BY <1>4 DEF StageFails, CompleteConnect, flags, connecting, completions, transfer, callers
  <1>5. CASE Opened
    BY <1>5 DEF Opened, CompleteConnect, MaybeSendClose, CloseBlocked, flags, connecting, completions, transfer, callers
  <1>6. CASE OnRead
    BY <1>6 DEF OnRead, flags, connecting, completions, transfer, callers
  <1>7. CASE OnReadError
    BY <1>7 DEF OnReadError, HandleClosed, ReportsEnd, flags, connecting, completions, transfer, callers
  <1>8. CASE OnWrite
    BY <1>8 DEF OnWrite, Drained, MaybeSendClose, CloseBlocked, flags, connecting, completions, transfer, callers
  <1>9. CASE OnWriteError
    BY <1>9 DEF OnWriteError, HandleClosed, ReportsEnd, flags, connecting, completions, transfer, callers
  <1>10. CASE OnClose
    BY <1>10 DEF OnClose, flags, connecting, completions, transfer, callers
  <1> QED
    BY <1>1, <1>2, <1>3, <1>4, <1>5, <1>6, <1>7, <1>8, <1>9, <1>10, StepCases

\* Send starts a write exactly on an empty queue, OnWrite exactly on a rest.
LEMMA WriteStep == IInv /\ [Next]_vars => WriteMatchesQueue'
  <1> SUFFICES ASSUME IInv, [Next]_vars PROVE WriteMatchesQueue'
    OBVIOUS
  <1> USE DEF IInv, TypeOK, BlankWhileOpening, OpenWhileBusy, WriteMatchesQueue, ConnectOnce
  <1>1. CASE Quiet
    BY <1>1 DEF Quiet
  <1>2. CASE SendHandler
    <2>1. Head(strand) \in Payloads
      <3>1. strand # <<>> /\ Head(strand) \notin {ConnectCall, CloseCall}
        BY <1>2 DEF SendHandler, StartsWrite
      <3> QED
        BY <3>1, HeadTailProperties
    <2>2. CASE UNCHANGED transfer
      BY <1>2, <2>2 DEF SendHandler, StartsWrite, transfer, flags
    <2>3. CASE /\ mOpen /\ ~mCloseRequested
               /\ mWriteQueue' = Append(mWriteQueue, Head(strand))
               /\ accepted' = Append(accepted, Head(strand))
               /\ writeOp' = IF Len(mWriteQueue') = 1 THEN Head(mWriteQueue') ELSE writeOp
               /\ UNCHANGED wire
      <3>1. writeOp = IF mWriteQueue = <<>> THEN None ELSE Head(mWriteQueue)
        BY <2>3
      <3>2. CASE mWriteQueue = <<>>
        BY <2>1, <2>3, <3>2
      <3>3. CASE mWriteQueue # <<>>
        <4>0. mWriteQueue' = Append(mWriteQueue, Head(strand)) /\ mWriteQueue \in Seq(Payloads)
          BY <2>3
        <4>1. Len(mWriteQueue') # 1 /\ mWriteQueue' # <<>>
          <5> HIDE DEF IInv, TypeOK
          <5> QED
            BY <2>1, <3>3, <4>0, AppendProperties, EmptySeq
        <4>2. Head(mWriteQueue') = Head(mWriteQueue)
          BY <2>1, <2>3, <3>3, HeadTailAppend
        <4> QED
          BY <2>3, <3>1, <3>3, <4>1, <4>2
      <3> QED
        BY <3>2, <3>3
    <2> QED
      BY <1>2, <2>2, <2>3, Zenon DEF SendHandler, StartsWrite
  <1>3. CASE CloseHandler
    BY <1>3 DEF CloseHandler, MaybeSendClose, CloseBlocked, flags, connecting, completions, transfer, callers
  <1>4. ASSUME NEW stage \in Stages, StageFails(stage) PROVE WriteMatchesQueue'
    BY <1>4 DEF StageFails, CompleteConnect, flags, connecting, completions, transfer, callers
  <1>5. CASE Opened
    BY <1>5 DEF Opened, CompleteConnect, MaybeSendClose, CloseBlocked, flags, connecting, completions, transfer, callers
  <1>6. CASE OnRead
    BY <1>6 DEF OnRead, flags, connecting, completions, transfer, callers
  <1>7. CASE OnReadError
    BY <1>7 DEF OnReadError, HandleClosed, ReportsEnd, flags, connecting, completions, transfer, callers
  <1>8. CASE OnWrite
    BY <1>8 DEF OnWrite, Drained, MaybeSendClose, CloseBlocked, flags, connecting, completions, transfer, callers
  <1>9. CASE OnWriteError
    BY <1>9 DEF OnWriteError, HandleClosed, ReportsEnd, flags, connecting, completions, transfer, callers
  <1>10. CASE OnClose
    BY <1>10 DEF OnClose, flags, connecting, completions, transfer, callers
  <1> QED
    BY <1>1, <1>2, <1>3, <1>4, <1>5, <1>6, <1>7, <1>8, <1>9, <1>10, StepCases

\* OnWrite pops the payload that was written: it only moves across.
LEMMA OnWriteMoves ==
  ASSUME IInv, OnWrite
  PROVE  /\ Append(wire, Head(mWriteQueue)) \in Seq(Payloads)
         /\ Append(wire, Head(mWriteQueue)) \o Tail(mWriteQueue) = accepted
  <1>1. mOpen /\ mWriteQueue # <<>>
    BY DEF IInv, OnWrite, Drained, OpenWhileBusy, WriteMatchesQueue
  <1>2. wire \in Seq(Payloads) /\ mWriteQueue \in Seq(Payloads) /\ wire \o mWriteQueue = accepted
    BY <1>1 DEF IInv, TypeOK, SendsInOrder
  <1> QED
    BY <1>1, <1>2, MoveHead

\* Send appends to both sides, OnWrite moves the head across.
LEMMA OrderStep == IInv /\ [Next]_vars => SendsInOrder'
  <1> SUFFICES ASSUME IInv, [Next]_vars PROVE SendsInOrder'
    OBVIOUS
  <1> USE DEF IInv, TypeOK, BlankWhileOpening, OpenWhileBusy, WriteMatchesQueue, SendsInOrder, ConnectOnce
  <1>1. CASE Quiet
    BY <1>1 DEF Quiet
  <1>2. CASE SendHandler
    <2>1. Head(strand) \in Payloads
      <3>1. strand # <<>> /\ Head(strand) \notin {ConnectCall, CloseCall}
        BY <1>2 DEF SendHandler, StartsWrite
      <3> QED
        BY <3>1, HeadTailProperties
    <2>2. CASE UNCHANGED transfer
      BY <1>2, <2>2 DEF SendHandler, StartsWrite, transfer, flags
    <2>3. CASE /\ mOpen /\ ~mCloseRequested
               /\ mWriteQueue' = Append(mWriteQueue, Head(strand))
               /\ accepted' = Append(accepted, Head(strand))
               /\ writeOp' = IF Len(mWriteQueue') = 1 THEN Head(mWriteQueue') ELSE writeOp
               /\ UNCHANGED wire
      <3>1. wire \o mWriteQueue = accepted
        BY <2>3
      <3>2. wire \o Append(mWriteQueue, Head(strand)) = Append(wire \o mWriteQueue, Head(strand))
        BY <2>1, AppendConcat
      <3> QED
        BY <2>3, <3>1, <3>2
    <2> QED
      BY <1>2, <2>2, <2>3, Zenon DEF SendHandler, StartsWrite
  <1>3. CASE CloseHandler
    BY <1>3 DEF CloseHandler, MaybeSendClose, CloseBlocked, flags, connecting, completions, transfer, callers
  <1>4. ASSUME NEW stage \in Stages, StageFails(stage) PROVE SendsInOrder'
    BY <1>4 DEF StageFails, CompleteConnect, flags, connecting, completions, transfer, callers
  <1>5. CASE Opened
    BY <1>5 DEF Opened, CompleteConnect, MaybeSendClose, CloseBlocked, flags, connecting, completions, transfer, callers
  <1>6. CASE OnRead
    BY <1>6 DEF OnRead, flags, connecting, completions, transfer, callers
  <1>7. CASE OnReadError
    BY <1>7 DEF OnReadError, HandleClosed, ReportsEnd, flags, connecting, completions, transfer, callers
  <1>8. CASE OnWrite
    <2>1. mOpen /\ mWriteQueue # <<>> /\ writeOp = Head(mWriteQueue)
      BY <1>8 DEF OnWrite, Drained
    <2>2. Append(wire, Head(mWriteQueue)) \o Tail(mWriteQueue) = accepted
      BY <1>8, OnWriteMoves
    <2> QED
      BY <1>8, <2>1, <2>2 DEF OnWrite, Drained
  <1>9. CASE OnWriteError
    BY <1>9 DEF OnWriteError, HandleClosed, ReportsEnd, flags, connecting, completions, transfer, callers
  <1>10. CASE OnClose
    BY <1>10 DEF OnClose, flags, connecting, completions, transfer, callers
  <1> QED
    BY <1>1, <1>2, <1>3, <1>4, <1>5, <1>6, <1>7, <1>8, <1>9, <1>10, StepCases

\* MaybeSendClose finds the queue empty, and nothing is written afterwards.
LEMMA FlushStep == IInv /\ [Next]_vars => FlushBeforeClose'
  <1> SUFFICES ASSUME IInv, [Next]_vars PROVE FlushBeforeClose'
    OBVIOUS
  <1> USE DEF IInv, TypeOK, BlankWhileOpening, CloseSentLast, OpenWhileBusy, WriteMatchesQueue, SendsInOrder, FlushBeforeClose, ConnectOnce
  <1>1. CASE Quiet
    BY <1>1 DEF Quiet
  <1>2. CASE SendHandler
    BY <1>2 DEF SendHandler, StartsWrite, flags, connecting, completions, transfer, callers
  <1>3. CASE CloseHandler
    <2>1. wire' = wire /\ accepted' = accepted
      BY <1>3 DEF CloseHandler, transfer
    <2>2. CASE mCloseSent
      BY <2>1, <2>2
    <2>3. CASE ~mCloseSent /\ mCloseSent'
      <3>1. mOpen /\ mWriteQueue = <<>>
        BY <1>3, <2>3, Zenon DEF CloseHandler, MaybeSendClose, CloseBlocked
      <3> QED
        BY <2>1, <3>1, ConcatEmptySeq
    <2> QED
      BY <2>2, <2>3
  <1>4. ASSUME NEW stage \in Stages, StageFails(stage) PROVE FlushBeforeClose'
    BY <1>4 DEF StageFails, CompleteConnect, flags, connecting, completions, transfer, callers
  <1>5. CASE Opened
    BY <1>5 DEF Opened, CompleteConnect, MaybeSendClose, CloseBlocked, flags, connecting, completions, transfer, callers
  <1>6. CASE OnRead
    BY <1>6 DEF OnRead, flags, connecting, completions, transfer, callers
  <1>7. CASE OnReadError
    BY <1>7 DEF OnReadError, HandleClosed, ReportsEnd, flags, connecting, completions, transfer, callers
  <1>8. CASE OnWrite
    <2>1. mOpen /\ mWriteQueue # <<>> /\ writeOp = Head(mWriteQueue)
      BY <1>8 DEF OnWrite, Drained
    <2>2. Append(wire, Head(mWriteQueue)) \o Tail(mWriteQueue) = accepted
      BY <1>8, OnWriteMoves
    <2>3. /\ wire' = Append(wire, Head(mWriteQueue)) /\ mWriteQueue' = Tail(mWriteQueue)
          /\ accepted' = accepted /\ ~mCloseSent
      BY <1>8, <2>1 DEF OnWrite, Drained
    <2>4. wire' \o mWriteQueue' = accepted' /\ wire' \in Seq(Payloads)
      BY <1>8, <2>2, <2>3, OnWriteMoves
    <2>5. CASE mWriteQueue' = <<>>
      BY <2>4, <2>5, ConcatEmptySeq
    <2>6. CASE mWriteQueue' # <<>>
      BY <1>8, <2>3, <2>6 DEF OnWrite, Drained, MaybeSendClose, CloseBlocked
    <2> QED
      BY <2>5, <2>6
  <1>9. CASE OnWriteError
    BY <1>9 DEF OnWriteError, HandleClosed, ReportsEnd, flags, connecting, completions, transfer, callers
  <1>10. CASE OnClose
    BY <1>10 DEF OnClose, flags, connecting, completions, transfer, callers
  <1> QED
    BY <1>1, <1>2, <1>3, <1>4, <1>5, <1>6, <1>7, <1>8, <1>9, <1>10, StepCases

-----------------------------------------------------------------------------
\* A session is made blank, before AsyncConnect.
LEMMA InitIInv == Init => IInv
  <1> SUFFICES ASSUME Init PROVE IInv
    OBVIOUS
  <1> USE DEF Init
  <1>1. TypeOK
    <2>1. /\ isSsl \in BOOLEAN /\ mOpen \in BOOLEAN /\ mCloseRequested \in BOOLEAN
          /\ mCloseSent \in BOOLEAN /\ mOnConnectComplete \in BOOLEAN
          /\ connectCalled \in BOOLEAN /\ clientAlive \in BOOLEAN /\ aborted \in BOOLEAN
      BY Zenon
    <2> QED
      BY <2>1, EmptySeq DEF TypeOK
  <1>2. ConnectOnce /\ BlankWhileOpening /\ CloseSentLast /\ OpenWhileBusy
    BY DEF ConnectOnce, NoConnectCall, Opening, BlankWhileOpening, CloseSentLast, OpenWhileBusy
  <1>3. WriteMatchesQueue /\ OneWriteOp /\ SendsInOrder /\ FlushBeforeClose
    BY DEF WriteMatchesQueue, OneWriteOp, SendsInOrder, FlushBeforeClose
  <1> QED
    BY <1>1, <1>2, <1>3 DEF IInv

\* Every step preserves the inductive invariant.
LEMMA StepIInv == IInv /\ [Next]_vars => IInv'
  BY TypeStep, ConnectStep, BlankStep, CloseSentStep, BusyStep, WriteStep, OrderStep, FlushStep
     DEF IInv

\* The inductive invariant holds in every reachable state.
LEMMA InvariantHolds == Spec => []IInv
  BY InitIInv, StepIInv, PTL DEF Spec

\* The fields of CSession and its pending operations always have their types.
THEOREM TypeCorrect == Spec => []TypeOK
  <1>1. IInv => TypeOK
    BY DEF IInv
  <1> QED
    BY <1>1, InvariantHolds, PTL

\* async_write runs exactly while the queue of an open session holds something
\* and sends its head, and it never runs beside async_close,
\* also for a Close() that came while connecting.
THEOREM WriteLoopCorrect == Spec => []WriteLoop
  <1>1. IInv => WriteLoop
    BY DEF IInv, WriteLoop
  <1> QED
    BY <1>1, InvariantHolds, PTL

-----------------------------------------------------------------------------
\* The initial state of a session is an initial state of the contract.
LEMMA InitContract == Init => Contract!Init
  BY DEF Init, Contract!Init, Opening

\* OnWrite delivers the next accepted payload, and closes only behind the last.
LEMMA OnWriteDelivers ==
  ASSUME IInv, IInv', OnWrite
  PROVE  Contract!Deliver
  <1>1. mOpen /\ mWriteQueue # <<>> /\ writeOp = Head(mWriteQueue) /\ ~Opening
    BY DEF IInv, TypeOK, OnWrite, Drained, OpenWhileBusy, WriteMatchesQueue, BlankWhileOpening
  <1>2. Len(wire) < Len(accepted) /\ accepted[Len(wire) + 1] = writeOp
    <2>1. /\ wire \in Seq(Payloads) /\ mWriteQueue \in Seq(Payloads)
          /\ wire \o mWriteQueue = accepted
      BY <1>1 DEF IInv, TypeOK, SendsInOrder
    <2> QED
      BY <1>1, <2>1, NextOfConcat
  <1>3. wire' = Append(wire, accepted[Len(wire) + 1])
    BY <1>2 DEF OnWrite, Drained
  <1>4. mCloseSent' \in BOOLEAN /\ (mCloseSent' => wire' = accepted')
    BY DEF IInv, TypeOK, FlushBeforeClose
  <1>5. mCloseSent => mCloseSent'
    BY Zenon DEF OnWrite, Drained, MaybeSendClose, CloseBlocked
  <1>6. UNCHANGED <<mOpen, connects, failures, accepted, reads, disconnects>>
    BY Zenon DEF OnWrite, Drained, connecting, completions
  <1> QED
    BY <1>1, <1>2, <1>3, <1>4, <1>5, <1>6 DEF Contract!Deliver, Contract!MayClose, Opening

\* HandleClosed ends an open session and is silent otherwise.
LEMMA HandleClosedEnds ==
  ASSUME IInv, HandleClosed
  PROVE  Contract!End \/ UNCHANGED Contract!vars
  <1>1. /\ mOpen \in BOOLEAN /\ (mOpen => ~Opening)
        /\ disconnects \in Nat /\ failures \in Nat
    BY DEF IInv, TypeOK, BlankWhileOpening
  <1>2. UNCHANGED <<connects, failures, accepted, wire, mCloseSent, reads>> /\ ~mOpen'
    BY Zenon DEF HandleClosed, ReportsEnd, connecting, completions
  <1>3. /\ disconnects' \in {disconnects, disconnects + 1}
        /\ ~mOpen => disconnects' = disconnects
    BY DEF HandleClosed, ReportsEnd
  <1>4. CASE mOpen
    <2>1. (disconnects + failures)' \in {disconnects + failures, disconnects + failures + 1}
      <3>1. failures' = failures /\ disconnects \in Nat /\ failures \in Nat
        BY <1>1, <1>2
      <3>2. disconnects' = disconnects \/ disconnects' = disconnects + 1
        BY <1>3
      <3> QED
        BY <3>1, <3>2
    <2>2. ~Opening /\ ~Opening'
      BY <1>1, <1>2, <1>4 DEF Opening
    <2> QED
      BY <1>2, <1>4, <2>1, <2>2 DEF Contract!End
  <1>5. CASE ~mOpen
    BY <1>1, <1>2, <1>3, <1>5 DEF Contract!vars, Opening
  <1> QED
    BY <1>1, <1>4, <1>5

\* Every step is a step of the contract or leaves its state alone.
LEMMA StepContract == IInv /\ IInv' /\ [Next]_vars => [Contract!Next]_Contract!vars
  <1> SUFFICES ASSUME IInv, IInv', [Next]_vars
               PROVE  Contract!Next \/ UNCHANGED Contract!vars
    OBVIOUS
  <1>0. /\ mOpen \in BOOLEAN /\ mOpen' \in BOOLEAN /\ mCloseSent' \in BOOLEAN
        /\ mOpen => ~Opening
        /\ mCloseSent' => wire' = accepted'
        /\ connects \in Nat /\ failures \in Nat /\ disconnects \in Nat
    BY DEF IInv, TypeOK, BlankWhileOpening, FlushBeforeClose
  <1>1. CASE Quiet
    BY <1>1 DEF Quiet, Contract!vars, Opening
  <1>2. CASE SendHandler
    <2>1. UNCHANGED <<mOpen, mCloseSent, connects, failures, reads, disconnects>>
      BY <1>2, Zenon DEF SendHandler, StartsWrite, flags, connecting, completions
    <2>2. CASE UNCHANGED transfer
      BY <2>1, <2>2 DEF Contract!vars, Opening, transfer
    <2>3. CASE /\ mOpen /\ ~mCloseRequested
               /\ accepted' = Append(accepted, Head(strand))
               /\ UNCHANGED wire
      <3>1. Head(strand) \in Payloads
        <4>1. strand # <<>> /\ Head(strand) \notin {ConnectCall, CloseCall}
          BY <1>2 DEF SendHandler, StartsWrite
        <4> QED
          BY <4>1, HeadTailProperties DEF IInv, TypeOK
      <3>2. ~mCloseSent
        BY <2>3 DEF IInv, CloseSentLast
      <3> QED
        BY <1>0, <2>1, <2>3, <3>1, <3>2 DEF Contract!Next, Contract!Accept, Opening
    <2> QED
      BY <1>2, <2>2, <2>3, Zenon DEF SendHandler, StartsWrite
  <1>3. CASE CloseHandler
    <2>1. UNCHANGED <<mOpen, connects, failures, accepted, wire, reads, disconnects>>
      BY <1>3, Zenon DEF CloseHandler, completions, transfer
    <2>2. CASE mCloseSent' = mCloseSent
      BY <2>1, <2>2 DEF Contract!vars, Opening
    <2>3. CASE mOpen /\ (mCloseSent => mCloseSent')
      BY <1>0, <2>1, <2>3 DEF Contract!Next, Contract!SendClose, Contract!MayClose, Opening
    <2> QED
      BY <1>3, <2>2, <2>3, Zenon DEF CloseHandler, MaybeSendClose, CloseBlocked
  <1>4. ASSUME NEW stage \in Stages, StageFails(stage) PROVE Contract!Next
    <2>1. Opening /\ mOnConnectComplete
      BY <1>4 DEF StageFails, Stages, IInv, ConnectOnce
    <2>2. UNCHANGED <<mOpen, mCloseSent, accepted, wire, reads, disconnects>> /\ ~mOpen
      BY <1>4, <2>1, Zenon DEF StageFails, transfer, IInv, BlankWhileOpening
    <2>3. connects' = connects /\ failures' = failures + 1
      BY <1>4, <2>1 DEF StageFails, CompleteConnect
    <2> QED
      BY <1>0, <2>1, <2>2, <2>3 DEF Contract!Next, Contract!End, Opening
  <1>5. CASE Opened
    <2>1. Opening /\ mOnConnectComplete
      BY <1>5 DEF Opened, IInv, ConnectOnce
    <2>2. UNCHANGED <<accepted, wire, reads, disconnects>> /\ mOpen' = TRUE
      BY <1>5, Zenon DEF Opened, transfer
    <2>3. connects' = connects + 1 /\ failures' = failures
      BY <1>5, <2>1 DEF Opened, CompleteConnect
    <2>4. mCloseSent => mCloseSent'
      BY <1>5, Zenon DEF Opened, MaybeSendClose, CloseBlocked
    <2> QED
      BY <1>0, <2>1, <2>2, <2>3, <2>4 DEF Contract!Next, Contract!Open, Contract!MayClose, Opening
  <1>6. CASE OnRead
    <2>1. mOpen /\ reads' = reads + 1 /\ UNCHANGED <<mOpen, mCloseSent>>
      BY <1>6, Zenon DEF OnRead, flags, IInv, OpenWhileBusy
    <2>2. UNCHANGED <<connects, failures, accepted, wire, disconnects>>
      BY <1>6, Zenon DEF OnRead, connecting, completions, transfer
    <2> QED
      BY <1>0, <2>1, <2>2 DEF Contract!Next, Contract!Receive, Opening
  <1>7. CASE OnReadError
    BY <1>7, HandleClosedEnds DEF OnReadError, Contract!Next
  <1>8. CASE OnWrite
    BY <1>8, OnWriteDelivers DEF Contract!Next
  <1>9. CASE OnWriteError
    BY <1>9, HandleClosedEnds DEF OnWriteError, Contract!Next
  <1>10. CASE OnClose
    BY <1>10 DEF OnClose, Contract!vars, flags, connecting, completions, transfer, Opening
  <1> QED
    BY <1>1, <1>2, <1>3, <1>4, <1>5, <1>6, <1>7, <1>8, <1>9, <1>10, StepCases

\* CSession keeps the session contract, for any payloads, plain or TLS: the
\* same contract that CWsSession keeps on the other side.
THEOREM KeepsContract == Spec => ImplementsContract
  BY InitContract, InvariantHolds, StepContract, PTL DEF Spec, ImplementsContract, Contract!Spec
=============================================================================
