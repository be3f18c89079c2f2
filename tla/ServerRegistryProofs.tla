------------------------ MODULE ServerRegistryProofs ------------------------
(***************************************************************************)
(* TLAPS proofs about ServerRegistry, for any number of connections, uris, *)
(* calling threads and calls.  Two hypotheses name what the code does not  *)
(* ensure by itself and a theorem that needs one says so.                  *)
(***************************************************************************)
EXTENDS ServerRegistry, SequenceLemmas, FiniteSetTheorems

\* Fewer ids are handed out than mNextConnectionId has values: it does not wrap.
NoWrap == MaxAllocs < IdSpace

\* Callbacks do not call Start(), which could then overtake the destructor.
NoStartInCallback == Starters \cap Callbacks = {}

-----------------------------------------------------------------------------
(***************************************************************************)
(* The strengthening for the destructor: what other calls there can be     *)
(* after it began, and what it has already done.                           *)
(***************************************************************************)
DestructorSteps == {"stop", "stopQueue", "join", "destroyed"}

OwnerShutsDown ==
  /\ \A a \in Apps : call[a].pc \in DestructorSteps => a = Main /\ mShutdown
  /\ mShutdown => \A a \in Apps \ ({Main} \cup Callbacks) : call[a].pc = "idle"
  /\ mShutdown => call[Main].pc \in DestructorSteps \cup {"close", "notify", "callback"}

OnlyStartersStart == \A a \in Apps : call[a].pc = "starting" => a \in Starters

StoppedIsEmpty ==
  /\ mShutdown /\ call[Main].pc # "stop" => Listed = {} /\ (NoStartInCallback => ~mAcceptor)
  /\ call[Main].pc \in {"join", "destroyed"} => wqStopped
  /\ wqStopped => wq = <<>>
  /\ call[Main].pc = "destroyed" => ~running

ShutInv == OwnerShutsDown /\ OnlyStartersStart /\ StoppedIsEmpty

(***************************************************************************)
(* The strengthening for the clients: ids are given once, and whatever     *)
(* carries an id got it from the connection it was given to.               *)
(***************************************************************************)
Given(i) == 1 <= i /\ i <= allocs

NextIdFresh ==
  /\ allocs <= MaxAllocs
  /\ allocs + 1 < IdSpace => mNextConnectionId = allocs + 1

Live(c) == sess[c] \in {"open", "gone"}
AboutClient(e) == e.kind # "change"
ClosedOf(e, i) == e.kind = "closed" /\ e.id = i

IdsGiven ==
  /\ \A i \in Ids : mClients[i] # NoEntry \/ closedTold[i] # 0 => Given(i)
  /\ \A c \in Conns : Live(c) => Given(cid[c])
  /\ \A k \in 1 .. Len(wq) : AboutClient(wq[k]) => Given(wq[k].id)

OwnIds == \A c, d \in Conns : Live(c) /\ Live(d) /\ cid[c] = cid[d] => c = d

ListedOpen ==
  \A i \in Ids : mClients[i] # NoEntry =>
    sess[mClients[i].conn] = "open" /\ cid[mClients[i].conn] = i

\* A handler posts at most one event about its client, before any count, and
\* the added event before anything else about the client is queued.
PendingShape(c) ==
  /\ ~Live(c) => pending[c] = <<>>
  /\ \A k \in 1 .. Len(pending[c]) : AboutClient(pending[c][k]) =>
       /\ k = 1 /\ pending[c][k].id = cid[c]
       /\ pending[c][k].kind = "added" =>
            \A j \in 1 .. Len(wq) : AboutClient(wq[j]) => wq[j].id # cid[c]

\* NotifyClosedSync runs the closed callback first.
SyncShape(a) ==
  /\ call[a].sync # <<>> => call[a].pc \in {"notify", "callback"}
  /\ \A k \in 1 .. Len(call[a].sync) : call[a].sync[k].kind = "closed" => k = 1

(***************************************************************************)
(* The strengthening for the closed callback: while a client is listed,    *)
(* taken out by a call, about to be reported by a handler, by the queue or *)
(* by a call, or reported, it is only one of these, and that only once.    *)
(***************************************************************************)
IsListed(i) == mClients[i] # NoEntry
Taking(a) == IF call[a].pc \in {"close", "notify", "callback"} THEN call[a].todo ELSE {}
InSync(i, a) == call[a].sync # <<>> /\ ClosedOf(call[a].sync[1], i)
InPending(i, c) == pending[c] # <<>> /\ ClosedOf(pending[c][1], i)
InQueue(i, k) == ClosedOf(wq[k], i)
WasTold(i) == closedTold[i] # 0

SomeTodo(i) == \E a \in Apps : \E e \in Taking(a) : e.id = i
SomeSync(i) == \E a \in Apps : InSync(i, a)
SomePending(i) == \E c \in Conns : InPending(i, c)
SomeQueue(i) == \E k \in 1 .. Len(wq) : InQueue(i, k)

OnePlace(i) ==
  /\ IsListed(i) => ~(SomeTodo(i) \/ SomeSync(i) \/ SomePending(i) \/ SomeQueue(i) \/ WasTold(i))
  /\ SomeTodo(i) => ~(SomeSync(i) \/ SomePending(i) \/ SomeQueue(i) \/ WasTold(i))
  /\ SomeSync(i) => ~(SomePending(i) \/ SomeQueue(i) \/ WasTold(i))
  /\ SomePending(i) => ~(SomeQueue(i) \/ WasTold(i))
  /\ SomeQueue(i) => ~WasTold(i)
  /\ SomeTodo(i) \/ SomeSync(i) => Given(i)

TodoOnce(i) ==
  \A a, b \in Apps : \A e \in Taking(a) : \A f \in Taking(b) :
    e.id = i /\ f.id = i => a = b /\ e = f
SyncOnce(i) == \A a, b \in Apps : InSync(i, a) /\ InSync(i, b) => a = b
QueueOnce(i) == \A j, k \in 1 .. Len(wq) : InQueue(i, j) /\ InQueue(i, k) => j = k

OnceInPlace(i) == TodoOnce(i) /\ SyncOnce(i) /\ QueueOnce(i) /\ closedTold[i] <= 1

IdInv == NextIdFresh /\ IdsGiven /\ OwnIds /\ ListedOpen
EventInv == (\A c \in Conns : PendingShape(c)) /\ (\A a \in Apps : SyncShape(a)) /\ AddedFirst
CloseInv == \A i \in Ids : OnePlace(i) /\ OnceInPlace(i)

IInv == TypeOK /\ IdInv /\ EventInv /\ CloseInv /\ NoOrphanSession /\ UriCountsMatch

-----------------------------------------------------------------------------
(***************************************************************************)
(* Types.                                                                  *)
(***************************************************************************)
PCs == {"idle", "starting", "stop", "close", "notify", "callback", "evaluate", "send", "stopQueue",
        "join", "destroyed"}
TakenEntry == [id : Ids, conn : Conns, uri : Uris \cup {NoUri}]
Calls == [pc : PCs, todo : SUBSET TakenEntry, sync : Seq(Event), to : SUBSET (Uris \cup {NoUri})]
SessionStates == {"idle", "upgrading", "open", "gone", "refused"}

\* The steps, one disjunct per action.
LEMMA StepCases ==
  ASSUME [Next]_vars
  PROVE  \/ Shutdown \/ WorkQueueStop \/ WorkQueueJoin
         \/ \E a \in Apps : Start(a)
         \/ \E a \in Apps : StartFails(a)
         \/ \E a \in Apps : StartLocked(a)
         \/ \E a \in Apps : StopLocked(a)
         \/ \E a \in Apps, id \in Ids : RemoveClientLocked(a, id)
         \/ \E a \in Apps : CloseSessions(a)
         \/ \E a \in Apps : NotifyClosedSync(a)
         \/ \E a \in Apps : Invoke(a)
         \/ \E a \in Apps : InvokeReturn(a)
         \/ \E a \in Apps : Return(a)
         \/ \E a \in Apps, u \in Uris : AddUri(a, u) \/ RemoveUri(a, u)
         \/ \E a \in Apps, id \in Ids : SendToClient(a, id)
         \/ \E a \in Apps, to \in Destinations : Broadcast(a, to) \/ DelayedSend(a, to)
         \/ \E a \in Apps : DelayedBroadcast(a)
         \/ \E a \in Apps : SendReturn(a)
         \/ AcceptorClosed \/ NextConnectionId
         \/ \E c \in Conns : Accept(c) \/ RegisterRefused(c)
         \/ \E c \in Conns : RegisterWsClient(c)
         \/ \E c \in Conns : PostCallback(c)
         \/ \E c \in Conns : OnWsMessage(c)
         \/ \E c \in Conns : OnWsClosed(c)
         \/ Deliver \/ CallbackReturn \/ UNCHANGED vars
  BY DEF Next

\* The clients a call takes out of mClients, or copies from it.
LEMMA TakenType ==
  ASSUME TypeOK, NEW I, I \subseteq Listed
  PROVE  Taken(I) \in SUBSET TakenEntry
  BY DEF TypeOK, Taken, Listed, TakenEntry, Entry

\* The events of a registration, a disconnect and a message are events.
LEMMA EventTypes ==
  /\ \A i \in Ids : Added(i) \in Event /\ Closed(i) \in Event
  /\ \A i \in Ids, u \in Uris \cup {NoUri} : Message(i, u) \in Event
  /\ \A u \in Uris \cup {NoUri}, n \in Nat : Change(u, n) \in Event /\ ChangeEvents(u, n) \in Seq(Event)
  <1>1. 0 \in Ids
    BY ConstantsOK DEF Ids
  <1>2. \A u \in Uris \cup {NoUri}, n \in Nat : Change(u, n) \in Event
    BY <1>1 DEF Change, Event
  <1>3. \A u \in Uris \cup {NoUri}, n \in Nat : ChangeEvents(u, n) \in Seq(Event)
    BY <1>2 DEF ChangeEvents
  <1> QED
    BY <1>2, <1>3 DEF Added, Closed, Message, Event

\* A registration takes the next id, which stays one of the values of
\* mNextConnectionId.
LEMMA NextIdType ==
  ASSUME TypeOK
  PROVE  (mNextConnectionId + 1) % IdSpace \in Ids
  BY ConstantsOK DEF TypeOK, Ids

LEMMA TellType ==
  ASSUME TypeOK, NEW e \in Event, Tell(e)
  PROVE  closedTold' \in [Ids -> Nat]
  BY DEF TypeOK, Tell, Event

LEMMA DecrementType ==
  ASSUME TypeOK, NEW u \in Uris \cup {NoUri}
  PROVE  DecrementUriCountLocked(u) \in [Uris -> Nat]
  <1>1. CASE u = NoUri \/ mUriCounts[u] = 0
    BY <1>1 DEF TypeOK, DecrementUriCountLocked
  <1>2. CASE u # NoUri /\ mUriCounts[u] # 0
    <2>1. u \in Uris /\ mUriCounts[u] - 1 \in Nat
      BY <1>2 DEF TypeOK
    <2> QED
      BY <1>2, <2>1 DEF TypeOK, DecrementUriCountLocked
  <1> QED
    BY <1>1, <1>2

\* Every step keeps the registry's fields in their types.
LEMMA TypeStep == TypeOK /\ [Next]_vars => TypeOK'
  <1> SUFFICES ASSUME TypeOK, [Next]_vars PROVE TypeOK'
    OBVIOUS
  <1> USE DEF registry, clients, network, queue, bounds
  <1>0. /\ Main \in Apps /\ call \in [Apps -> Calls]
        /\ Idle \in Calls /\ [Idle EXCEPT !.pc = "stopQueue"] \in Calls
    <2>1. <<>> \in Seq(Event)
      BY EmptySeq
    <2> QED
      BY <2>1, ConstantsOK DEF TypeOK, Idle, Calls, PCs, TakenEntry
  <1>1. CASE Shutdown
    <2>1. mShutdown' \in BOOLEAN
      BY <1>1, Zenon DEF Shutdown
    <2>2. call' \in [Apps -> Calls]
      BY <1>0, <1>1 DEF Shutdown, Calls, PCs
    <2> QED
      BY <1>1, <2>1, <2>2 DEF Shutdown, TypeOK, Calls, PCs, TakenEntry
  <1>2. CASE WorkQueueStop
    <2>1. wqStopped' \in BOOLEAN
      BY <1>2, Zenon DEF WorkQueueStop
    <2>2. call' \in [Apps -> Calls] /\ wq' \in Seq(Event)
      BY <1>0, <1>2, EmptySeq DEF WorkQueueStop, Calls, PCs
    <2> QED
      BY <1>2, <2>1, <2>2 DEF WorkQueueStop, TypeOK, Calls, PCs, TakenEntry
  <1>3. CASE WorkQueueJoin
    <2>1. call' \in [Apps -> Calls]
      BY <1>0, <1>3 DEF WorkQueueJoin, Calls, PCs
    <2> QED
      BY <1>3, <2>1 DEF WorkQueueJoin, TypeOK, Calls, PCs, TakenEntry
  <1>4. ASSUME NEW a \in Apps, Start(a) PROVE TypeOK'
    <2>1. call' \in [Apps -> Calls]
      BY <1>0, <1>4 DEF Start, Calls, PCs
    <2>2. starts' \in Nat
      BY <1>4 DEF Start, TypeOK
    <2> QED
      BY <1>4, <2>1, <2>2 DEF Start, TypeOK, Calls, PCs, TakenEntry
  <1>5. ASSUME NEW a \in Apps, StartLocked(a) PROVE TypeOK'
    <2>1. mAcceptor' \in BOOLEAN
      BY <1>5, Zenon DEF StartLocked
    <2>2. call' \in [Apps -> Calls]
      BY <1>0, <1>5 DEF StartLocked
    <2> QED
      BY <1>5, <2>1, <2>2 DEF StartLocked, TypeOK, Calls, PCs, TakenEntry
  <1>28. ASSUME NEW a \in Apps, StartFails(a) PROVE TypeOK'
    <2>1. call' \in [Apps -> Calls]
      BY <1>0, <1>28 DEF StartFails
    <2> QED
      BY <1>28, <2>1 DEF StartFails, TypeOK, Calls, PCs, TakenEntry
  <1>6. ASSUME NEW a \in Apps, StopLocked(a) PROVE TypeOK'
    <2>1. mAcceptor' \in BOOLEAN
      BY <1>6, Zenon DEF StopLocked
    <2>2. call' \in [Apps -> Calls]
      <3>1. Taken(Listed) \in SUBSET TakenEntry
        BY TakenType
      <3> QED
        BY <1>0, <1>6, <3>1 DEF StopLocked, Calls, PCs
    <2>3. /\ closing' \in Nat /\ mClients' \in [Ids -> Entry \cup {NoEntry}]
          /\ mUriCounts' \in [Uris -> Nat]
      BY <1>6 DEF StopLocked, TypeOK, CountsCleared
    <2> QED
      BY <1>6, <2>1, <2>2, <2>3 DEF StopLocked, TypeOK, Calls, PCs, TakenEntry
  <1>7. ASSUME NEW a \in Apps, NEW id \in Ids, RemoveClientLocked(a, id) PROVE TypeOK'
    <2>1. mClients[id] \in Entry /\ id \in Listed
      BY <1>7 DEF RemoveClientLocked, TypeOK, Listed
    <2>2. call' \in [Apps -> Calls]
      <3>1. Taken({id}) \in SUBSET TakenEntry
        BY <2>1, TakenType
      <3> QED
        BY <1>0, <1>7, <3>1 DEF RemoveClientLocked, Calls, PCs
    <2>3. mUriCounts' \in [Uris -> Nat]
      BY <1>7, <2>1, DecrementType DEF RemoveClientLocked, Entry
    <2>4. mClients' \in [Ids -> Entry \cup {NoEntry}]
      BY <1>7 DEF RemoveClientLocked, TypeOK
    <2> QED
      BY <1>7, <2>2, <2>3, <2>4 DEF RemoveClientLocked, TypeOK, Calls, PCs, TakenEntry
  <1>8. ASSUME NEW a \in Apps, CloseSessions(a) PROVE TypeOK'
    <2>1. closeReq' \in [Conns -> BOOLEAN]
      <3>1. closeReq' = [c \in Conns |-> closeReq[c] \/ \E e \in call[a].todo : e.conn = c]
        BY <1>8 DEF CloseSessions, CloseAll
      <3> QED
        BY <3>1, Zenon
    <2>2. call' \in [Apps -> Calls]
      BY <1>0, <1>8 DEF CloseSessions, Calls, PCs
    <2> QED
      BY <1>8, <2>1, <2>2 DEF CloseSessions, TypeOK, Calls, PCs, TakenEntry
  <1>9. ASSUME NEW a \in Apps, NotifyClosedSync(a) PROVE TypeOK'
    <2>1. PICK e \in call[a].todo : call' = [call EXCEPT
            ![a].todo = @ \ {e},
            ![a].sync = <<Closed(e.id)>> \o
              (IF e.uri = NoUri THEN <<>> ELSE ChangeEvents(e.uri, mUriCounts[e.uri]))]
      BY <1>9 DEF NotifyClosedSync
    <2>2. e \in TakenEntry
      BY <1>0 DEF Calls
    <2>3. <<Closed(e.id)>> \in Seq(Event)
      BY <2>2, EventTypes DEF TakenEntry
    <2>4. (IF e.uri = NoUri THEN <<>> ELSE ChangeEvents(e.uri, mUriCounts[e.uri])) \in Seq(Event)
      <3>1. CASE e.uri = NoUri
        BY <3>1, EmptySeq
      <3>2. CASE e.uri # NoUri
        <4>1. e.uri \in Uris /\ mUriCounts[e.uri] \in Nat
          BY <2>2, <3>2 DEF TakenEntry, TypeOK
        <4> QED
          BY <3>2, <4>1, EventTypes
      <3> QED
        BY <3>1, <3>2
    <2>5. PICK s \in Seq(Event) : call' = [call EXCEPT ![a].todo = @ \ {e}, ![a].sync = s]
      BY <2>1, <2>3, <2>4, ConcatProperties
    <2>6. call' \in [Apps -> Calls]
      BY <1>0, <2>5 DEF Calls
    <2> QED
      BY <1>9, <2>6 DEF NotifyClosedSync, TypeOK, Calls, PCs, TakenEntry
  <1>10. ASSUME NEW a \in Apps, Invoke(a) PROVE TypeOK'
    <2>1. call[a].sync \in Seq(Event) /\ call[a].sync # <<>>
      BY <1>0, <1>10 DEF Invoke, Calls
    <2>2. Head(call[a].sync) \in Event /\ Tail(call[a].sync) \in Seq(Event)
      BY <2>1, HeadTailProperties
    <2>3. call' \in [Apps -> Calls]
      BY <1>0, <1>10, <2>2 DEF Invoke, Calls, PCs
    <2>4. closedTold' \in [Ids -> Nat]
      BY <1>10, <2>2, TellType DEF Invoke
    <2> QED
      BY <1>10, <2>3, <2>4 DEF Invoke, TypeOK, Calls, PCs, TakenEntry
  <1>29. ASSUME NEW a \in Apps, InvokeReturn(a) PROVE TypeOK'
    <2>1. call' \in [Apps -> Calls]
      BY <1>0, <1>29 DEF InvokeReturn, Calls, PCs
    <2> QED
      BY <1>29, <2>1 DEF InvokeReturn, TypeOK, Calls, PCs, TakenEntry
  <1>11. ASSUME NEW a \in Apps, Return(a) PROVE TypeOK'
    <2>1. call' \in [Apps -> Calls]
      BY <1>0, <1>11 DEF Return
    <2> QED
      BY <1>11, <2>1 DEF Return, TypeOK, Calls, PCs, TakenEntry
  <1>12. ASSUME NEW a \in Apps, NEW u \in Uris, AddUri(a, u) \/ RemoveUri(a, u) PROVE TypeOK'
    BY <1>12 DEF AddUri, RemoveUri, SetUris, Extra, TypeOK
  <1>13. ASSUME NEW a \in Apps, NEW pc \in {"send", "evaluate"}, NEW todo \in SUBSET TakenEntry,
                NEW to \in SUBSET (Uris \cup {NoUri}), Sends(a, pc, todo, to)
         PROVE  TypeOK'
    <2>1. [pc |-> pc, todo |-> todo, sync |-> <<>>, to |-> to] \in Calls
      BY EmptySeq DEF Calls, PCs
    <2>2. call' \in [Apps -> Calls]
      BY <1>0, <1>13, <2>1 DEF Sends
    <2> QED
      BY <1>13, <2>2 DEF Sends, Extra, TypeOK, Calls, PCs, TakenEntry
  <1>14. ASSUME NEW a \in Apps, NEW id \in Ids, SendToClient(a, id) PROVE TypeOK'
    BY <1>13, <1>14, TakenType DEF SendToClient
  <1>15. ASSUME NEW a \in Apps, NEW to \in Destinations, Broadcast(a, to) \/ DelayedSend(a, to)
         PROVE  TypeOK'
    <2>1. to \in SUBSET (Uris \cup {NoUri}) /\ Receivers(to) \subseteq Listed
      BY DEF Destinations, Everyone, Receivers
    <2>2. Taken(Receivers(to)) \in SUBSET TakenEntry /\ {} \in SUBSET TakenEntry
      BY <2>1, TakenType
    <2> QED
      BY <1>13, <1>15, <2>1, <2>2 DEF Broadcast, DelayedSend
  <1>16. ASSUME NEW a \in Apps, DelayedBroadcast(a) PROVE TypeOK'
    <2>1. Receivers(call[a].to) \subseteq Listed
      BY DEF Receivers
    <2>2. Taken(Receivers(call[a].to)) \in SUBSET TakenEntry
      BY <2>1, TakenType
    <2>3. call' \in [Apps -> Calls]
      BY <1>0, <1>16, <2>2 DEF DelayedBroadcast, Calls, PCs
    <2> QED
      BY <1>16, <2>3 DEF DelayedBroadcast, TypeOK, Calls, PCs, TakenEntry
  <1>17. ASSUME NEW a \in Apps, SendReturn(a) PROVE TypeOK'
    <2>1. call' \in [Apps -> Calls]
      BY <1>0, <1>17 DEF SendReturn
    <2> QED
      BY <1>17, <2>1 DEF SendReturn, TypeOK, Calls, PCs, TakenEntry
  <1>18. CASE AcceptorClosed
    BY <1>18 DEF AcceptorClosed, TypeOK
  <1>19. CASE NextConnectionId
    BY <1>19, NextIdType DEF NextConnectionId, TypeOK
  <1>20. ASSUME NEW c \in Conns, Accept(c) \/ RegisterRefused(c) PROVE TypeOK'
    <2>1. sess' \in [Conns -> SessionStates]
      BY <1>20 DEF Accept, RegisterRefused, TypeOK, SessionStates
    <2> QED
      BY <1>20, <2>1 DEF Accept, RegisterRefused, TypeOK, SessionStates
  <1>21. ASSUME NEW c \in Conns, RegisterWsClient(c) PROVE TypeOK'
    <2>1. PICK u \in Uris \cup {NoUri} :
            /\ mClients' = [mClients EXCEPT ![mNextConnectionId] = [conn |-> c, uri |-> u]]
            /\ mUriCounts' = IF u = NoUri THEN mUriCounts ELSE [mUriCounts EXCEPT ![u] = @ + 1]
            /\ pending' = [pending EXCEPT ![c] = <<Added(mNextConnectionId)>> \o
                             (IF u = NoUri THEN <<>> ELSE ChangeEvents(u, mUriCounts[u] + 1))]
      BY <1>21 DEF RegisterWsClient
    <2>2. <<Added(mNextConnectionId)>> \in Seq(Event)
      BY EventTypes DEF TypeOK
    <2>3. (IF u = NoUri THEN <<>> ELSE ChangeEvents(u, mUriCounts[u] + 1)) \in Seq(Event)
      <3>1. CASE u = NoUri
        BY <3>1, EmptySeq
      <3>2. CASE u # NoUri
        <4>1. u \in Uris /\ mUriCounts[u] + 1 \in Nat
          BY <3>2 DEF TypeOK
        <4> QED
          BY <3>2, <4>1, EventTypes
      <3> QED
        BY <3>1, <3>2
    <2>4. PICK s \in Seq(Event) : pending' = [pending EXCEPT ![c] = s]
      BY <2>1, <2>2, <2>3, ConcatProperties
    <2>5. pending' \in [Conns -> Seq(Event)]
      BY <2>4 DEF TypeOK
    <2>6. mUriCounts' \in [Uris -> Nat]
      BY <2>1 DEF TypeOK
    <2>7. mClients' \in [Ids -> Entry \cup {NoEntry}]
      BY <2>1 DEF TypeOK, Entry
    <2>8. sess' \in [Conns -> SessionStates] /\ cid' \in [Conns -> Ids]
      BY <1>21 DEF RegisterWsClient, TypeOK, SessionStates
    <2>9. mNextConnectionId' \in Ids /\ allocs' \in Nat
      BY <1>21, NextIdType DEF RegisterWsClient, TypeOK
    <2> QED
      BY <1>21, <2>5, <2>6, <2>7, <2>8, <2>9 DEF RegisterWsClient, TypeOK, SessionStates
  <1>22. ASSUME NEW c \in Conns, PostCallback(c) PROVE TypeOK'
    <2>1. pending[c] \in Seq(Event) /\ pending[c] # <<>>
      BY <1>22 DEF PostCallback, TypeOK
    <2>2. Head(pending[c]) \in Event /\ Tail(pending[c]) \in Seq(Event)
      BY <2>1, HeadTailProperties
    <2>3. wq' \in Seq(Event)
      BY <1>22, <2>2, AppendProperties DEF PostCallback, Enqueue, TypeOK
    <2>4. pending' \in [Conns -> Seq(Event)]
      BY <1>22, <2>2 DEF PostCallback, TypeOK
    <2> QED
      BY <1>22, <2>3, <2>4 DEF PostCallback, TypeOK
  <1>23. ASSUME NEW c \in Conns, OnWsMessage(c) PROVE TypeOK'
    <2>1. LookupReceiveCallbacks(cid[c]) \in Uris \cup {NoUri} /\ cid[c] \in Ids
      BY DEF LookupReceiveCallbacks, TypeOK
    <2>2. <<Message(cid[c], LookupReceiveCallbacks(cid[c]))>> \in Seq(Event)
      BY <2>1, EventTypes
    <2>3. pending' \in [Conns -> Seq(Event)]
      BY <1>23, <2>2 DEF OnWsMessage, TypeOK
    <2> QED
      BY <1>23, <2>3 DEF OnWsMessage, Extra, TypeOK
  <1>24. ASSUME NEW c \in Conns, OnWsClosed(c) PROVE TypeOK'
    <2>1. PICK u \in Uris \cup {NoUri} :
            /\ mClients' = [mClients EXCEPT ![cid[c]] = NoEntry]
            /\ mUriCounts' = DecrementUriCountLocked(u)
            /\ pending' = [pending EXCEPT ![c] = ClosedEvent(cid[c]) \o
                 (IF u = NoUri THEN <<>> ELSE ChangeEvents(u, mUriCounts'[u]))]
      <3>1. (IF cid[c] \in Listed THEN mClients[cid[c]].uri ELSE NoUri) \in Uris \cup {NoUri}
        BY DEF TypeOK, Listed, Entry
      <3> QED
        BY <1>24, <3>1 DEF OnWsClosed
    <2>2. ClosedEvent(cid[c]) \in Seq(Event)
      <3>1. Closed(cid[c]) \in Event
        BY EventTypes DEF TypeOK
      <3> QED
        BY <3>1 DEF ClosedEvent
    <2>3. mUriCounts' \in [Uris -> Nat]
      BY <2>1, DecrementType
    <2>4. (IF u = NoUri THEN <<>> ELSE ChangeEvents(u, mUriCounts'[u])) \in Seq(Event)
      <3>1. CASE u = NoUri
        BY <3>1, EmptySeq
      <3>2. CASE u # NoUri
        <4>1. u \in Uris /\ mUriCounts'[u] \in Nat
          BY <2>3, <3>2
        <4> QED
          BY <3>2, <4>1, EventTypes
      <3> QED
        BY <3>1, <3>2
    <2>5. PICK s \in Seq(Event) : pending' = [pending EXCEPT ![c] = s]
      BY <2>1, <2>2, <2>4, ConcatProperties
    <2>6. pending' \in [Conns -> Seq(Event)]
      BY <2>5 DEF TypeOK
    <2>7. mClients' \in [Ids -> Entry \cup {NoEntry}]
      BY <2>1 DEF TypeOK
    <2>8. sess' \in [Conns -> SessionStates]
      BY <1>24 DEF OnWsClosed, TypeOK, SessionStates
    <2> QED
      BY <1>24, <2>3, <2>6, <2>7, <2>8 DEF OnWsClosed, TypeOK, SessionStates
  <1>25. CASE Deliver
    <2>1. running' \in BOOLEAN
      BY <1>25, Zenon DEF Deliver
    <2>2. Head(wq) \in Event /\ wq' \in Seq(Event)
      BY <1>25, HeadTailProperties DEF Deliver, TypeOK
    <2>3. closedTold' \in [Ids -> Nat]
      BY <1>25, <2>2, TellType DEF Deliver
    <2> QED
      BY <1>25, <2>1, <2>2, <2>3 DEF Deliver, TypeOK
  <1>26. CASE CallbackReturn
    <2>1. running' \in BOOLEAN
      BY <1>26, Zenon DEF CallbackReturn
    <2> QED
      BY <1>26, <2>1 DEF CallbackReturn, TypeOK
  <1>27. CASE UNCHANGED vars
    BY <1>27 DEF vars, TypeOK
  <1> QED
    BY <1>1, <1>2, <1>3, <1>4, <1>5, <1>6, <1>7, <1>8, <1>9, <1>10, <1>11, <1>12, <1>14, <1>15,
       <1>16, <1>17, <1>18, <1>19, <1>20, <1>21, <1>22, <1>23, <1>24, <1>25, <1>26, <1>27,
       <1>28, <1>29, StepCases, Zenon

LEMMA InitType == Init => TypeOK
  <1> SUFFICES ASSUME Init PROVE TypeOK
    OBVIOUS
  <1>1. <<>> \in Seq(Event)
    BY EmptySeq
  <1>2. Idle \in Calls
    BY <1>1 DEF Idle, Calls, PCs
  <1>3. call \in [Apps -> Calls]
    BY <1>2 DEF Init
  <1>4. 0 \in Ids /\ 1 \in Ids
    BY ConstantsOK DEF Ids
  <1> QED
    BY <1>1, <1>3, <1>4 DEF Init, TypeOK, Calls, PCs, TakenEntry

\* Type correctness of CWebsocketServer::CImpl, for any connections, uris and
\* threads, any id space and any number of calls.
THEOREM TypeCorrect == Spec => []TypeOK
  BY InitType, TypeStep, PTL DEF Spec

-----------------------------------------------------------------------------
(***************************************************************************)
(* The destructor.                                                         *)
(***************************************************************************)
\* A step of a call that does not belong to the destructor's own steps.
LEMMA CallGoesOn ==
  ASSUME TypeOK, ShutInv, UNCHANGED <<mShutdown, wq, wqStopped, running>>,
         NEW a \in Apps, call[a].pc # "stop", call'[a].pc \notin DestructorSteps,
         \A b \in Apps \ {a} : call'[b] = call[b],
         mShutdown => a \in Callbacks \/ (a = Main /\ call'[a].pc \in {"close", "notify", "callback"}),
         call'[a].pc = "starting" => a \in Starters,
         mAcceptor' => mAcceptor, Listed' \subseteq Listed
  PROVE  ShutInv'
  <1> USE ConstantsOK DEF Callbacks
  <1>1. OwnerShutsDown'
    <2>1. ASSUME NEW b \in Apps, call'[b].pc \in DestructorSteps PROVE b = Main /\ mShutdown'
      BY <2>1 DEF ShutInv, OwnerShutsDown
    <2>2. ASSUME mShutdown' PROVE \A b \in Apps \ ({Main} \cup Callbacks) : call'[b].pc = "idle"
      BY <2>2 DEF ShutInv, OwnerShutsDown
    <2>3. ASSUME mShutdown' PROVE call'[Main].pc \in DestructorSteps \cup {"close", "notify", "callback"}
      BY <2>3 DEF ShutInv, OwnerShutsDown
    <2> QED
      BY <2>1, <2>2, <2>3 DEF OwnerShutsDown
  <1>2. OnlyStartersStart'
    BY DEF ShutInv, OnlyStartersStart
  <1>3. /\ call'[Main].pc # "stop" => call[Main].pc # "stop"
        /\ call'[Main].pc \in {"join", "destroyed"} => call'[Main].pc = call[Main].pc
    BY DEF DestructorSteps
  <1>4. StoppedIsEmpty'
    BY <1>3 DEF ShutInv, StoppedIsEmpty
  <1> QED
    BY <1>1, <1>2, <1>4 DEF ShutInv

\* A step that leaves every call where it is.
LEMMA CallsStay ==
  ASSUME TypeOK, ShutInv, mShutdown' = mShutdown, wqStopped' = wqStopped,
         \A a \in Apps : call'[a].pc = call[a].pc,
         mShutdown => (mAcceptor' => mAcceptor) /\ Listed' \subseteq Listed,
         wqStopped => wq' = wq /\ (running' => running)
  PROVE  ShutInv'
  <1> USE ConstantsOK DEF Callbacks
  <1>1. OwnerShutsDown' /\ OnlyStartersStart'
    BY DEF ShutInv, OwnerShutsDown, OnlyStartersStart
  <1>2. StoppedIsEmpty'
    BY DEF ShutInv, StoppedIsEmpty
  <1> QED
    BY <1>1, <1>2 DEF ShutInv

\* After the destructor began only callbacks call; its critical section of Stop()
\* leaves nothing listed, and RegisterWsClient, which tests mShutdown, adds nothing.
LEMMA ShutStep ==
  ASSUME TypeOK, ShutInv, [Next]_vars
  PROVE  ShutInv'
  <1> USE ConstantsOK DEF registry, clients, network, queue, bounds, Callbacks
  <1>0. call \in [Apps -> Calls]
    BY DEF TypeOK, Calls, PCs, TakenEntry
  <1>1. CASE Shutdown
    <2>1. /\ ~mShutdown /\ mShutdown' = TRUE /\ call[Main].pc = "idle"
          /\ \A a \in Apps \ Callbacks : call[a].pc = "idle"
          /\ call'[Main].pc = "stop" /\ \A a \in Apps \ {Main} : call'[a] = call[a]
          /\ UNCHANGED <<mAcceptor, mClients, wq, wqStopped, running>>
      BY <1>0, <1>1 DEF Shutdown, Calls
    <2>2. OwnerShutsDown'
      BY <2>1 DEF ShutInv, OwnerShutsDown, DestructorSteps
    <2>3. OnlyStartersStart'
      BY <2>1 DEF ShutInv, OnlyStartersStart
    <2>4. StoppedIsEmpty'
      BY <2>1 DEF ShutInv, StoppedIsEmpty
    <2> QED
      BY <2>2, <2>3, <2>4 DEF ShutInv
  <1>2. CASE WorkQueueStop
    <2>1. /\ call[Main].pc = "stopQueue" /\ call'[Main].pc = "join"
          /\ \A a \in Apps \ {Main} : call'[a] = call[a]
          /\ UNCHANGED <<mShutdown, mAcceptor, mClients, running>>
          /\ wqStopped' = TRUE /\ wq' = <<>>
      BY <1>0, <1>2 DEF WorkQueueStop, Calls
    <2>2. OwnerShutsDown'
      BY <2>1 DEF ShutInv, OwnerShutsDown, DestructorSteps
    <2>3. OnlyStartersStart'
      BY <2>1 DEF ShutInv, OnlyStartersStart
    <2>4. StoppedIsEmpty'
      BY <2>1 DEF ShutInv, StoppedIsEmpty, Listed
    <2> QED
      BY <2>2, <2>3, <2>4 DEF ShutInv
  <1>3. CASE WorkQueueJoin
    <2>1. /\ call[Main].pc = "join" /\ call'[Main].pc = "destroyed" /\ ~running
          /\ \A a \in Apps \ {Main} : call'[a] = call[a]
          /\ UNCHANGED <<mShutdown, mAcceptor, mClients, wq, wqStopped, running>>
      BY <1>0, <1>3 DEF WorkQueueJoin, Calls
    <2>2. OwnerShutsDown'
      BY <2>1 DEF ShutInv, OwnerShutsDown, DestructorSteps
    <2>3. OnlyStartersStart'
      BY <2>1 DEF ShutInv, OnlyStartersStart
    <2>4. StoppedIsEmpty'
      BY <2>1 DEF ShutInv, StoppedIsEmpty, Listed
    <2> QED
      BY <2>2, <2>3, <2>4 DEF ShutInv
  <1>4. ASSUME NEW a \in Apps, Start(a) PROVE ShutInv'
    <2>1. /\ a \in Starters /\ ~mShutdown /\ call[a].pc = "idle" /\ call'[a].pc = "starting"
          /\ \A b \in Apps \ {a} : call'[b] = call[b]
          /\ UNCHANGED <<mShutdown, mAcceptor, mClients, wq, wqStopped, running>>
      BY <1>0, <1>4 DEF Start, MayCall, Calls
    <2> QED
      BY <2>1, CallGoesOn DEF DestructorSteps, Listed
  <1>5. ASSUME NEW a \in Apps, StartLocked(a) PROVE ShutInv'
    <2>1. /\ call[a].pc = "starting" /\ call'[a].pc = "idle"
          /\ \A b \in Apps \ {a} : call'[b] = call[b]
          /\ UNCHANGED <<mShutdown, mClients, wq, wqStopped, running>>
      BY <1>0, <1>5 DEF StartLocked, Calls, Idle
    <2>2. mShutdown => a \in Callbacks /\ a # Main /\ ~NoStartInCallback
      BY <2>1 DEF NoStartInCallback, ShutInv, OwnerShutsDown, OnlyStartersStart, DestructorSteps
    <2>3. OwnerShutsDown'
      BY <2>1, <2>2 DEF ShutInv, OwnerShutsDown, DestructorSteps
    <2>4. OnlyStartersStart'
      BY <2>1 DEF ShutInv, OnlyStartersStart
    <2>5. call'[Main].pc = call[Main].pc \/ (~mShutdown' /\ call'[Main].pc = "idle")
      BY <2>1, <2>2
    <2>6. StoppedIsEmpty'
      BY <2>1, <2>2, <2>5 DEF ShutInv, StoppedIsEmpty, Listed
    <2> QED
      BY <2>3, <2>4, <2>6 DEF ShutInv
  <1>20. ASSUME NEW a \in Apps, StartFails(a) PROVE ShutInv'
    <2>1. /\ call[a].pc = "starting" /\ call'[a].pc = "idle"
          /\ \A b \in Apps \ {a} : call'[b] = call[b]
          /\ UNCHANGED <<mShutdown, mAcceptor, mClients, wq, wqStopped, running>>
      BY <1>0, <1>20 DEF StartFails, Calls, Idle
    <2>2. mShutdown => a \in Callbacks
      BY <2>1 DEF ShutInv, OwnerShutsDown, DestructorSteps
    <2> QED
      BY <2>1, <2>2, CallGoesOn DEF DestructorSteps, Listed
  <1>6. ASSUME NEW a \in Apps, StopLocked(a) PROVE ShutInv'
    <2>1. /\ MayCall(a) \/ call[a].pc = "stop"
          /\ call'[a].pc = "close" /\ \A b \in Apps \ {a} : call'[b] = call[b]
          /\ mAcceptor' = FALSE /\ mClients' = [i \in Ids |-> NoEntry]
          /\ UNCHANGED <<mShutdown, wq, wqStopped, running>>
      BY <1>0, <1>6 DEF StopLocked, Calls
    <2>2. Listed' = {}
      BY <2>1 DEF Listed
    <2>3. mShutdown => a = Main \/ a \in Callbacks
      BY <2>1 DEF MayCall, ShutInv, OwnerShutsDown, DestructorSteps
    <2>4. OwnerShutsDown'
      BY <2>1, <2>3 DEF ShutInv, OwnerShutsDown, DestructorSteps
    <2>5. OnlyStartersStart'
      BY <2>1 DEF ShutInv, OnlyStartersStart
    <2>6. StoppedIsEmpty'
      BY <2>1, <2>2 DEF ShutInv, StoppedIsEmpty
    <2> QED
      BY <2>4, <2>5, <2>6 DEF ShutInv
  <1>7. ASSUME NEW a \in Apps, NEW id \in Ids, RemoveClientLocked(a, id) PROVE ShutInv'
    <2>1. /\ MayCall(a) /\ call'[a].pc = "close" /\ \A b \in Apps \ {a} : call'[b] = call[b]
          /\ mClients' = [mClients EXCEPT ![id] = NoEntry]
          /\ UNCHANGED <<mShutdown, mAcceptor, wq, wqStopped, running>>
      BY <1>0, <1>7 DEF RemoveClientLocked, Calls
    <2>2. Listed' \subseteq Listed
      BY <2>1 DEF Listed, TypeOK
    <2> QED
      BY <2>1, <2>2, CallGoesOn DEF MayCall, DestructorSteps
  <1>8. ASSUME NEW a \in Apps, CloseSessions(a) PROVE ShutInv'
    <2>1. /\ call[a].pc = "close" /\ call'[a].pc = "notify"
          /\ \A b \in Apps \ {a} : call'[b] = call[b]
          /\ UNCHANGED <<mShutdown, mAcceptor, mClients, wq, wqStopped, running>>
      BY <1>0, <1>8 DEF CloseSessions, Calls
    <2>2. mShutdown => a = Main \/ a \in Callbacks
      BY <2>1 DEF ShutInv, OwnerShutsDown
    <2> QED
      BY <2>1, <2>2, CallGoesOn DEF DestructorSteps, Listed
  <1>9. ASSUME NEW a \in Apps, NotifyClosedSync(a) \/ Invoke(a) \/ InvokeReturn(a) PROVE ShutInv'
    <2>1. UNCHANGED <<mShutdown, mAcceptor, mClients, wq, wqStopped, running>>
      BY <1>9 DEF NotifyClosedSync, Invoke, InvokeReturn
    <2>2. /\ call[a].pc \in {"notify", "callback"} /\ call'[a].pc \in {"notify", "callback"}
          /\ \A b \in Apps \ {a} : call'[b] = call[b]
      <3>1. CASE NotifyClosedSync(a)
        BY <1>0, <3>1 DEF NotifyClosedSync, Calls
      <3>2. CASE Invoke(a)
        BY <1>0, <3>2 DEF Invoke, Calls
      <3>3. CASE InvokeReturn(a)
        BY <1>0, <3>3 DEF InvokeReturn, Calls
      <3> QED
        BY <1>9, <3>1, <3>2, <3>3
    <2>3. mShutdown => a = Main \/ a \in Callbacks
      BY <2>2 DEF ShutInv, OwnerShutsDown
    <2> QED
      BY <2>1, <2>2, <2>3, CallGoesOn DEF DestructorSteps, Listed
  <1>10. ASSUME NEW a \in Apps, Return(a) PROVE ShutInv'
    <2>1. /\ call[a].pc = "notify" /\ \A b \in Apps \ {a} : call'[b] = call[b]
          /\ call'[a].pc = IF a = Main /\ mShutdown THEN "stopQueue" ELSE "idle"
          /\ UNCHANGED <<mShutdown, mAcceptor, mClients, wq, wqStopped, running>>
      BY <1>0, <1>10 DEF Return, Calls, Idle
    <2>2. mShutdown => a = Main \/ a \in Callbacks
      BY <2>1 DEF ShutInv, OwnerShutsDown
    <2>3. CASE a = Main /\ mShutdown
      <3>1. OwnerShutsDown'
        BY <2>1, <2>3 DEF ShutInv, OwnerShutsDown, DestructorSteps
      <3>2. OnlyStartersStart'
        BY <2>1, <2>3 DEF ShutInv, OnlyStartersStart
      <3>3. StoppedIsEmpty'
        BY <2>1, <2>3 DEF ShutInv, StoppedIsEmpty, Listed
      <3> QED
        BY <3>1, <3>2, <3>3 DEF ShutInv
    <2>4. CASE ~(a = Main /\ mShutdown)
      BY <2>1, <2>2, <2>4, CallGoesOn DEF DestructorSteps, Listed
    <2> QED
      BY <2>3, <2>4
  <1>11. ASSUME NEW a \in Apps, NEW pc \in {"send", "evaluate"}, NEW todo, NEW to,
                Sends(a, pc, todo, to)
         PROVE  ShutInv'
    <2>1. /\ MayCall(a) /\ call'[a].pc = pc /\ \A b \in Apps \ {a} : call'[b] = call[b]
          /\ UNCHANGED <<mShutdown, mAcceptor, mClients, wq, wqStopped, running>>
      BY <1>0, <1>11 DEF Sends, Calls
    <2> QED
      BY <2>1, CallGoesOn DEF MayCall, DestructorSteps, Listed
  <1>12. ASSUME NEW a \in Apps, DelayedBroadcast(a) \/ SendReturn(a) PROVE ShutInv'
    <2>1. /\ call[a].pc \in {"evaluate", "send"} /\ call'[a].pc \in {"send", "idle"}
          /\ \A b \in Apps \ {a} : call'[b] = call[b]
          /\ UNCHANGED <<mShutdown, mAcceptor, mClients, wq, wqStopped, running>>
      <3>1. CASE DelayedBroadcast(a)
        BY <1>0, <3>1 DEF DelayedBroadcast, Calls
      <3>2. CASE SendReturn(a)
        BY <1>0, <3>2 DEF SendReturn, Calls, Idle
      <3> QED
        BY <1>12, <3>1, <3>2
    <2>2. mShutdown => a \in Callbacks
      BY <2>1 DEF ShutInv, OwnerShutsDown, DestructorSteps
    <2> QED
      BY <2>1, <2>2, CallGoesOn DEF DestructorSteps, Listed
  <1>13. ASSUME NEW a \in Apps, NEW u \in Uris, AddUri(a, u) \/ RemoveUri(a, u) PROVE ShutInv'
    <2>1. UNCHANGED <<mShutdown, mAcceptor, mClients, wq, wqStopped, running, call>>
      BY <1>13 DEF AddUri, RemoveUri, SetUris
    <2> QED
      BY <2>1, CallsStay DEF Listed
  <1>14. CASE AcceptorClosed \/ NextConnectionId \/ CallbackReturn \/ UNCHANGED vars
    <2>1. /\ UNCHANGED <<mShutdown, mAcceptor, mClients, wq, wqStopped, call>>
          /\ running' => running
      BY <1>14 DEF AcceptorClosed, NextConnectionId, CallbackReturn, vars
    <2> QED
      BY <2>1, CallsStay DEF Listed
  <1>15. ASSUME NEW c \in Conns, Accept(c) \/ RegisterRefused(c) \/ OnWsMessage(c) PROVE ShutInv'
    <2>1. UNCHANGED <<mShutdown, mAcceptor, mClients, wq, wqStopped, running, call>>
      BY <1>15 DEF Accept, RegisterRefused, OnWsMessage
    <2> QED
      BY <2>1, CallsStay DEF Listed
  <1>16. ASSUME NEW c \in Conns, RegisterWsClient(c) PROVE ShutInv'
    <2>1. ~mShutdown /\ UNCHANGED <<mShutdown, wq, wqStopped, running, call>>
      BY <1>16 DEF RegisterWsClient, Stopping
    <2> QED
      BY <2>1, CallsStay
  <1>17. ASSUME NEW c \in Conns, PostCallback(c) PROVE ShutInv'
    <2>1. /\ UNCHANGED <<mShutdown, mAcceptor, mClients, wqStopped, running, call>>
          /\ wqStopped => wq' = wq
      BY <1>17 DEF PostCallback
    <2> QED
      BY <2>1, CallsStay DEF Listed
  <1>18. ASSUME NEW c \in Conns, OnWsClosed(c) PROVE ShutInv'
    <2>1. /\ mClients' = [mClients EXCEPT ![cid[c]] = NoEntry]
          /\ UNCHANGED <<mShutdown, mAcceptor, wq, wqStopped, running, call>>
      BY <1>18 DEF OnWsClosed
    <2>2. Listed' \subseteq Listed
      BY <2>1 DEF Listed, TypeOK
    <2> QED
      BY <2>1, <2>2, CallsStay
  <1>19. CASE Deliver
    <2>1. ~wqStopped /\ UNCHANGED <<mShutdown, mAcceptor, mClients, wqStopped, call>>
      BY <1>19 DEF Deliver
    <2> QED
      BY <2>1, CallsStay DEF Listed
  <1> QED
    BY <1>1, <1>2, <1>3, <1>4, <1>5, <1>6, <1>7, <1>8, <1>9, <1>10, <1>11, <1>12, <1>13, <1>14,
       <1>15, <1>16, <1>17, <1>18, <1>19, <1>20, StepCases DEF SendToClient, Broadcast, DelayedSend

LEMMA ShutAlways == Spec => []ShutInv
  <1>1. Init => ShutInv
    BY ConstantsOK DEF Init, ShutInv, OwnerShutsDown, OnlyStartersStart, StoppedIsEmpty, Idle,
       DestructorSteps
  <1>2. TypeOK /\ ShutInv /\ [Next]_vars => ShutInv'
    BY ShutStep
  <1> QED
    BY <1>1, <1>2, TypeCorrect, PTL DEF Spec

\* After the destructor no client is listed and no callback is running or queued.
NothingRunsOn == Destroyed => Listed = {} /\ ~running /\ wq = <<>>

\* Whoever calls Start(), callbacks included, and however many calls and
\* connections the destructor races: it leaves no client and no callback.
THEOREM QuietAfterDestructor == Spec => []NothingRunsOn
  <1>1. ShutInv => NothingRunsOn
    BY ConstantsOK DEF ShutInv, OwnerShutsDown, StoppedIsEmpty, NothingRunsOn, Destroyed,
       DestructorSteps
  <1> QED
    BY <1>1, ShutAlways, PTL

\* If callbacks do not call Start(), the server does not listen any more either.
THEOREM ShutdownIsComplete ==
  ASSUME NoStartInCallback
  PROVE  Spec => []ShutdownComplete
  <1>1. ShutInv => ShutdownComplete
    BY ConstantsOK DEF ShutInv, OwnerShutsDown, StoppedIsEmpty, ShutdownComplete, Destroyed,
       DestructorSteps
  <1> QED
    BY <1>1, ShutAlways, PTL

-----------------------------------------------------------------------------
(***************************************************************************)
(* What the critical sections do, as the proofs below use it.              *)
(***************************************************************************)
\* An event about a client followed by the count of its uri, if it has one.
WithCount(x, u, n) == <<x>> \o (IF u = NoUri THEN <<>> ELSE ChangeEvents(u, n))

LEMMA EventThenCount ==
  ASSUME NEW x \in Event, NEW u, NEW n, NEW s, s = WithCount(x, u, n)
  PROVE  /\ s # <<>> /\ Len(s) \in Nat /\ 1 \in 1 .. Len(s) /\ s[1] = x
         /\ \A k \in 1 .. Len(s) : k = 1 \/ s[k].kind = "change"
  <1> DEFINE S == {x, Change(u, n)}
  <1>1. PICK r \in Seq(S) :
          s = <<x>> \o r /\ \A k \in 1 .. Len(r) : r[k].kind = "change"
    <2>1. CASE s = <<x>> \o <<>>
      <3>1. PICK r0 \in Seq(S) : r0 = <<>> /\ Len(r0) = 0
        BY EmptySeq
      <3>2. \A k \in 1 .. Len(r0) : r0[k].kind = "change"
        BY <3>1
      <3> QED
        BY <2>1, <3>1, <3>2
    <2>2. CASE s = <<x>> \o <<Change(u, n)>>
      <3>1. Change(u, n).kind = "change"
        BY DEF Change
      <3>2. <<Change(u, n)>> \in Seq(S) /\ \A k \in 1 .. Len(<<Change(u, n)>>) : k = 1
        OBVIOUS
      <3> QED
        BY <2>2, <3>1, <3>2
    <2> QED
      BY <2>1, <2>2 DEF WithCount, ChangeEvents
  <1>2. <<x>> \in Seq(S) /\ Len(<<x>>) = 1 /\ Len(r) \in Nat
    BY LenProperties
  <1>3. /\ Len(s) = 1 + Len(r)
        /\ \A k \in 1 .. 1 + Len(r) : s[k] = IF k <= 1 THEN <<x>>[k] ELSE r[k - 1]
    BY <1>1, <1>2, ConcatProperties
  <1>4. 1 \in 1 .. Len(s) /\ Len(s) \in Nat /\ s # <<>> /\ s[1] = x
    BY <1>2, <1>3
  <1>5. ASSUME NEW k \in 1 .. Len(s), k # 1 PROVE s[k].kind = "change"
    BY <1>1, <1>2, <1>3, <1>5
  <1> QED
    BY <1>4, <1>5

\* RegisterWsClient gives c an id that nothing carries yet.
LEMMA RegisterFacts ==
  ASSUME NoWrap, TypeOK, NextIdFresh, NEW c \in Conns, RegisterWsClient(c)
  PROVE  /\ sess[c] = "upgrading" /\ sess' = [sess EXCEPT ![c] = "open"]
         /\ allocs + 1 \in Ids /\ allocs' = allocs + 1 /\ allocs' <= MaxAllocs
         /\ mNextConnectionId = allocs + 1
         /\ cid' = [cid EXCEPT ![c] = allocs + 1]
         /\ \E u \in Uris \cup {NoUri} :
              /\ mClients' = [mClients EXCEPT ![allocs + 1] = [conn |-> c, uri |-> u]]
              /\ mUriCounts' = IF u = NoUri THEN mUriCounts ELSE [mUriCounts EXCEPT ![u] = @ + 1]
         /\ pending'[c] # <<>> /\ pending'[c][1] = Added(allocs + 1)
         /\ \A k \in 1 .. Len(pending'[c]) : k = 1 \/ pending'[c][k].kind = "change"
         /\ \A d \in Conns \ {c} : pending'[d] = pending[d]
         /\ UNCHANGED <<closeReq, wq, wqStopped, call, closedTold>>
  <1>1. allocs \in Nat /\ MaxAllocs \in Nat /\ IdSpace \in Nat /\ allocs < MaxAllocs
    BY ConstantsOK DEF TypeOK, RegisterWsClient
  <1>2. allocs + 1 < IdSpace /\ allocs + 1 # 0 /\ allocs + 1 <= MaxAllocs
    BY <1>1 DEF NoWrap
  <1>3. mNextConnectionId = allocs + 1 /\ allocs + 1 \in Ids
    BY <1>1, <1>2 DEF NextIdFresh, Ids
  <1>4. /\ sess[c] = "upgrading" /\ sess' = [sess EXCEPT ![c] = "open"]
        /\ allocs' = allocs + 1 /\ cid' = [cid EXCEPT ![c] = allocs + 1]
        /\ UNCHANGED <<closeReq, wq, wqStopped, call, closedTold>>
    BY <1>2, <1>3 DEF RegisterWsClient, queue
  <1>5. PICK u \in Uris \cup {NoUri} :
          /\ mClients' = [mClients EXCEPT ![allocs + 1] = [conn |-> c, uri |-> u]]
          /\ mUriCounts' = IF u = NoUri THEN mUriCounts ELSE [mUriCounts EXCEPT ![u] = @ + 1]
          /\ pending' = [pending EXCEPT ![c] = <<Added(allocs + 1)>> \o
                           (IF u = NoUri THEN <<>> ELSE ChangeEvents(u, mUriCounts[u] + 1))]
    BY <1>3 DEF RegisterWsClient
  <1>6. /\ pending'[c] = WithCount(Added(allocs + 1), u, mUriCounts[u] + 1)
        /\ \A d \in Conns \ {c} : pending'[d] = pending[d]
    BY <1>5 DEF TypeOK, WithCount
  <1>7. Added(allocs + 1) \in Event
    BY <1>3, EventTypes
  <1>8. /\ pending'[c] # <<>> /\ pending'[c][1] = Added(allocs + 1)
        /\ \A k \in 1 .. Len(pending'[c]) : k = 1 \/ pending'[c][k].kind = "change"
    BY <1>6, <1>7, EventThenCount
  <1> QED
    BY <1>2, <1>3, <1>4, <1>5, <1>6, <1>8

\* OnWsClosed takes a listed client out and reports it; for a client that was
\* taken out before it does nothing.
LEMMA ClosedFacts ==
  ASSUME TypeOK, NEW c \in Conns, OnWsClosed(c)
  PROVE  /\ sess[c] = "open" /\ sess' = [sess EXCEPT ![c] = "gone"] /\ pending[c] = <<>>
         /\ cid[c] \in Ids
         /\ mClients' = [mClients EXCEPT ![cid[c]] = NoEntry]
         /\ mUriCounts' = IF mClients[cid[c]] = NoEntry THEN mUriCounts
                          ELSE DecrementUriCountLocked(mClients[cid[c]].uri)
         /\ mClients[cid[c]] = NoEntry => pending'[c] = <<>>
         /\ mClients[cid[c]] # NoEntry =>
              /\ pending'[c] # <<>> /\ pending'[c][1] = Closed(cid[c])
              /\ \A k \in 1 .. Len(pending'[c]) : k = 1 \/ pending'[c][k].kind = "change"
         /\ \A d \in Conns \ {c} : pending'[d] = pending[d]
         /\ UNCHANGED <<mNextConnectionId, allocs, cid, closeReq, wq, wqStopped, call, closedTold>>
  <1>1. /\ sess[c] = "open" /\ sess' = [sess EXCEPT ![c] = "gone"] /\ pending[c] = <<>>
        /\ cid[c] \in Ids
        /\ mClients' = [mClients EXCEPT ![cid[c]] = NoEntry]
        /\ UNCHANGED <<mNextConnectionId, allocs, cid, closeReq, wq, wqStopped, call, closedTold>>
    BY DEF OnWsClosed, TypeOK, queue, bounds
  <1>2. PICK u : /\ u = IF cid[c] \in Listed THEN mClients[cid[c]].uri ELSE NoUri
                 /\ mUriCounts' = DecrementUriCountLocked(u)
                 /\ pending' = [pending EXCEPT ![c] = ClosedEvent(cid[c]) \o
                      (IF u = NoUri THEN <<>> ELSE ChangeEvents(u, mUriCounts'[u]))]
    BY DEF OnWsClosed
  <1>3. /\ pending'[c] = ClosedEvent(cid[c]) \o
                           (IF u = NoUri THEN <<>> ELSE ChangeEvents(u, mUriCounts'[u]))
        /\ \A d \in Conns \ {c} : pending'[d] = pending[d]
    BY <1>2 DEF TypeOK
  <1>4. CASE mClients[cid[c]] = NoEntry
    <2>1. u = NoUri /\ ClosedEvent(cid[c]) = <<>>
      BY <1>2, <1>4 DEF Listed, ClosedEvent
    <2>2. pending'[c] = <<>> /\ mUriCounts' = mUriCounts
      BY <1>2, <1>3, <2>1 DEF DecrementUriCountLocked
    <2> QED
      BY <1>1, <1>3, <1>4, <2>2
  <1>5. CASE mClients[cid[c]] # NoEntry
    <2>1. u = mClients[cid[c]].uri /\ ClosedEvent(cid[c]) = <<Closed(cid[c])>>
      BY <1>1, <1>2, <1>5 DEF Listed, ClosedEvent
    <2>2. Closed(cid[c]) \in Event
      BY <1>1, EventTypes
    <2>3. /\ pending'[c] # <<>> /\ pending'[c][1] = Closed(cid[c])
          /\ \A k \in 1 .. Len(pending'[c]) : k = 1 \/ pending'[c][k].kind = "change"
      <3>1. pending'[c] = WithCount(Closed(cid[c]), u, mUriCounts'[u])
        BY <1>3, <2>1 DEF WithCount
      <3> QED
        BY <2>2, <3>1, EventThenCount
    <2> QED
      BY <1>1, <1>2, <1>3, <1>5, <2>1, <2>3
  <1> QED
    BY <1>4, <1>5

\* NotifyClosedSync deals with one of the clients the call took out.
LEMMA NotifyFacts ==
  ASSUME TypeOK, NEW a \in Apps, NotifyClosedSync(a)
  PROVE  /\ call[a].pc = "notify" /\ call[a].sync = <<>>
         /\ call'[a].pc = "notify" /\ call'[a].to = call[a].to
         /\ \E e \in call[a].todo :
              /\ e \in TakenEntry /\ call'[a].todo = call[a].todo \ {e}
              /\ call'[a].sync # <<>> /\ call'[a].sync[1] = Closed(e.id)
              /\ \A k \in 1 .. Len(call'[a].sync) : k = 1 \/ call'[a].sync[k].kind = "change"
         /\ \A b \in Apps \ {a} : call'[b] = call[b]
         /\ UNCHANGED <<mNextConnectionId, allocs, mClients, mUriCounts, sess, cid, closeReq,
                        pending, wq, wqStopped, closedTold>>
  <1>0. call \in [Apps -> Calls]
    BY DEF TypeOK, Calls, PCs, TakenEntry
  <1>1. PICK e \in call[a].todo : call' = [call EXCEPT
          ![a].todo = @ \ {e},
          ![a].sync = <<Closed(e.id)>> \o
            (IF e.uri = NoUri THEN <<>> ELSE ChangeEvents(e.uri, mUriCounts[e.uri]))]
    BY DEF NotifyClosedSync
  <1>2. PICK s : s = WithCount(Closed(e.id), e.uri, mUriCounts[e.uri])
    OBVIOUS
  <1>3. call' = [call EXCEPT ![a].todo = @ \ {e}, ![a].sync = s]
    BY <1>1, <1>2 DEF WithCount
  <1>4. e \in TakenEntry
    BY <1>0 DEF Calls
  <1>5. Closed(e.id) \in Event
    BY <1>4, EventTypes DEF TakenEntry
  <1>6. /\ s # <<>> /\ s[1] = Closed(e.id)
        /\ \A k \in 1 .. Len(s) : k = 1 \/ s[k].kind = "change"
    BY <1>2, <1>5, EventThenCount
  <1>7. /\ call'[a].todo = call[a].todo \ {e} /\ call'[a].sync = s
        /\ call'[a].pc = call[a].pc /\ call'[a].to = call[a].to
        /\ \A b \in Apps \ {a} : call'[b] = call[b]
    BY <1>0, <1>3 DEF Calls
  <1>8. /\ call[a].pc = "notify" /\ call[a].sync = <<>>
        /\ UNCHANGED <<mNextConnectionId, allocs, mClients, mUriCounts, sess, cid, closeReq,
                       pending, wq, wqStopped, closedTold>>
    BY DEF NotifyClosedSync, registry, network, queue, bounds
  <1> QED
    BY <1>4, <1>6, <1>7, <1>8

\* Stop() and RemoveClient() take clients out of mClients into their call.
LEMMA TakeFacts ==
  ASSUME TypeOK, NEW a \in Apps, StopLocked(a) \/ \E id \in Ids : RemoveClientLocked(a, id)
  PROVE  /\ call[a].pc \in {"idle", "stop"} /\ call'[a].pc = "close"
         /\ call'[a].sync = call[a].sync
         /\ \A b \in Apps \ {a} : call'[b] = call[b]
         /\ \E I \in SUBSET Listed :
              /\ call'[a].todo = Taken(I)
              /\ mClients' = [i \in Ids |-> IF i \in I THEN NoEntry ELSE mClients[i]]
              /\ \/ I = Listed /\ mUriCounts' = [u \in Uris |-> 0]
                 \/ \E id \in Ids :
                      I = {id} /\ mUriCounts' = DecrementUriCountLocked(mClients[id].uri)
         /\ UNCHANGED <<mNextConnectionId, allocs, sess, cid, closeReq, pending, wq, wqStopped,
                        closedTold>>
  <1>0. call \in [Apps -> Calls]
    BY DEF TypeOK, Calls, PCs, TakenEntry
  <1>1. CASE StopLocked(a)
    <2>1. /\ call[a].pc \in {"idle", "stop"}
          /\ call' = [call EXCEPT ![a].pc = "close", ![a].todo = Taken(Listed)]
          /\ mClients' = [i \in Ids |-> NoEntry] /\ mUriCounts' = [u \in Uris |-> 0]
          /\ UNCHANGED <<mNextConnectionId, allocs, sess, cid, closeReq, pending, wq, wqStopped,
                         closedTold>>
      BY <1>1 DEF StopLocked, MayCall, CountsCleared, queue, bounds
    <2>2. mClients' = [i \in Ids |-> IF i \in Listed THEN NoEntry ELSE mClients[i]]
      BY <2>1 DEF Listed
    <2>3. /\ call'[a].pc = "close" /\ call'[a].sync = call[a].sync
          /\ call'[a].todo = Taken(Listed) /\ \A b \in Apps \ {a} : call'[b] = call[b]
      BY <1>0, <2>1 DEF Calls
    <2> QED
      BY <2>1, <2>2, <2>3
  <1>2. ASSUME NEW id \in Ids, RemoveClientLocked(a, id)
        PROVE  /\ call[a].pc = "idle" /\ call'[a].pc = "close"
               /\ call'[a].sync = call[a].sync
               /\ \A b \in Apps \ {a} : call'[b] = call[b]
               /\ {id} \in SUBSET Listed /\ call'[a].todo = Taken({id})
               /\ mClients' = [i \in Ids |-> IF i \in {id} THEN NoEntry ELSE mClients[i]]
               /\ mUriCounts' = DecrementUriCountLocked(mClients[id].uri)
               /\ UNCHANGED <<mNextConnectionId, allocs, sess, cid, closeReq, pending, wq,
                              wqStopped, closedTold>>
    <2>1. /\ call[a].pc = "idle" /\ mClients[id] # NoEntry
          /\ call' = [call EXCEPT ![a].pc = "close", ![a].todo = Taken({id})]
          /\ mClients' = [mClients EXCEPT ![id] = NoEntry]
          /\ mUriCounts' = DecrementUriCountLocked(mClients[id].uri)
          /\ UNCHANGED <<mNextConnectionId, allocs, sess, cid, closeReq, pending, wq, wqStopped,
                         closedTold>>
      BY <1>2 DEF RemoveClientLocked, MayCall, network, queue, bounds
    <2>2. mClients' = [i \in Ids |-> IF i \in {id} THEN NoEntry ELSE mClients[i]]
      BY <2>1 DEF TypeOK
    <2>3. /\ call'[a].pc = "close" /\ call'[a].sync = call[a].sync
          /\ call'[a].todo = Taken({id}) /\ \A b \in Apps \ {a} : call'[b] = call[b]
      BY <1>0, <2>1 DEF Calls
    <2> QED
      BY <2>1, <2>2, <2>3 DEF Listed
  <1> QED
    BY <1>1, <1>2

(***************************************************************************)
(* The steps by what they do to clients and events.                        *)
(***************************************************************************)
\* The step moves no client and adds no event (it may hand out an id for an
\* http request, or empty the queue).
Unseen ==
  /\ UNCHANGED <<mClients, mUriCounts, cid, pending, closedTold>>
  /\ wq' = wq \/ wq' = <<>>
  /\ allocs' \in Nat /\ allocs <= allocs'
  /\ \A c \in Conns : Live(c) \/ Live(c)' => sess'[c] = sess[c]
  /\ \A a \in Apps : /\ Taking(a)' = Taking(a) /\ call'[a].sync = call[a].sync
                     /\ call'[a].sync # <<>> /\ call[a].pc \in {"notify", "callback"} =>
                          call'[a].pc \in {"notify", "callback"}

\* No call that is about to close sessions does it in this step.
KeepsClosing ==
  /\ closeReq' = closeReq
  /\ \A a \in Apps : call[a].pc = "close" => call'[a] = call[a]

\* A call a that is not taking clients out goes on, and does not take any out.
LEMMA UnseenCall ==
  ASSUME TypeOK, \A b \in Apps : SyncShape(b), NEW a \in Apps,
         UNCHANGED <<mClients, mUriCounts, sess, cid, closeReq, pending, closedTold, allocs>>,
         wq' = wq \/ wq' = <<>>,
         \A b \in Apps \ {a} : call'[b] = call[b],
         \/ call[a].pc \notin {"close", "notify", "callback"}
         \/ call[a].pc = "notify" /\ Taking(a) = {} /\ call[a].sync = <<>>,
         call'[a].pc \notin {"close", "notify", "callback"},
         call'[a].sync = call[a].sync \/ call'[a].sync = <<>>
  PROVE  Unseen /\ KeepsClosing
  <1>1. allocs' \in Nat /\ allocs <= allocs'
    BY DEF TypeOK
  <1>2. call[a].sync = <<>> /\ call'[a].sync = <<>>
    BY DEF SyncShape
  <1>3. Taking(a)' = {} /\ Taking(a) = {}
    BY DEF Taking
  <1>4. \A b \in Apps : Taking(b)' = Taking(b)
    BY <1>3 DEF Taking
  <1> QED
    BY <1>1, <1>2, <1>4 DEF Unseen, KeepsClosing, Live

LEMMA UnseenSteps ==
  ASSUME TypeOK, \A b \in Apps : SyncShape(b), [Next]_vars
  PROVE  \/ Unseen /\ KeepsClosing
         \/ \E a \in Apps : CloseSessions(a)
         \/ \E a \in Apps : StopLocked(a) \/ \E id \in Ids : RemoveClientLocked(a, id)
         \/ \E a \in Apps : NotifyClosedSync(a)
         \/ \E a \in Apps : Invoke(a)
         \/ \E c \in Conns : RegisterWsClient(c)
         \/ \E c \in Conns : PostCallback(c)
         \/ \E c \in Conns : OnWsMessage(c)
         \/ \E c \in Conns : OnWsClosed(c)
         \/ Deliver
  <1> USE DEF registry, clients, network, queue, bounds
  <1>0. call \in [Apps -> Calls] /\ Main \in Apps
    BY ConstantsOK DEF TypeOK, Calls, PCs, TakenEntry
  <1>1. CASE Shutdown \/ WorkQueueStop \/ WorkQueueJoin
    <2>1. /\ call[Main].pc \notin {"close", "notify", "callback"}
          /\ call'[Main].pc \notin {"close", "notify", "callback"}
          /\ call'[Main].sync = call[Main].sync
          /\ \A b \in Apps \ {Main} : call'[b] = call[b]
      <3>1. CASE Shutdown
        <4>1. call[Main].pc = "idle"
          BY <3>1, ConstantsOK DEF Shutdown, Callbacks
        <4> QED
          BY <1>0, <3>1, <4>1 DEF Shutdown, Calls
      <3>2. CASE WorkQueueStop
        BY <1>0, <3>2 DEF WorkQueueStop, Calls
      <3>3. CASE WorkQueueJoin
        BY <1>0, <3>3 DEF WorkQueueJoin, Calls
      <3> QED
        BY <1>1, <3>1, <3>2, <3>3
    <2>2. /\ UNCHANGED <<mClients, mUriCounts, sess, cid, closeReq, pending, closedTold, allocs>>
          /\ wq' = wq \/ wq' = <<>>
      BY <1>1 DEF Shutdown, WorkQueueStop, WorkQueueJoin
    <2> QED
      BY <1>0, <2>1, <2>2, UnseenCall
  <1>2. ASSUME NEW a \in Apps,
               \/ Start(a) \/ StartFails(a) \/ StartLocked(a)
               \/ Return(a) \/ SendReturn(a) \/ DelayedBroadcast(a)
        PROVE  Unseen /\ KeepsClosing
    <2>1. /\ \/ call[a].pc \notin {"close", "notify", "callback"}
             \/ call[a].pc = "notify" /\ call[a].todo = {} /\ call[a].sync = <<>>
          /\ call'[a].pc \notin {"close", "notify", "callback"}
          /\ call'[a].sync = call[a].sync \/ call'[a].sync = <<>>
          /\ \A b \in Apps \ {a} : call'[b] = call[b]
      <3>1. CASE Start(a)
        BY <1>0, <3>1 DEF Start, MayCall, Calls
      <3>2. CASE StartLocked(a)
        BY <1>0, <3>2 DEF StartLocked, Idle, Calls
      <3>3. CASE Return(a)
        BY <1>0, <3>3 DEF Return, Idle, Calls
      <3>4. CASE SendReturn(a)
        BY <1>0, <3>4 DEF SendReturn, Idle, Calls
      <3>5. CASE DelayedBroadcast(a)
        BY <1>0, <3>5 DEF DelayedBroadcast, Calls
      <3>6. CASE StartFails(a)
        BY <1>0, <3>6 DEF StartFails, Idle, Calls
      <3> QED
        BY <1>2, <3>1, <3>2, <3>3, <3>4, <3>5, <3>6
    <2>2. UNCHANGED <<mClients, mUriCounts, sess, cid, closeReq, pending, closedTold, allocs, wq>>
      BY <1>2 DEF Start, StartFails, StartLocked, Return, SendReturn, DelayedBroadcast
    <2>3. call[a].pc = "notify" /\ call[a].todo = {} => Taking(a) = {}
      BY DEF Taking
    <2> QED
      BY <2>1, <2>2, <2>3, UnseenCall
  <1>10. ASSUME NEW a \in Apps, InvokeReturn(a) PROVE Unseen /\ KeepsClosing
    <2>1. /\ call[a].pc = "callback" /\ call'[a].pc = "notify"
          /\ call'[a].todo = call[a].todo /\ call'[a].sync = call[a].sync
          /\ \A b \in Apps \ {a} : call'[b] = call[b]
          /\ UNCHANGED <<mClients, mUriCounts, sess, cid, closeReq, pending, closedTold, allocs, wq>>
      BY <1>0, <1>10 DEF InvokeReturn, Calls
    <2>2. allocs' \in Nat /\ allocs <= allocs'
      BY <2>1 DEF TypeOK
    <2>3. \A b \in Apps : Taking(b)' = Taking(b)
      BY <2>1 DEF Taking
    <2> QED
      BY <2>1, <2>2, <2>3 DEF Unseen, KeepsClosing, Live
  <1>3. ASSUME NEW a \in Apps, NEW pc \in {"send", "evaluate"}, NEW todo, NEW to,
               Sends(a, pc, todo, to)
        PROVE  Unseen /\ KeepsClosing
    <2>1. /\ call[a].pc = "idle" /\ call'[a].pc = pc /\ call'[a].sync = <<>>
          /\ \A b \in Apps \ {a} : call'[b] = call[b]
          /\ UNCHANGED <<mClients, mUriCounts, sess, cid, closeReq, pending, closedTold, allocs, wq>>
      BY <1>0, <1>3 DEF Sends, MayCall
    <2> QED
      BY <2>1, UnseenCall
  <1>4. ASSUME UNCHANGED <<mClients, mUriCounts, cid, closeReq, pending, closedTold, wq, call>>,
               allocs' = allocs \/ allocs' = allocs + 1,
               \A c \in Conns : sess'[c] = sess[c] \/ (~Live(c) /\ ~Live(c)')
        PROVE  Unseen /\ KeepsClosing
    <2>1. allocs' \in Nat /\ allocs <= allocs'
      BY <1>4 DEF TypeOK
    <2>2. \A c \in Conns : Live(c) \/ Live(c)' => sess'[c] = sess[c]
      BY <1>4
    <2> QED
      BY <1>4, <2>1, <2>2 DEF Unseen, KeepsClosing, Taking
  <1>5. ASSUME NEW a \in Apps, NEW u \in Uris, AddUri(a, u) \/ RemoveUri(a, u)
        PROVE  Unseen /\ KeepsClosing
    <2>1. UNCHANGED <<mClients, mUriCounts, cid, closeReq, pending, closedTold, wq, call, sess, allocs>>
      BY <1>5 DEF AddUri, RemoveUri, SetUris
    <2> QED
      BY <1>4, <2>1
  <1>6. CASE AcceptorClosed \/ NextConnectionId \/ CallbackReturn \/ UNCHANGED vars
    <2>1. /\ UNCHANGED <<mClients, mUriCounts, cid, closeReq, pending, closedTold, wq, call, sess>>
          /\ allocs' = allocs \/ allocs' = allocs + 1
      BY <1>6 DEF AcceptorClosed, NextConnectionId, CallbackReturn, vars
    <2> QED
      BY <1>4, <2>1
  <1>7. ASSUME NEW c \in Conns, Accept(c) \/ RegisterRefused(c) PROVE Unseen /\ KeepsClosing
    <2>1. UNCHANGED <<mClients, mUriCounts, cid, closeReq, pending, closedTold, wq, call, allocs>>
      BY <1>7 DEF Accept, RegisterRefused
    <2>2. \A d \in Conns : sess'[d] = sess[d] \/ (~Live(d) /\ ~Live(d)')
      BY <1>7 DEF Accept, RegisterRefused, TypeOK, Live
    <2> QED
      BY <1>4, <2>1, <2>2
  <1>8. ASSUME NEW a \in Apps, NEW id \in Ids, SendToClient(a, id) PROVE Unseen /\ KeepsClosing
    BY <1>3, <1>8 DEF SendToClient
  <1>9. ASSUME NEW a \in Apps, NEW to \in Destinations, Broadcast(a, to) \/ DelayedSend(a, to)
        PROVE  Unseen /\ KeepsClosing
    BY <1>3, <1>9 DEF Broadcast, DelayedSend
  <1> QED
    BY <1>1, <1>2, <1>5, <1>6, <1>7, <1>8, <1>9, <1>10, StepCases, Zenon

LEMMA CloseSessionsUnseen ==
  ASSUME TypeOK, \A b \in Apps : SyncShape(b), NEW a \in Apps, CloseSessions(a)
  PROVE  Unseen
  <1>0. call \in [Apps -> Calls] /\ allocs \in Nat
    BY DEF TypeOK, Calls, PCs, TakenEntry
  <1>1. /\ call[a].pc = "close" /\ call'[a].pc = "notify" /\ call'[a].todo = call[a].todo
        /\ call'[a].sync = call[a].sync /\ \A b \in Apps \ {a} : call'[b] = call[b]
        /\ UNCHANGED <<mClients, mUriCounts, sess, cid, pending, closedTold, allocs, wq>>
    BY <1>0 DEF CloseSessions, Calls, registry, queue, bounds
  <1>2. call[a].sync = <<>>
    BY <1>1 DEF SyncShape
  <1>3. \A b \in Apps : Taking(b)' = Taking(b)
    BY <1>1 DEF Taking
  <1> QED
    BY <1>0, <1>1, <1>2, <1>3 DEF Unseen, Live

-----------------------------------------------------------------------------
(***************************************************************************)
(* Ids: each is given to one connection.                                   *)
(***************************************************************************)
LEMMA SmallMod ==
  ASSUME NEW n \in Nat, n < IdSpace
  PROVE  n % IdSpace = n
  BY ConstantsOK

LEMMA NextIdStep ==
  ASSUME TypeOK, NextIdFresh, [Next]_vars
  PROVE  NextIdFresh'
  <1> USE DEF registry, clients, network, queue, bounds
  <1>1. ASSUME allocs' = allocs, mNextConnectionId' = mNextConnectionId PROVE NextIdFresh'
    BY <1>1 DEF NextIdFresh
  <1>2. ASSUME allocs < MaxAllocs, allocs' = allocs + 1,
               mNextConnectionId' = (mNextConnectionId + 1) % IdSpace
        PROVE  NextIdFresh'
    <2>1. allocs \in Nat /\ MaxAllocs \in Nat /\ IdSpace \in Nat
      BY ConstantsOK DEF TypeOK
    <2>2. allocs' <= MaxAllocs
      BY <1>2, <2>1
    <2>3. ASSUME allocs' + 1 < IdSpace PROVE mNextConnectionId' = allocs' + 1
      <3>1. mNextConnectionId = allocs + 1
        BY <1>2, <2>1, <2>3 DEF NextIdFresh
      <3>2. allocs + 1 + 1 \in Nat /\ allocs + 1 + 1 < IdSpace
        BY <1>2, <2>1, <2>3
      <3> QED
        BY <1>2, <3>1, <3>2, SmallMod
    <2> QED
      BY <2>2, <2>3 DEF NextIdFresh
  <1>3. CASE NextConnectionId
    BY <1>2, <1>3 DEF NextConnectionId
  <1>4. CASE \E c \in Conns : RegisterWsClient(c)
    BY <1>2, <1>4 DEF RegisterWsClient
  <1>5. CASE Shutdown \/ WorkQueueStop \/ WorkQueueJoin \/ AcceptorClosed \/ Deliver
             \/ CallbackReturn \/ UNCHANGED vars
    BY <1>1, <1>5 DEF Shutdown, WorkQueueStop, WorkQueueJoin, AcceptorClosed, Deliver,
       CallbackReturn, vars
  <1>6. ASSUME NEW a \in Apps,
               \/ Start(a) \/ StartFails(a) \/ StartLocked(a) \/ StopLocked(a)
               \/ CloseSessions(a) \/ NotifyClosedSync(a) \/ Invoke(a) \/ InvokeReturn(a)
               \/ Return(a) \/ DelayedBroadcast(a) \/ SendReturn(a)
        PROVE  NextIdFresh'
    BY <1>1, <1>6 DEF Start, StartFails, StartLocked, StopLocked, CloseSessions,
       NotifyClosedSync, Invoke, InvokeReturn, Return, DelayedBroadcast, SendReturn
  <1>7. ASSUME NEW a \in Apps, NEW id \in Ids, RemoveClientLocked(a, id) \/ SendToClient(a, id)
        PROVE  NextIdFresh'
    BY <1>1, <1>7 DEF RemoveClientLocked, SendToClient, Sends
  <1>8. ASSUME NEW a \in Apps, NEW to \in Destinations, Broadcast(a, to) \/ DelayedSend(a, to)
        PROVE  NextIdFresh'
    BY <1>1, <1>8 DEF Broadcast, DelayedSend, Sends
  <1>9. ASSUME NEW a \in Apps, NEW u \in Uris, AddUri(a, u) \/ RemoveUri(a, u)
        PROVE  NextIdFresh'
    BY <1>1, <1>9 DEF AddUri, RemoveUri, SetUris
  <1>10. ASSUME NEW c \in Conns,
                Accept(c) \/ RegisterRefused(c) \/ PostCallback(c) \/ OnWsMessage(c) \/ OnWsClosed(c)
         PROVE  NextIdFresh'
    BY <1>1, <1>10 DEF Accept, RegisterRefused, PostCallback, OnWsMessage, OnWsClosed
  <1> QED
    BY <1>3, <1>4, <1>5, <1>6, <1>7, <1>8, <1>9, <1>10, StepCases, Zenon

\* What PostCallback does: the handler's next event moves to the queue, or is
\* dropped by a stopped one.
LEMMA PostFacts ==
  ASSUME TypeOK, NEW c \in Conns, PostCallback(c)
  PROVE  /\ pending[c] \in Seq(Event) /\ pending[c] # <<>> /\ pending'[c] = Tail(pending[c])
         /\ \A d \in Conns \ {c} : pending'[d] = pending[d]
         /\ wq \in Seq(Event) /\ pending[c][1] \in Event
         /\ wq' = wq \/ wq' = Append(wq, pending[c][1])
         /\ UNCHANGED <<allocs, mClients, mUriCounts, sess, cid, closeReq, call, closedTold>>
  <1>1. pending[c] \in Seq(Event) /\ pending[c] # <<>> /\ wq \in Seq(Event)
    BY DEF TypeOK, PostCallback
  <1>2. Head(pending[c]) = pending[c][1] /\ pending[c][1] \in Event
    BY <1>1, TailElements
  <1>3. wq' = wq \/ wq' = Append(wq, pending[c][1])
    BY <1>2 DEF PostCallback, Enqueue
  <1>4. /\ pending'[c] = Tail(pending[c])
        /\ \A d \in Conns \ {c} : pending'[d] = pending[d]
    BY DEF PostCallback, TypeOK
  <1>5. UNCHANGED <<allocs, mClients, mUriCounts, sess, cid, closeReq, call, closedTold>>
    BY DEF PostCallback, registry, bounds
  <1> QED
    BY <1>1, <1>2, <1>3, <1>4, <1>5

\* What Deliver does.
LEMMA DeliverFacts ==
  ASSUME TypeOK, Deliver
  PROVE  /\ wq \in Seq(Event) /\ wq # <<>> /\ wq' = Tail(wq) /\ wq[1] \in Event
         /\ Tell(wq[1])
         /\ UNCHANGED <<allocs, mClients, mUriCounts, sess, cid, closeReq, pending, call>>
  <1>1. wq \in Seq(Event) /\ wq # <<>> /\ wq' = Tail(wq)
    BY DEF TypeOK, Deliver
  <1>2. Head(wq) = wq[1] /\ wq[1] \in Event
    BY <1>1, TailElements
  <1> QED
    BY <1>1, <1>2 DEF Deliver, registry, network, bounds

\* What Invoke does.
LEMMA InvokeFacts ==
  ASSUME TypeOK, NEW a \in Apps, Invoke(a)
  PROVE  /\ call[a].sync \in Seq(Event) /\ call[a].sync # <<>> /\ call[a].sync[1] \in Event
         /\ call'[a].sync = Tail(call[a].sync) /\ Tell(call[a].sync[1])
         /\ call[a].pc = "notify" /\ call'[a].pc \in {"notify", "callback"}
         /\ call'[a].todo = call[a].todo
         /\ \A b \in Apps \ {a} : call'[b] = call[b]
         /\ UNCHANGED <<allocs, mClients, mUriCounts, sess, cid, closeReq, pending, wq>>
  <1>0. call \in [Apps -> Calls]
    BY DEF TypeOK, Calls, PCs, TakenEntry
  <1>1. call[a].sync \in Seq(Event) /\ call[a].sync # <<>>
    BY <1>0 DEF Invoke, Calls
  <1>2. Head(call[a].sync) = call[a].sync[1] /\ call[a].sync[1] \in Event
    BY <1>1, TailElements
  <1>3. /\ call'[a].sync = Tail(call[a].sync)
        /\ call[a].pc = "notify" /\ call'[a].pc \in {"notify", "callback"}
        /\ call'[a].todo = call[a].todo
        /\ \A b \in Apps \ {a} : call'[b] = call[b]
    BY <1>0 DEF Invoke, Calls
  <1>4. UNCHANGED <<allocs, mClients, mUriCounts, sess, cid, closeReq, pending, wq>>
    BY DEF Invoke, registry, network, queue, bounds
  <1> QED
    BY <1>1, <1>2, <1>3, <1>4 DEF Invoke

\* What OnWsMessage does.
LEMMA MessageFacts ==
  ASSUME TypeOK, NEW c \in Conns, OnWsMessage(c)
  PROVE  /\ sess[c] = "open" /\ pending[c] = <<>>
         /\ \E e : /\ pending'[c] = <<e>> /\ e.kind = "message" /\ e.id = cid[c]
         /\ \A d \in Conns \ {c} : pending'[d] = pending[d]
         /\ UNCHANGED <<allocs, mClients, mUriCounts, sess, cid, closeReq, wq, call, closedTold>>
  <1>1. PICK e : e = Message(cid[c], LookupReceiveCallbacks(cid[c]))
    OBVIOUS
  <1>2. e.kind = "message" /\ e.id = cid[c]
    BY <1>1 DEF Message
  <1>3. pending' = [pending EXCEPT ![c] = <<e>>]
    BY <1>1 DEF OnWsMessage
  <1>4. pending'[c] = <<e>> /\ \A d \in Conns \ {c} : pending'[d] = pending[d]
    BY <1>3 DEF TypeOK
  <1>5. UNCHANGED <<allocs, mClients, mUriCounts, sess, cid, closeReq, wq, call, closedTold>>
    BY DEF OnWsMessage, registry, queue
  <1> QED
    BY <1>2, <1>4, <1>5 DEF OnWsMessage

\* A callback that runs is counted for its client alone, if it is a closed one.
LEMMA TellFacts ==
  ASSUME TypeOK, NEW e \in Event, Tell(e)
  PROVE  \A i \in Ids : closedTold'[i] = IF ClosedOf(e, i) THEN closedTold[i] + 1 ELSE closedTold[i]
  BY DEF TypeOK, Tell, ClosedOf, Event

\* Whoever carries an id keeps it, as long as no new id is given.
LEMMA IdFrame ==
  ASSUME TypeOK, TypeOK', IdsGiven, OwnIds, ListedOpen,
         cid' = cid, allocs' \in Nat, allocs <= allocs',
         \A c \in Conns : Live(c)' => Live(c),
         \A i \in Ids : mClients'[i] # NoEntry =>
           mClients'[i] = mClients[i] /\ sess'[mClients[i].conn] = sess[mClients[i].conn],
         \A i \in Ids : closedTold'[i] # 0 => closedTold[i] # 0 \/ Given(i),
         \A k \in 1 .. Len(wq') : AboutClient(wq'[k]) => Given(wq'[k].id)
  PROVE  IdsGiven' /\ OwnIds' /\ ListedOpen'
  <1>1. \A i \in Nat : Given(i) => Given(i)'
    BY DEF Given, TypeOK
  <1>2. /\ \A i \in Ids : mClients'[i] # NoEntry \/ closedTold'[i] # 0 => Given(i)
        /\ \A c \in Conns : Live(c)' => Given(cid[c])
    BY DEF IdsGiven
  <1>3. IdsGiven'
    <2>1. \A i \in Ids : mClients'[i] # NoEntry \/ closedTold'[i] # 0 => Given(i)'
      BY <1>1, <1>2, ConstantsOK DEF Ids
    <2>2. \A c \in Conns : Live(c)' => Given(cid[c])'
      BY <1>2 DEF Given, TypeOK, Ids
    <2>3. ASSUME NEW k \in 1 .. Len(wq'), AboutClient(wq'[k])
          PROVE  1 <= wq'[k].id /\ wq'[k].id <= allocs'
      <3>1. 1 <= wq'[k].id /\ wq'[k].id <= allocs
        BY <2>3 DEF Given
      <3>2. wq' \in Seq(Event)
        BY DEF TypeOK
      <3>3. wq'[k].id \in Int
        <4>1. wq'[k] \in Event
          BY <3>2, ElementOfSeq
        <4>2. wq'[k].id \in Ids
          BY <4>1 DEF Event
        <4> QED
          BY <4>2, ConstantsOK DEF Ids
      <3>4. PICK j \in Int : j = wq'[k].id
        BY <3>3
      <3> QED
        BY <3>1, <3>4 DEF TypeOK
    <2>4. (\A k \in 1 .. Len(wq) : AboutClient(wq[k]) => Given(wq[k].id))'
      BY <2>3 DEF Given, AboutClient
    <2> QED
      BY <2>1, <2>2, <2>4 DEF IdsGiven
  <1>4. OwnIds'
    BY DEF OwnIds
  <1>5. ListedOpen'
    BY DEF ListedOpen
  <1> QED
    BY <1>3, <1>4, <1>5

LEMMA IdStep ==
  ASSUME NoWrap, TypeOK, TypeOK', IdInv, EventInv, CloseInv, [Next]_vars
  PROVE  IdInv'
  <1>0. /\ NextIdFresh' /\ NextIdFresh /\ IdsGiven /\ OwnIds /\ ListedOpen
        /\ allocs \in Nat /\ allocs <= allocs
        /\ \A c \in Conns : PendingShape(c)
        /\ \A a \in Apps : SyncShape(a)
        /\ \A i \in Ids : SomeSync(i) => Given(i)
        /\ \A k \in 1 .. Len(wq) : AboutClient(wq[k]) => Given(wq[k].id)
    BY NextIdStep DEF IdInv, IdsGiven, EventInv, CloseInv, OnePlace, TypeOK
  <1> SUFFICES IdsGiven' /\ OwnIds' /\ ListedOpen'
    BY <1>0 DEF IdInv
  <1>1. ASSUME Unseen PROVE IdsGiven' /\ OwnIds' /\ ListedOpen'
    <2>1. \A k \in 1 .. Len(wq') : AboutClient(wq'[k]) => Given(wq'[k].id)
      BY <1>0, <1>1 DEF Unseen
    <2>2. /\ \A c \in Conns : Live(c)' => Live(c)
          /\ cid' = cid /\ mClients' = mClients /\ closedTold' = closedTold
          /\ allocs' \in Nat /\ allocs <= allocs'
      BY <1>1 DEF Unseen, Live
    <2>3. \A i \in Ids : mClients[i] # NoEntry => sess'[mClients[i].conn] = sess[mClients[i].conn]
      BY <1>0, <1>1 DEF Unseen, ListedOpen, Live, TypeOK, Entry
    <2> QED
      BY <1>0, <2>1, <2>2, <2>3, IdFrame
  <1>2. ASSUME NEW a \in Apps, StopLocked(a) \/ \E id \in Ids : RemoveClientLocked(a, id)
        PROVE  IdsGiven' /\ OwnIds' /\ ListedOpen'
    <2>1. \A i \in Ids : mClients'[i] # NoEntry => mClients'[i] = mClients[i]
      BY <1>2, TakeFacts
    <2>2. UNCHANGED <<allocs, sess, cid, wq, closedTold>>
      BY <1>2, TakeFacts
    <2> QED
      BY <1>0, <2>1, <2>2, IdFrame DEF Live
  <1>3. ASSUME UNCHANGED <<allocs, mClients, sess, cid, wq, closedTold>>
        PROVE  IdsGiven' /\ OwnIds' /\ ListedOpen'
    BY <1>0, <1>3, IdFrame DEF Live
  <1>4. ASSUME NEW a \in Apps, Invoke(a) PROVE IdsGiven' /\ OwnIds' /\ ListedOpen'
    <2>1. /\ call[a].sync # <<>> /\ call[a].sync[1] \in Event /\ Tell(call[a].sync[1])
          /\ UNCHANGED <<allocs, mClients, sess, cid, wq>>
      BY <1>4, InvokeFacts
    <2>2. ASSUME NEW i \in Ids, closedTold'[i] # 0 PROVE closedTold[i] # 0 \/ Given(i)
      <3>1. CASE ClosedOf(call[a].sync[1], i)
        BY <1>0, <2>1, <3>1 DEF SomeSync, InSync
      <3>2. CASE ~ClosedOf(call[a].sync[1], i)
        BY <2>1, <2>2, <3>2, TellFacts
      <3> QED
        BY <3>1, <3>2
    <2> QED
      BY <1>0, <2>1, <2>2, IdFrame DEF Live
  <1>5. ASSUME NEW c \in Conns, RegisterWsClient(c) PROVE IdsGiven' /\ OwnIds' /\ ListedOpen'
    <2>1. /\ sess[c] = "upgrading" /\ sess' = [sess EXCEPT ![c] = "open"]
          /\ allocs + 1 \in Ids /\ allocs' = allocs + 1
          /\ cid' = [cid EXCEPT ![c] = allocs + 1]
          /\ UNCHANGED <<wq, closedTold>>
      BY <1>0, <1>5, RegisterFacts
    <2>2. PICK u : mClients' = [mClients EXCEPT ![allocs + 1] = [conn |-> c, uri |-> u]]
      BY <1>0, <1>5, RegisterFacts
    <2>3. /\ ~Live(c) /\ Live(c)' /\ sess'[c] = "open" /\ cid'[c] = allocs + 1
          /\ \A d \in Conns \ {c} : (Live(d)' <=> Live(d)) /\ cid'[d] = cid[d] /\ sess'[d] = sess[d]
          /\ mClients'[allocs + 1] = [conn |-> c, uri |-> u]
          /\ \A i \in Ids \ {allocs + 1} : mClients'[i] = mClients[i]
      BY <2>1, <2>2 DEF Live, TypeOK
    <2>4. /\ \A i \in Ids : Given(i) => 1 <= i /\ i <= allocs' /\ i # allocs + 1
          /\ 1 <= allocs + 1 /\ allocs + 1 <= allocs'
      BY <1>0, <2>1, ConstantsOK DEF Given, Ids
    <2>5. IdsGiven'
      <3>1. \A i \in Ids : mClients'[i] # NoEntry \/ closedTold'[i] # 0 => Given(i)'
        <4>1. ASSUME NEW i \in Ids, mClients'[i] # NoEntry \/ closedTold'[i] # 0
              PROVE  i = allocs + 1 \/ Given(i)
          BY <1>0, <2>1, <2>3, <4>1 DEF IdsGiven
        <4> QED
          BY <2>4, <4>1 DEF Given
      <3>2. \A d \in Conns : Live(d)' => Given(cid[d])'
        <4>1. ASSUME NEW d \in Conns, Live(d)', d # c PROVE Given(cid[d])'
          <5>1. cid[d] \in Ids /\ Given(cid[d]) /\ cid'[d] = cid[d]
            BY <1>0, <2>3, <4>1 DEF TypeOK, IdsGiven
          <5> QED
            BY <2>4, <5>1 DEF Given
        <4>2. Given(cid[c])'
          BY <2>3, <2>4 DEF Given
        <4> QED
          BY <4>1, <4>2
      <3>3. ASSUME NEW k \in 1 .. Len(wq), AboutClient(wq[k]) PROVE Given(wq[k].id)'
        <4>1. wq \in Seq(Event)
          BY DEF TypeOK
        <4>2. wq[k].id \in Ids /\ wq' = wq
          <5>1. wq[k] \in Event
            BY <3>3, <4>1, ElementOfSeq
          <5> QED
            BY <2>1, <5>1 DEF Event
        <4>3. Given(wq[k].id)
          BY <1>0, <3>3
        <4> QED
          BY <2>4, <4>2, <4>3 DEF Given
      <3>4. (\A k \in 1 .. Len(wq) : AboutClient(wq[k]) => Given(wq[k].id))'
        BY <2>1, <3>3 DEF AboutClient
      <3> QED
        BY <3>1, <3>2, <3>4 DEF IdsGiven
    <2>6. OwnIds'
      <3>1. ASSUME NEW d \in Conns, Live(d) PROVE cid[d] # allocs + 1
        BY <1>0, <2>4, <3>1 DEF IdsGiven, TypeOK
      <3> QED
        BY <1>0, <2>3, <3>1 DEF OwnIds
    <2>7. ListedOpen'
      <3>1. ASSUME NEW i \in Ids, mClients'[i] # NoEntry
            PROVE  sess'[mClients'[i].conn] = "open" /\ cid'[mClients'[i].conn] = i
        <4>1. CASE i = allocs + 1
          BY <2>3, <4>1
        <4>2. CASE i # allocs + 1
          <5>1. /\ mClients'[i] = mClients[i] /\ mClients[i].conn \in Conns
                /\ sess[mClients[i].conn] = "open" /\ cid[mClients[i].conn] = i
            BY <1>0, <2>3, <3>1, <4>2 DEF ListedOpen, TypeOK, Entry
          <5> QED
            BY <2>1, <2>3, <5>1
        <4> QED
          BY <4>1, <4>2
      <3> QED
        BY <3>1 DEF ListedOpen
    <2> QED
      BY <2>5, <2>6, <2>7
  <1>6. ASSUME NEW c \in Conns, PostCallback(c) PROVE IdsGiven' /\ OwnIds' /\ ListedOpen'
    <2>1. /\ pending[c] \in Seq(Event) /\ pending[c] # <<>> /\ wq \in Seq(Event)
          /\ wq' = wq \/ wq' = Append(wq, pending[c][1])
          /\ pending[c][1] \in Event
          /\ UNCHANGED <<allocs, mClients, sess, cid, closedTold>>
      BY <1>6, PostFacts
    <2>2. AboutClient(pending[c][1]) => Given(pending[c][1].id)
      <3>1. 1 \in 1 .. Len(pending[c])
        BY <2>1, TailElements
      <3> QED
        BY <1>0, <2>1, <3>1 DEF PendingShape, IdsGiven
    <2>3. \A k \in 1 .. Len(wq') : AboutClient(wq'[k]) => Given(wq'[k].id)
      <3>1. CASE wq' = wq
        BY <1>0, <3>1
      <3>2. CASE wq' = Append(wq, pending[c][1])
        BY <1>0, <2>1, <2>2, <3>2, AppendedElements
      <3> QED
        BY <2>1, <3>1, <3>2
    <2> QED
      BY <1>0, <2>1, <2>3, IdFrame DEF Live
  <1>7. ASSUME NEW c \in Conns, OnWsClosed(c) PROVE IdsGiven' /\ OwnIds' /\ ListedOpen'
    <2>1. /\ sess[c] = "open" /\ sess' = [sess EXCEPT ![c] = "gone"] /\ cid[c] \in Ids
          /\ mClients' = [mClients EXCEPT ![cid[c]] = NoEntry]
          /\ UNCHANGED <<allocs, cid, wq, closedTold>>
      BY <1>7, ClosedFacts
    <2>2. \A d \in Conns : Live(d)' => Live(d)
      BY <2>1 DEF Live, TypeOK
    <2>3. ASSUME NEW i \in Ids, mClients'[i] # NoEntry
          PROVE  mClients'[i] = mClients[i] /\ sess'[mClients[i].conn] = sess[mClients[i].conn]
      <3>1. i # cid[c] /\ mClients'[i] = mClients[i] /\ mClients[i].conn \in Conns
        BY <2>1, <2>3 DEF TypeOK, Entry
      <3>2. cid[mClients[i].conn] = i
        BY <1>0, <2>3, <3>1 DEF ListedOpen
      <3> QED
        BY <2>1, <3>1, <3>2 DEF TypeOK
    <2> QED
      BY <1>0, <2>1, <2>2, <2>3, IdFrame
  <1>8. CASE Deliver
    <2>1. /\ wq \in Seq(Event) /\ wq # <<>> /\ wq' = Tail(wq) /\ wq[1] \in Event /\ Tell(wq[1])
          /\ UNCHANGED <<allocs, mClients, sess, cid>>
      BY <1>8, DeliverFacts
    <2>2. ASSUME NEW i \in Ids, closedTold'[i] # 0 PROVE closedTold[i] # 0 \/ Given(i)
      <3>1. CASE ClosedOf(wq[1], i)
        <4>1. 1 \in 1 .. Len(wq)
          BY <2>1, TailElements
        <4> QED
          BY <1>0, <3>1, <4>1 DEF ClosedOf, AboutClient
      <3>2. CASE ~ClosedOf(wq[1], i)
        BY <2>1, <2>2, <3>2, TellFacts
      <3> QED
        BY <3>1, <3>2
    <2>3. \A k \in 1 .. Len(wq') : AboutClient(wq'[k]) => Given(wq'[k].id)
      BY <1>0, <2>1, TailElements
    <2> QED
      BY <1>0, <2>1, <2>2, <2>3, IdFrame DEF Live
  <1>9. ASSUME NEW a \in Apps, CloseSessions(a) PROVE Unseen
    BY <1>0, <1>9, CloseSessionsUnseen
  <1>10. ASSUME NEW a \in Apps, NotifyClosedSync(a) PROVE IdsGiven' /\ OwnIds' /\ ListedOpen'
    BY <1>3, <1>10, NotifyFacts
  <1>11. ASSUME NEW c \in Conns, OnWsMessage(c) PROVE IdsGiven' /\ OwnIds' /\ ListedOpen'
    BY <1>3, <1>11, MessageFacts
  <1> QED
    BY <1>0, <1>1, <1>2, <1>4, <1>5, <1>6, <1>7, <1>8, <1>9, <1>10, <1>11, UnseenSteps, Zenon

-----------------------------------------------------------------------------
(***************************************************************************)
(* Events: what a handler has to post, what a call has to run, and what is *)
(* in the queue.                                                           *)
(***************************************************************************)
LEMMA SyncStep ==
  ASSUME TypeOK, \A b \in Apps : SyncShape(b), [Next]_vars
  PROVE  (\A b \in Apps : SyncShape(b))'
  <1>1. ASSUME Unseen PROVE (\A b \in Apps : SyncShape(b))'
    BY <1>1 DEF Unseen, SyncShape
  <1>2. ASSUME NEW a \in Apps, StopLocked(a) \/ \E id \in Ids : RemoveClientLocked(a, id)
        PROVE  (\A b \in Apps : SyncShape(b))'
    <2>1. /\ call[a].pc \in {"idle", "stop"} /\ call'[a].sync = call[a].sync
          /\ \A b \in Apps \ {a} : call'[b] = call[b]
      BY <1>2, TakeFacts
    <2>2. call'[a].sync = <<>>
      BY <2>1 DEF SyncShape
    <2>3. \A b \in Apps : call'[b] = call[b] \/ call'[b].sync = <<>>
      BY <2>1, <2>2
    <2>4. ASSUME NEW b \in Apps PROVE SyncShape(b)'
      <3>1. CASE call'[b] = call[b]
        BY <3>1 DEF SyncShape
      <3>2. CASE call'[b].sync = <<>>
        <4>1. \A k \in 1 .. Len(call'[b].sync) : FALSE
          BY <3>2
        <4> QED
          BY <3>2, <4>1 DEF SyncShape
      <3> QED
        BY <2>3, <3>1, <3>2
    <2> QED
      BY <2>4
  <1>3. ASSUME NEW a \in Apps, NotifyClosedSync(a) PROVE (\A b \in Apps : SyncShape(b))'
    <2>1. /\ call'[a].pc = "notify" /\ \A b \in Apps \ {a} : call'[b] = call[b]
          /\ \A k \in 1 .. Len(call'[a].sync) : k = 1 \/ call'[a].sync[k].kind = "change"
      BY <1>3, NotifyFacts
    <2> QED
      BY <2>1 DEF SyncShape
  <1>4. ASSUME NEW a \in Apps, Invoke(a) PROVE (\A b \in Apps : SyncShape(b))'
    <2>1. /\ call[a].sync \in Seq(Event) /\ call[a].sync # <<>>
          /\ call'[a].sync = Tail(call[a].sync)
          /\ \A b \in Apps \ {a} : call'[b] = call[b]
      BY <1>4, InvokeFacts
    <2>2. call'[a].pc \in {"notify", "callback"}
      BY <1>4, InvokeFacts
    <2>3. \A k \in 1 .. Len(call'[a].sync) : call'[a].sync[k].kind # "closed"
      <3>1. ASSUME NEW k \in 1 .. Len(Tail(call[a].sync)) PROVE Tail(call[a].sync)[k].kind # "closed"
        <4>1. k + 1 \in 1 .. Len(call[a].sync) /\ Tail(call[a].sync)[k] = call[a].sync[k + 1]
          BY <2>1, TailElements
        <4>2. k + 1 # 1
          BY <4>1
        <4> QED
          BY <4>1, <4>2 DEF SyncShape
      <3> QED
        BY <2>1, <3>1
    <2>4. SyncShape(a)'
      BY <2>2, <2>3 DEF SyncShape
    <2>5. \A b \in Apps \ {a} : SyncShape(b)'
      BY <2>1 DEF SyncShape
    <2> QED
      BY <2>4, <2>5
  <1>5. ASSUME call' = call PROVE (\A b \in Apps : SyncShape(b))'
    BY <1>5 DEF SyncShape
  <1>6. ASSUME NEW c \in Conns, RegisterWsClient(c) \/ PostCallback(c) \/ OnWsMessage(c) \/ OnWsClosed(c)
        PROVE  call' = call
    BY <1>6 DEF RegisterWsClient, PostCallback, OnWsMessage, OnWsClosed
  <1>7. ASSUME Deliver PROVE call' = call
    BY <1>7 DEF Deliver
  <1>8. ASSUME NEW a \in Apps, CloseSessions(a) PROVE Unseen
    BY <1>8, CloseSessionsUnseen
  <1> QED
    BY <1>1, <1>2, <1>3, <1>4, <1>5, <1>6, <1>7, <1>8, UnseenSteps, Zenon

\* The queue carries nothing about c's client.
NotQueued(c) == \A j \in 1 .. Len(wq) : AboutClient(wq[j]) => wq[j].id # cid[c]

\* A handler's events stay as they are, and the queue gets none about its client.
LEMMA PendingFrame ==
  ASSUME NEW c \in Conns, PendingShape(c), pending'[c] = pending[c], cid'[c] = cid[c],
         Live(c) => Live(c)', NotQueued(c) /\ pending[c] # <<>> => NotQueued(c)'
  PROVE  PendingShape(c)'
  <1>1. ~Live(c)' => pending'[c] = <<>>
    BY DEF PendingShape
  <1>2. ASSUME NEW k \in 1 .. Len(pending[c]), AboutClient(pending[c][k])
        PROVE  /\ k = 1 /\ pending[c][k].id = cid[c]
               /\ pending[c][k].kind = "added" => NotQueued(c)'
    <2>1. /\ k = 1 /\ pending[c][k].id = cid[c]
          /\ pending[c][k].kind = "added" => NotQueued(c)
      BY <1>2 DEF PendingShape, NotQueued
    <2>2. pending[c] # <<>>
      BY <1>2
    <2> QED
      BY <2>1, <2>2
  <1> QED
    BY <1>1, <1>2 DEF PendingShape, NotQueued, AboutClient

LEMMA PendingStep ==
  ASSUME NoWrap, TypeOK, IdInv, EventInv, [Next]_vars
  PROVE  (\A c \in Conns : PendingShape(c))'
  <1>0. /\ NextIdFresh /\ IdsGiven /\ OwnIds
        /\ \A c \in Conns : PendingShape(c)
        /\ \A a \in Apps : SyncShape(a)
        /\ wq \in Seq(Event) /\ allocs \in Nat
    BY DEF IdInv, EventInv, TypeOK
  <1>1. ASSUME Unseen PROVE (\A c \in Conns : PendingShape(c))'
    <2>1. ASSUME NEW c \in Conns PROVE PendingShape(c)'
      <3>1. pending'[c] = pending[c] /\ cid'[c] = cid[c] /\ (Live(c) => Live(c)')
        BY <1>1 DEF Unseen, Live
      <3>2. NotQueued(c) => NotQueued(c)'
        <4>1. CASE wq' = wq
          BY <3>1, <4>1 DEF NotQueued, AboutClient
        <4>2. CASE wq' = <<>>
          BY <4>2 DEF NotQueued
        <4> QED
          BY <1>1, <4>1, <4>2 DEF Unseen
      <3> QED
        BY <1>0, <3>1, <3>2, PendingFrame
    <2> QED
      BY <2>1
  <1>2. ASSUME UNCHANGED <<pending, cid, sess, wq>> PROVE (\A c \in Conns : PendingShape(c))'
    BY <1>0, <1>2 DEF PendingShape, Live, AboutClient
  <1>3. ASSUME NEW c \in Conns, RegisterWsClient(c) PROVE (\A d \in Conns : PendingShape(d))'
    <2>1. /\ sess[c] = "upgrading" /\ sess' = [sess EXCEPT ![c] = "open"]
          /\ cid' = [cid EXCEPT ![c] = allocs + 1] /\ wq' = wq
          /\ pending'[c] # <<>> /\ pending'[c][1] = Added(allocs + 1)
          /\ \A k \in 1 .. Len(pending'[c]) : k = 1 \/ pending'[c][k].kind = "change"
          /\ \A d \in Conns \ {c} : pending'[d] = pending[d]
      BY <1>0, <1>3, RegisterFacts
    <2>2. /\ cid'[c] = allocs + 1 /\ Live(c)'
          /\ \A d \in Conns \ {c} : cid'[d] = cid[d] /\ (Live(d)' <=> Live(d))
      BY <2>1 DEF TypeOK, Live
    <2>3. ASSUME NEW d \in Conns \ {c} PROVE PendingShape(d)'
      <3>1. NotQueued(d) => NotQueued(d)'
        BY <2>1, <2>2 DEF NotQueued, AboutClient
      <3> QED
        BY <1>0, <2>1, <2>2, <3>1, PendingFrame
    <2>4. NotQueued(c)'
      <3>1. ASSUME NEW j \in 1 .. Len(wq), AboutClient(wq[j]) PROVE wq[j].id # allocs + 1
        BY <1>0, <3>1 DEF IdsGiven, Given
      <3> QED
        BY <2>1, <2>2, <3>1 DEF NotQueued, AboutClient
    <2>5. ASSUME NEW k \in 1 .. Len(pending'[c]), AboutClient(pending'[c][k])
          PROVE  k = 1 /\ pending'[c][k].id = cid'[c]
      <3>1. k = 1
        BY <2>1, <2>5 DEF AboutClient
      <3> QED
        BY <2>1, <2>2, <3>1 DEF Added
    <2>6. PendingShape(c)'
      BY <2>2, <2>4, <2>5 DEF PendingShape, NotQueued, AboutClient
    <2> QED
      BY <2>3, <2>6
  <1>4. ASSUME NEW c \in Conns, PostCallback(c) PROVE (\A d \in Conns : PendingShape(d))'
    <2>1. /\ pending[c] \in Seq(Event) /\ pending[c] # <<>> /\ pending'[c] = Tail(pending[c])
          /\ \A d \in Conns \ {c} : pending'[d] = pending[d]
          /\ wq' = wq \/ wq' = Append(wq, pending[c][1])
          /\ pending[c][1] \in Event
          /\ UNCHANGED <<sess, cid>>
      BY <1>4, PostFacts
    <2>2. 1 \in 1 .. Len(pending[c])
      BY <2>1, TailElements
    <2>3. Live(c) /\ (AboutClient(pending[c][1]) => pending[c][1].id = cid[c])
      BY <1>0, <2>1, <2>2 DEF PendingShape
    <2>4. ASSUME NEW d \in Conns \ {c} PROVE PendingShape(d)'
      <3>1. ASSUME NotQueued(d), pending[d] # <<>> PROVE NotQueued(d)'
        <4>1. Live(d)
          BY <1>0, <3>1 DEF PendingShape
        <4>2. cid[d] # cid[c]
          BY <1>0, <2>3, <4>1 DEF OwnIds
        <4>3. ASSUME NEW j \in 1 .. Len(wq'), AboutClient(wq'[j]) PROVE wq'[j].id # cid[d]
          <5>1. CASE wq' = wq
            BY <3>1, <4>3, <5>1 DEF NotQueued
          <5>2. CASE wq' = Append(wq, pending[c][1])
            <6>1. (j \in 1 .. Len(wq) /\ wq'[j] = wq[j]) \/ wq'[j] = pending[c][1]
              BY <1>0, <2>1, <5>2, AppendedElements
            <6> QED
              BY <2>3, <3>1, <4>2, <4>3, <6>1 DEF NotQueued
          <5> QED
            BY <2>1, <5>1, <5>2
        <4> QED
          BY <2>1, <4>3 DEF NotQueued, AboutClient
      <3> QED
        BY <1>0, <2>1, <3>1, PendingFrame DEF Live
    <2>5. PendingShape(c)'
      <3>1. ASSUME NEW k \in 1 .. Len(Tail(pending[c])) PROVE ~AboutClient(Tail(pending[c])[k])
        <4>1. k + 1 \in 1 .. Len(pending[c]) /\ Tail(pending[c])[k] = pending[c][k + 1]
          BY <2>1, TailElements
        <4>2. k + 1 # 1
          BY <4>1
        <4> QED
          BY <1>0, <4>1, <4>2 DEF PendingShape
      <3>2. \A k \in 1 .. Len(pending'[c]) : ~AboutClient(pending'[c][k])
        BY <2>1, <3>1
      <3>3. Live(c)'
        BY <2>1, <2>3 DEF Live
      <3> QED
        BY <3>2, <3>3 DEF PendingShape, AboutClient
    <2> QED
      BY <2>4, <2>5
  <1>5. ASSUME NEW c \in Conns, OnWsMessage(c) PROVE (\A d \in Conns : PendingShape(d))'
    <2>1. /\ sess[c] = "open" /\ \A d \in Conns \ {c} : pending'[d] = pending[d]
          /\ UNCHANGED <<sess, cid, wq>>
      BY <1>5, MessageFacts
    <2>2. PICK e : pending'[c] = <<e>> /\ e.kind = "message" /\ e.id = cid[c]
      BY <1>5, MessageFacts
    <2>3. ASSUME NEW d \in Conns \ {c} PROVE PendingShape(d)'
      BY <1>0, <2>1, PendingFrame DEF Live, NotQueued, AboutClient
    <2>4. \A k \in 1 .. Len(pending'[c]) : k = 1 /\ pending'[c][k] = e
      BY <2>2
    <2>5. PendingShape(c)'
      BY <2>1, <2>2, <2>4 DEF PendingShape, Live
    <2> QED
      BY <2>3, <2>5
  <1>6. ASSUME NEW c \in Conns, OnWsClosed(c) PROVE (\A d \in Conns : PendingShape(d))'
    <2>1. /\ sess[c] = "open" /\ sess' = [sess EXCEPT ![c] = "gone"]
          /\ UNCHANGED <<cid, wq>>
          /\ \A d \in Conns \ {c} : pending'[d] = pending[d]
          /\ mClients[cid[c]] = NoEntry => pending'[c] = <<>>
          /\ mClients[cid[c]] # NoEntry =>
               /\ pending'[c] # <<>> /\ pending'[c][1] = Closed(cid[c])
               /\ \A k \in 1 .. Len(pending'[c]) : k = 1 \/ pending'[c][k].kind = "change"
      BY <1>6, ClosedFacts
    <2>2. Live(c)' /\ \A d \in Conns : Live(d)' <=> Live(d)
      BY <2>1 DEF TypeOK, Live
    <2>3. ASSUME NEW d \in Conns \ {c} PROVE PendingShape(d)'
      BY <1>0, <2>1, <2>2, PendingFrame DEF NotQueued, AboutClient
    <2>4. ASSUME NEW k \in 1 .. Len(pending'[c]), AboutClient(pending'[c][k])
          PROVE  k = 1 /\ pending'[c][k].id = cid[c] /\ pending'[c][k].kind # "added"
      <3>1. mClients[cid[c]] # NoEntry
        BY <2>1, <2>4
      <3>2. k = 1 /\ pending'[c][1] = Closed(cid[c])
        BY <2>1, <2>4, <3>1 DEF AboutClient
      <3> QED
        BY <3>2 DEF Closed
    <2>5. PendingShape(c)'
      BY <2>1, <2>2, <2>4 DEF PendingShape, AboutClient
    <2> QED
      BY <2>3, <2>5
  <1>7. CASE Deliver
    <2>1. /\ wq # <<>> /\ wq' = Tail(wq)
          /\ UNCHANGED <<sess, cid, pending>>
      BY <1>7, DeliverFacts
    <2>2. ASSUME NEW c \in Conns, NotQueued(c) PROVE NotQueued(c)'
      <3>1. \A j \in 1 .. Len(wq') : AboutClient(wq'[j]) => wq'[j].id # cid[c]
        BY <1>0, <2>1, <2>2, TailElements DEF NotQueued
      <3> QED
        BY <2>1, <3>1 DEF NotQueued, AboutClient
    <2>3. ASSUME NEW c \in Conns PROVE PendingShape(c)'
      BY <1>0, <2>1, <2>2, PendingFrame DEF Live
    <2> QED
      BY <2>3
  <1>8. ASSUME NEW a \in Apps,
               \/ StopLocked(a) \/ \E id \in Ids : RemoveClientLocked(a, id)
               \/ NotifyClosedSync(a) \/ Invoke(a)
        PROVE  (\A c \in Conns : PendingShape(c))'
    BY <1>2, <1>8, TakeFacts, NotifyFacts, InvokeFacts
  <1>9. ASSUME NEW a \in Apps, CloseSessions(a) PROVE Unseen
    BY <1>0, <1>9, CloseSessionsUnseen
  <1> QED
    BY <1>0, <1>1, <1>3, <1>4, <1>5, <1>6, <1>7, <1>8, <1>9, UnseenSteps, Zenon

\* Nothing the queue or a handler holds adds a client after an event about it.
NoLaterAdded(k) ==
  /\ \A j \in k + 1 .. Len(wq) : wq[j] # Added(wq[k].id)
  /\ \A c \in Conns : \A j \in 1 .. Len(pending[c]) : pending[c][j] # Added(wq[k].id)

LEMMA AddedFirstAs ==
  AddedFirst <=> \A k \in 1 .. Len(wq) : wq[k].kind \in {"closed", "message"} => NoLaterAdded(k)
  BY DEF AddedFirst, NoLaterAdded, Contains

LEMMA AddedStep ==
  ASSUME NoWrap, TypeOK, IdInv, EventInv, [Next]_vars
  PROVE  AddedFirst'
  <1> DEFINE Told(e) == e.kind \in {"closed", "message"}
  <1>0. /\ NextIdFresh /\ IdsGiven /\ OwnIds
        /\ \A c \in Conns : PendingShape(c)
        /\ \A a \in Apps : SyncShape(a)
        /\ \A k \in 1 .. Len(wq) : Told(wq[k]) => NoLaterAdded(k)
        /\ wq \in Seq(Event) /\ allocs \in Nat /\ Len(wq) \in Nat
    BY AddedFirstAs, LenProperties DEF IdInv, EventInv, TypeOK
  <1> SUFFICES ASSUME NEW k \in 1 .. Len(wq'), Told(wq'[k])
               PROVE  /\ \A j \in k + 1 .. Len(wq') : wq'[j] # Added(wq'[k].id)
                      /\ \A c \in Conns : \A j \in 1 .. Len(pending'[c]) :
                           pending'[c][j] # Added(wq'[k].id)
    BY DEF AddedFirst, Contains, Added
  <1> DEFINE Goal == /\ \A j \in k + 1 .. Len(wq') : wq'[j] # Added(wq'[k].id)
                     /\ \A c \in Conns : \A j \in 1 .. Len(pending'[c]) :
                          pending'[c][j] # Added(wq'[k].id)
  <1>1. \A i : Added(i).kind = "added" /\ Added(i).id = i /\ AboutClient(Added(i)) /\ ~Told(Added(i))
    BY DEF Added, AboutClient
  <1>2. ASSUME wq' = wq,
               \A c \in Conns : \/ pending'[c] = pending[c]
                                \/ \A j \in 1 .. Len(pending'[c]) : pending'[c][j] # Added(wq[k].id)
        PROVE  Goal
    BY <1>0, <1>2 DEF NoLaterAdded
  <1>3. ASSUME Unseen PROVE Goal
    <2>1. CASE wq' = <<>>
      BY <2>1
    <2>2. CASE wq' = wq
      BY <1>2, <1>3, <2>2 DEF Unseen
    <2> QED
      BY <1>3, <2>1, <2>2 DEF Unseen
  <1>4. ASSUME NEW c \in Conns, RegisterWsClient(c) PROVE Goal
    <2>1. /\ wq' = wq
          /\ pending'[c][1] = Added(allocs + 1)
          /\ \A j \in 1 .. Len(pending'[c]) : j = 1 \/ pending'[c][j].kind = "change"
          /\ \A d \in Conns \ {c} : pending'[d] = pending[d]
      BY <1>0, <1>4, RegisterFacts
    <2>2. wq[k].id # allocs + 1
      <3>1. k \in 1 .. Len(wq) /\ AboutClient(wq[k])
        BY <2>1 DEF AboutClient
      <3> QED
        BY <1>0, <3>1 DEF IdsGiven, Given
    <2>3. \A j \in 1 .. Len(pending'[c]) : pending'[c][j] # Added(wq[k].id)
      BY <1>1, <2>1, <2>2
    <2> QED
      BY <1>2, <2>1, <2>3
  <1>5. ASSUME NEW c \in Conns, PostCallback(c) PROVE Goal
    <2>1. /\ pending[c] \in Seq(Event) /\ pending[c] # <<>> /\ pending'[c] = Tail(pending[c])
          /\ \A d \in Conns \ {c} : pending'[d] = pending[d]
          /\ wq' = wq \/ wq' = Append(wq, pending[c][1])
          /\ pending[c][1] \in Event
      BY <1>5, PostFacts
    <2>2. /\ 1 \in 1 .. Len(pending[c])
          /\ \A j \in 1 .. Len(pending'[c]) :
               j + 1 \in 1 .. Len(pending[c]) /\ pending'[c][j] = pending[c][j + 1]
      BY <2>1, TailElements
    <2>3. ASSUME NEW i, \A d \in Conns : \A j \in 1 .. Len(pending[d]) : pending[d][j] # Added(i)
          PROVE  \A d \in Conns : \A j \in 1 .. Len(pending'[d]) : pending'[d][j] # Added(i)
      BY <2>1, <2>2, <2>3
    <2>4. CASE k \in 1 .. Len(wq) /\ wq'[k] = wq[k]
      <3>1. NoLaterAdded(k)
        BY <1>0, <2>4
      <3>2. \A d \in Conns : \A j \in 1 .. Len(pending'[d]) : pending'[d][j] # Added(wq[k].id)
        BY <2>3, <3>1 DEF NoLaterAdded
      <3>3. ASSUME NEW j \in k + 1 .. Len(wq') PROVE wq'[j] # Added(wq[k].id)
        <4>1. CASE wq' = wq
          BY <3>1, <4>1 DEF NoLaterAdded
        <4>2. CASE wq' = Append(wq, pending[c][1])
          <5>1. j \in 1 .. Len(wq')
            BY <1>0, <2>4
          <5>2. (j \in 1 .. Len(wq) /\ wq'[j] = wq[j]) \/ wq'[j] = pending[c][1]
            BY <1>0, <2>1, <4>2, <5>1, AppendedElements
          <5>3. j \in 1 .. Len(wq) => j \in k + 1 .. Len(wq)
            BY <1>0, <2>4
          <5> QED
            BY <2>2, <3>1, <5>2, <5>3 DEF NoLaterAdded
        <4> QED
          BY <2>1, <4>1, <4>2
      <3> QED
        BY <2>4, <3>2, <3>3
    <2>5. CASE wq' = Append(wq, pending[c][1]) /\ k = Len(wq) + 1 /\ wq'[k] = pending[c][1]
      <3>1. Len(wq') = Len(wq) + 1
        BY <1>0, <2>1, <2>5, AppendedElements
      <3>2. \A j \in k + 1 .. Len(wq') : FALSE
        BY <1>0, <2>5, <3>1
      <3>3. wq'[k].id = cid[c] /\ Live(c)
        BY <1>0, <2>1, <2>2, <2>5 DEF PendingShape, AboutClient
      <3>4. ASSUME NEW d \in Conns, NEW j \in 1 .. Len(pending'[d]) PROVE pending'[d][j] # Added(cid[c])
        <4>1. CASE d = c
          <5>1. j + 1 \in 1 .. Len(pending[c]) /\ pending'[c][j] = pending[c][j + 1] /\ j + 1 # 1
            BY <2>2, <4>1
          <5>2. ~AboutClient(pending[c][j + 1])
            BY <1>0, <5>1 DEF PendingShape
          <5> QED
            BY <1>1, <4>1, <5>1, <5>2
        <4>2. CASE d # c
          <5>1. pending'[d] = pending[d] /\ pending[d] # <<>>
            BY <2>1, <4>2
          <5>2. cid[d] # cid[c]
            BY <1>0, <3>3, <4>2, <5>1 DEF PendingShape, OwnIds
          <5>3. AboutClient(pending[d][j]) => pending[d][j].id = cid[d]
            BY <1>0, <5>1 DEF PendingShape
          <5> QED
            BY <1>1, <5>1, <5>2, <5>3
        <4> QED
          BY <4>1, <4>2
      <3> QED
        BY <3>2, <3>3, <3>4
    <2>6. \/ k \in 1 .. Len(wq) /\ wq'[k] = wq[k]
          \/ wq' = Append(wq, pending[c][1]) /\ k = Len(wq) + 1 /\ wq'[k] = pending[c][1]
      <3>1. CASE wq' = wq
        BY <3>1
      <3>2. CASE wq' = Append(wq, pending[c][1])
        BY <1>0, <2>1, <3>2, AppendedElements
      <3> QED
        BY <2>1, <3>1, <3>2
    <2> QED
      BY <2>4, <2>5, <2>6
  <1>6. ASSUME NEW c \in Conns, OnWsMessage(c) PROVE Goal
    <2>1. wq' = wq /\ \A d \in Conns \ {c} : pending'[d] = pending[d]
      BY <1>6, MessageFacts
    <2>2. PICK e : pending'[c] = <<e>> /\ e.kind = "message" /\ e.id = cid[c]
      BY <1>6, MessageFacts
    <2>3. \A j \in 1 .. Len(pending'[c]) : pending'[c][j] = e
      BY <2>2
    <2>4. \A j \in 1 .. Len(pending'[c]) : pending'[c][j] # Added(wq[k].id)
      BY <1>1, <2>2, <2>3
    <2> QED
      BY <1>2, <2>1, <2>4
  <1>7. ASSUME NEW c \in Conns, OnWsClosed(c) PROVE Goal
    <2>1. /\ wq' = wq
          /\ \A d \in Conns \ {c} : pending'[d] = pending[d]
          /\ mClients[cid[c]] = NoEntry => pending'[c] = <<>>
          /\ mClients[cid[c]] # NoEntry =>
               /\ pending'[c] # <<>> /\ pending'[c][1] = Closed(cid[c])
               /\ \A j \in 1 .. Len(pending'[c]) : j = 1 \/ pending'[c][j].kind = "change"
      BY <1>7, ClosedFacts
    <2>2. ASSUME NEW j \in 1 .. Len(pending'[c]) PROVE pending'[c][j].kind # "added"
      <3>1. mClients[cid[c]] # NoEntry
        BY <2>1
      <3> QED
        BY <2>1, <3>1 DEF Closed
    <2>3. \A j \in 1 .. Len(pending'[c]) : pending'[c][j] # Added(wq[k].id)
      BY <1>1, <2>2
    <2> QED
      BY <1>2, <2>1, <2>3
  <1>8. ASSUME Deliver PROVE Goal
    <2>1. wq # <<>> /\ wq' = Tail(wq) /\ pending' = pending
      BY <1>8, DeliverFacts
    <2>2. /\ Len(wq') \in Nat /\ Len(wq) = Len(wq') + 1
          /\ \A j \in 1 .. Len(wq') : j + 1 \in 1 .. Len(wq) /\ wq'[j] = wq[j + 1]
      BY <1>0, <2>1, TailElements
    <2>3. NoLaterAdded(k + 1) /\ wq'[k] = wq[k + 1]
      BY <1>0, <2>2
    <2>4. ASSUME NEW j \in k + 1 .. Len(wq') PROVE wq'[j] # Added(wq'[k].id)
      <3>1. j \in 1 .. Len(wq') /\ j + 1 \in k + 1 + 1 .. Len(wq)
        BY <2>2
      <3> QED
        BY <2>2, <2>3, <3>1 DEF NoLaterAdded
    <2>5. \A c \in Conns : \A j \in 1 .. Len(pending'[c]) : pending'[c][j] # Added(wq'[k].id)
      BY <2>1, <2>3 DEF NoLaterAdded
    <2> QED
      BY <2>4, <2>5
  <1>9. ASSUME NEW a \in Apps,
               \/ StopLocked(a) \/ \E id \in Ids : RemoveClientLocked(a, id)
               \/ NotifyClosedSync(a) \/ Invoke(a)
        PROVE  Goal
    <2>1. wq' = wq /\ pending' = pending
      BY <1>9, TakeFacts, NotifyFacts, InvokeFacts
    <2> QED
      BY <1>2, <2>1
  <1>10. ASSUME NEW a \in Apps, CloseSessions(a) PROVE Unseen
    BY <1>0, <1>10, CloseSessionsUnseen
  <1> HIDE DEF Goal
  <1>11. Goal
    BY <1>0, <1>3, <1>4, <1>5, <1>6, <1>7, <1>8, <1>9, <1>10, UnseenSteps, Zenon
  <1> QED
    BY <1>11 DEF Goal

-----------------------------------------------------------------------------
(***************************************************************************)
(* The closed callback: where a client is between its registration and its *)
(* closed callback.                                                        *)
(***************************************************************************)
\* A step that moves client i nowhere.
LEMMA PlaceFrame ==
  ASSUME NEW i \in Ids, OnePlace(i), OnceInPlace(i), Given(i) => Given(i)',
         IsListed(i)' => IsListed(i), SomePending(i)' => SomePending(i),
         \A a \in Apps : Taking(a)' \subseteq Taking(a),
         \A a \in Apps : InSync(i, a)' => InSync(i, a),
         SomeQueue(i)' => SomeQueue(i), QueueOnce(i)',
         closedTold'[i] = closedTold[i]
  PROVE  OnePlace(i)' /\ OnceInPlace(i)'
  <1>1. (SomeTodo(i)' => SomeTodo(i)) /\ (SomeSync(i)' => SomeSync(i)) /\ (WasTold(i)' => WasTold(i))
    BY DEF SomeTodo, SomeSync, WasTold
  <1>2. OnePlace(i)'
    BY <1>1 DEF OnePlace
  <1>3. TodoOnce(i)'
    BY DEF OnceInPlace, TodoOnce
  <1>4. SyncOnce(i)'
    BY DEF OnceInPlace, SyncOnce
  <1> QED
    BY <1>2, <1>3, <1>4 DEF OnceInPlace

\* What the queue has to say of a client does not change.
LEMMA QueueFrame ==
  ASSUME NEW i \in Ids, OnceInPlace(i), wq' = wq
  PROVE  (SomeQueue(i)' => SomeQueue(i)) /\ QueueOnce(i)'
  BY DEF SomeQueue, QueueOnce, InQueue, OnceInPlace

LEMMA CloseUnseen ==
  ASSUME TypeOK, CloseInv, Unseen
  PROVE  CloseInv'
  <1> SUFFICES ASSUME NEW i \in Ids PROVE OnePlace(i)' /\ OnceInPlace(i)'
    BY DEF CloseInv
  <1>1. OnePlace(i) /\ OnceInPlace(i)
    BY DEF CloseInv
  <1>2. Given(i) => Given(i)'
    BY ConstantsOK DEF Unseen, Given, TypeOK, Ids
  <1>3. /\ IsListed(i)' => IsListed(i)
        /\ SomePending(i)' => SomePending(i)
        /\ \A a \in Apps : Taking(a)' \subseteq Taking(a)
        /\ \A a \in Apps : InSync(i, a)' => InSync(i, a)
        /\ closedTold'[i] = closedTold[i]
    BY DEF Unseen, IsListed, SomePending, InPending, InSync
  <1>4. (SomeQueue(i)' => SomeQueue(i)) /\ QueueOnce(i)'
    <2>1. CASE wq' = wq
      BY <1>1, <2>1, QueueFrame
    <2>2. CASE wq' = <<>>
      BY <2>2 DEF SomeQueue, QueueOnce
    <2> QED
      BY <2>1, <2>2 DEF Unseen
  <1> QED
    BY <1>1, <1>2, <1>3, <1>4, PlaceFrame

\* Stop() and RemoveClient(): from listed to taken out.
LEMMA CloseTake ==
  ASSUME TypeOK, IdsGiven, CloseInv, NEW a \in Apps,
         StopLocked(a) \/ \E id \in Ids : RemoveClientLocked(a, id)
  PROVE  CloseInv'
  <1> SUFFICES ASSUME NEW i \in Ids PROVE OnePlace(i)' /\ OnceInPlace(i)'
    BY DEF CloseInv
  <1>1. OnePlace(i) /\ OnceInPlace(i)
    BY DEF CloseInv
  <1>2. /\ call[a].pc \in {"idle", "stop"} /\ call'[a].pc = "close"
        /\ call'[a].sync = call[a].sync
        /\ \A b \in Apps \ {a} : call'[b] = call[b]
        /\ UNCHANGED <<allocs, pending, wq, closedTold>>
    BY TakeFacts
  <1>3. PICK I \in SUBSET Listed :
          /\ call'[a].todo = Taken(I)
          /\ mClients' = [j \in Ids |-> IF j \in I THEN NoEntry ELSE mClients[j]]
    BY TakeFacts
  <1>4. /\ Taking(a) = {} /\ Taking(a)' = Taken(I)
        /\ \A b \in Apps \ {a} : Taking(b)' = Taking(b)
    BY <1>2, <1>3 DEF Taking
  <1>5. /\ \A e \in Taken(I) : e.id \in I
        /\ \A e, f \in Taken(I) : e.id = f.id => e = f
    BY DEF Taken
  <1>6. /\ SomePending(i)' <=> SomePending(i)
        /\ \A b \in Apps : InSync(i, b)' <=> InSync(i, b)
        /\ closedTold'[i] = closedTold[i] /\ (WasTold(i)' <=> WasTold(i))
        /\ Given(i) => Given(i)'
    BY <1>2 DEF SomePending, InPending, InSync, WasTold, Given
  <1>7. (SomeQueue(i)' => SomeQueue(i)) /\ QueueOnce(i)'
    BY <1>1, <1>2, QueueFrame
  <1>8. CASE i \in I
    <2>1. IsListed(i) /\ ~IsListed(i)' /\ Given(i)
      BY <1>3, <1>8 DEF IsListed, Listed, IdsGiven
    <2>2. ~SomeTodo(i) /\ ~SomeSync(i) /\ ~SomePending(i) /\ ~SomeQueue(i) /\ ~WasTold(i)
      BY <1>1, <2>1 DEF OnePlace
    <2>3. ~SomeSync(i)'
      BY <1>6, <2>2 DEF SomeSync
    <2>4. OnePlace(i)'
      BY <1>6, <1>7, <2>1, <2>2, <2>3 DEF OnePlace
    <2>5. ASSUME NEW b \in Apps, NEW e \in Taking(b)', e.id = i PROVE b = a /\ e \in Taken(I)
      BY <1>4, <2>2, <2>5 DEF SomeTodo
    <2>6. TodoOnce(i)'
      BY <1>5, <2>5 DEF TodoOnce
    <2>7. SyncOnce(i)'
      BY <2>3 DEF SyncOnce, SomeSync
    <2> QED
      BY <1>1, <1>6, <1>7, <2>4, <2>6, <2>7 DEF OnceInPlace
  <1>9. CASE i \notin I
    <2>1. IsListed(i)' => IsListed(i)
      BY <1>3, <1>9 DEF IsListed
    <2>2. ASSUME NEW b \in Apps, NEW e \in Taking(b)', e.id = i PROVE e \in Taking(b)
      BY <1>4, <1>5, <1>9, <2>2
    <2>3. SomeTodo(i)' => SomeTodo(i)
      BY <2>2 DEF SomeTodo
    <2>4. SomeSync(i)' => SomeSync(i)
      BY <1>6 DEF SomeSync
    <2>5. OnePlace(i)'
      BY <1>1, <1>6, <1>7, <2>1, <2>3, <2>4 DEF OnePlace
    <2>6. TodoOnce(i)'
      BY <1>1, <2>2 DEF TodoOnce, OnceInPlace
    <2>7. SyncOnce(i)'
      BY <1>1, <1>6 DEF SyncOnce, OnceInPlace
    <2> QED
      BY <1>1, <1>6, <1>7, <2>5, <2>6, <2>7 DEF OnceInPlace
  <1> QED
    BY <1>8, <1>9

\* NotifyClosedSync: from taken out to a callback of the call.
LEMMA CloseNotify ==
  ASSUME TypeOK, CloseInv, NEW a \in Apps, NotifyClosedSync(a)
  PROVE  CloseInv'
  <1> SUFFICES ASSUME NEW i \in Ids PROVE OnePlace(i)' /\ OnceInPlace(i)'
    BY DEF CloseInv
  <1>1. OnePlace(i) /\ OnceInPlace(i)
    BY DEF CloseInv
  <1>2. /\ call[a].pc = "notify" /\ call[a].sync = <<>> /\ call'[a].pc = "notify"
        /\ \A b \in Apps \ {a} : call'[b] = call[b]
        /\ UNCHANGED <<allocs, mClients, pending, wq, closedTold>>
    BY NotifyFacts
  <1>3. PICK e \in call[a].todo :
          /\ call'[a].todo = call[a].todo \ {e}
          /\ call'[a].sync # <<>> /\ call'[a].sync[1] = Closed(e.id)
    BY NotifyFacts
  <1>4. /\ e \in Taking(a) /\ Taking(a)' = Taking(a) \ {e}
        /\ \A b \in Apps \ {a} : Taking(b)' = Taking(b)
    BY <1>2, <1>3 DEF Taking
  <1>5. /\ ~InSync(i, a) /\ (InSync(i, a)' <=> e.id = i)
        /\ \A b \in Apps \ {a} : InSync(i, b)' <=> InSync(i, b)
    BY <1>2, <1>3 DEF InSync, ClosedOf, Closed
  <1>6. /\ SomePending(i)' <=> SomePending(i)
        /\ IsListed(i)' <=> IsListed(i)
        /\ closedTold'[i] = closedTold[i] /\ (WasTold(i)' <=> WasTold(i))
        /\ Given(i) => Given(i)'
    BY <1>2 DEF SomePending, InPending, IsListed, WasTold, Given
  <1>7. (SomeQueue(i)' => SomeQueue(i)) /\ QueueOnce(i)'
    BY <1>1, <1>2, QueueFrame
  <1>8. CASE e.id = i
    <2>1. SomeTodo(i)
      BY <1>4, <1>8 DEF SomeTodo
    <2>2. Given(i) /\ ~IsListed(i) /\ ~SomeSync(i) /\ ~SomePending(i) /\ ~SomeQueue(i) /\ ~WasTold(i)
      BY <1>1, <2>1 DEF OnePlace
    <2>3. ASSUME NEW b \in Apps, NEW f \in Taking(b)' PROVE f.id # i
      <3>1. f \in Taking(b) /\ (b = a => f # e)
        BY <1>4
      <3> QED
        BY <1>1, <1>4, <1>8, <3>1 DEF OnceInPlace, TodoOnce
    <2>4. ~SomeTodo(i)' /\ TodoOnce(i)'
      BY <2>3 DEF SomeTodo, TodoOnce
    <2>5. OnePlace(i)'
      BY <1>6, <1>7, <2>2, <2>4 DEF OnePlace
    <2>6. SyncOnce(i)'
      BY <1>5, <2>2 DEF SyncOnce, SomeSync
    <2> QED
      BY <1>1, <1>6, <1>7, <2>4, <2>5, <2>6 DEF OnceInPlace
  <1>9. CASE e.id # i
    <2>1. \A b \in Apps : InSync(i, b)' => InSync(i, b)
      BY <1>5, <1>9
    <2>2. \A b \in Apps : Taking(b)' \subseteq Taking(b)
      BY <1>4
    <2> QED
      BY <1>1, <1>6, <1>7, <2>1, <2>2, PlaceFrame
  <1> QED
    BY <1>8, <1>9

\* Invoke: from a callback of the call to reported.
LEMMA CloseInvoke ==
  ASSUME TypeOK, CloseInv, NEW a \in Apps, SyncShape(a), Invoke(a)
  PROVE  CloseInv'
  <1> SUFFICES ASSUME NEW i \in Ids PROVE OnePlace(i)' /\ OnceInPlace(i)'
    BY DEF CloseInv
  <1>1. OnePlace(i) /\ OnceInPlace(i) /\ closedTold[i] \in Nat
    BY DEF CloseInv, TypeOK
  <1>2. /\ call[a].sync \in Seq(Event) /\ call[a].sync # <<>> /\ call[a].sync[1] \in Event
        /\ call'[a].sync = Tail(call[a].sync) /\ Tell(call[a].sync[1])
        /\ call[a].pc = "notify" /\ call'[a].pc \in {"notify", "callback"}
        /\ call'[a].todo = call[a].todo
        /\ \A b \in Apps \ {a} : call'[b] = call[b]
        /\ UNCHANGED <<allocs, mClients, pending, wq>>
    BY InvokeFacts
  <1>3. PICK e \in Event : e = call[a].sync[1]
    BY <1>2
  <1>4. closedTold'[i] = IF ClosedOf(e, i) THEN closedTold[i] + 1 ELSE closedTold[i]
    BY <1>2, <1>3, TellFacts
  <1>5. \A b \in Apps : Taking(b)' = Taking(b)
    BY <1>2 DEF Taking
  <1>6. ~InSync(i, a)' /\ (InSync(i, a) <=> ClosedOf(e, i))
    <2>1. ASSUME call'[a].sync # <<>> PROVE call'[a].sync[1].kind # "closed"
      <3>1. Tail(call[a].sync) \in Seq(Event) /\ Tail(call[a].sync) # <<>>
        BY <1>2, <2>1, TailElements
      <3>2. 1 \in 1 .. Len(Tail(call[a].sync))
        BY <3>1, TailElements
      <3>3. 1 + 1 \in 1 .. Len(call[a].sync) /\ Tail(call[a].sync)[1] = call[a].sync[1 + 1]
        BY <1>2, <3>2, TailElements
      <3>4. call[a].sync[1 + 1].kind # "closed"
        BY <3>3 DEF SyncShape
      <3> QED
        BY <1>2, <3>3, <3>4
    <2> QED
      BY <1>2, <1>3, <2>1 DEF InSync, ClosedOf
  <1>7. \A b \in Apps \ {a} : InSync(i, b)' <=> InSync(i, b)
    BY <1>2 DEF InSync
  <1>8. /\ SomePending(i)' <=> SomePending(i)
        /\ IsListed(i)' <=> IsListed(i)
        /\ Given(i) => Given(i)'
    BY <1>2 DEF SomePending, InPending, IsListed, Given
  <1>9. (SomeQueue(i)' => SomeQueue(i)) /\ QueueOnce(i)'
    BY <1>1, <1>2, QueueFrame
  <1>10. CASE ClosedOf(e, i)
    <2>1. SomeSync(i)
      BY <1>6, <1>10 DEF SomeSync
    <2>2. Given(i) /\ ~IsListed(i) /\ ~SomeTodo(i) /\ ~SomePending(i) /\ ~SomeQueue(i) /\ ~WasTold(i)
      BY <1>1, <2>1 DEF OnePlace
    <2>3. \A b \in Apps : ~InSync(i, b)'
      BY <1>1, <1>6, <1>7, <1>10 DEF OnceInPlace, SyncOnce
    <2>4. ~SomeSync(i)' /\ SyncOnce(i)'
      BY <2>3 DEF SomeSync, SyncOnce
    <2>5. ~SomeTodo(i)' /\ TodoOnce(i)'
      BY <1>5, <2>2 DEF SomeTodo, TodoOnce
    <2>6. closedTold'[i] = 1
      BY <1>4, <1>10, <2>2 DEF WasTold
    <2>7. OnePlace(i)'
      BY <1>8, <1>9, <2>2, <2>4, <2>5 DEF OnePlace
    <2> QED
      BY <1>9, <2>4, <2>5, <2>6, <2>7 DEF OnceInPlace
  <1>11. CASE ~ClosedOf(e, i)
    <2>1. \A b \in Apps : InSync(i, b)' => InSync(i, b)
      BY <1>6, <1>7
    <2> QED
      BY <1>1, <1>4, <1>5, <1>8, <1>9, <1>11, <2>1, PlaceFrame
  <1> QED
    BY <1>10, <1>11

\* RegisterWsClient: nothing is known of the id it gives, which is now listed.
LEMMA CloseRegister ==
  ASSUME NoWrap, TypeOK, IdInv, EventInv, CloseInv, NEW c \in Conns, RegisterWsClient(c)
  PROVE  CloseInv'
  <1> SUFFICES ASSUME NEW i \in Ids PROVE OnePlace(i)' /\ OnceInPlace(i)'
    BY DEF CloseInv
  <1>1. /\ OnePlace(i) /\ OnceInPlace(i) /\ closedTold[i] \in Nat /\ NextIdFresh /\ IdsGiven
        /\ allocs \in Nat /\ pending \in [Conns -> Seq(Event)] /\ \A d \in Conns : PendingShape(d)
    BY DEF CloseInv, TypeOK, IdInv, EventInv
  <1>2. /\ allocs' = allocs + 1 /\ UNCHANGED <<wq, call, closedTold>>
        /\ pending'[c][1] = Added(allocs + 1)
        /\ \A d \in Conns \ {c} : pending'[d] = pending[d]
    BY <1>1, RegisterFacts
  <1>3. PICK u : mClients' = [mClients EXCEPT ![allocs + 1] = [conn |-> c, uri |-> u]]
    BY <1>1, RegisterFacts
  <1>4. Given(i) => Given(i)' /\ i # allocs + 1
    BY <1>1, <1>2, ConstantsOK DEF Given, Ids
  <1>5. /\ \A b \in Apps : Taking(b)' = Taking(b)
        /\ \A b \in Apps : InSync(i, b)' <=> InSync(i, b)
        /\ closedTold'[i] = closedTold[i] /\ (WasTold(i)' <=> WasTold(i))
    BY <1>2 DEF Taking, InSync, WasTold
  <1>6. SomePending(i)' => SomePending(i)
    <2>1. ASSUME NEW d \in Conns, InPending(i, d)' PROVE InPending(i, d)
      <3>1. d # c
        BY <1>2, <2>1 DEF InPending, ClosedOf, Added
      <3> QED
        BY <1>2, <2>1, <3>1 DEF InPending
    <2> QED
      BY <2>1 DEF SomePending
  <1>7. (SomeQueue(i)' => SomeQueue(i)) /\ QueueOnce(i)'
    BY <1>1, <1>2, QueueFrame
  <1>8. CASE i # allocs + 1
    <2>1. IsListed(i)' => IsListed(i)
      BY <1>3, <1>8 DEF IsListed, TypeOK
    <2> QED
      BY <1>1, <1>4, <1>5, <1>6, <1>7, <2>1, PlaceFrame
  <1>9. CASE i = allocs + 1
    <2>1. ~Given(i)
      BY <1>4, <1>9
    <2>2. ~SomeTodo(i) /\ ~SomeSync(i) /\ ~WasTold(i)
      BY <1>1, <2>1 DEF OnePlace, IdsGiven, WasTold
    <2>3. ~SomeQueue(i)
      BY <1>1, <2>1 DEF IdsGiven, SomeQueue, InQueue, ClosedOf, AboutClient
    <2>4. ~SomePending(i)
      <3>1. ASSUME NEW d \in Conns, InPending(i, d) PROVE FALSE
        <4>1. pending[d] \in Seq(Event) /\ pending[d] # <<>>
          BY <1>1, <3>1 DEF InPending
        <4>2. 1 \in 1 .. Len(pending[d])
          BY <4>1, TailElements
        <4>3. Live(d) /\ cid[d] = i
          BY <1>1, <3>1, <4>1, <4>2 DEF InPending, ClosedOf, PendingShape, AboutClient
        <4> QED
          BY <1>1, <2>1, <4>3 DEF IdsGiven
      <3> QED
        BY <3>1 DEF SomePending
    <2>5. ~SomeTodo(i)' /\ TodoOnce(i)' /\ ~SomeSync(i)' /\ SyncOnce(i)'
      BY <1>5, <2>2 DEF SomeTodo, TodoOnce, SomeSync, SyncOnce
    <2>6. OnePlace(i)'
      BY <1>5, <1>6, <1>7, <2>2, <2>3, <2>4, <2>5 DEF OnePlace
    <2> QED
      BY <1>1, <1>5, <1>7, <2>5, <2>6 DEF OnceInPlace
  <1> QED
    BY <1>8, <1>9

\* PostCallback: from the handler to the queue, or dropped.
LEMMA ClosePost ==
  ASSUME TypeOK, IdInv, EventInv, CloseInv, NEW c \in Conns, PostCallback(c)
  PROVE  CloseInv'
  <1> SUFFICES ASSUME NEW i \in Ids PROVE OnePlace(i)' /\ OnceInPlace(i)'
    BY DEF CloseInv
  <1>1. /\ OnePlace(i) /\ OnceInPlace(i) /\ OwnIds
        /\ pending \in [Conns -> Seq(Event)] /\ \A d \in Conns : PendingShape(d)
    BY DEF CloseInv, TypeOK, IdInv, EventInv
  <1>2. /\ pending[c] \in Seq(Event) /\ pending[c] # <<>> /\ pending'[c] = Tail(pending[c])
        /\ \A d \in Conns \ {c} : pending'[d] = pending[d]
        /\ wq \in Seq(Event) /\ pending[c][1] \in Event
        /\ wq' = wq \/ wq' = Append(wq, pending[c][1])
        /\ UNCHANGED <<allocs, mClients, call, closedTold>>
    BY PostFacts
  <1>3. PICK e \in Event : e = pending[c][1]
    BY <1>2
  <1>4. /\ \A b \in Apps : Taking(b)' = Taking(b)
        /\ \A b \in Apps : InSync(i, b)' <=> InSync(i, b)
        /\ closedTold'[i] = closedTold[i] /\ (WasTold(i)' <=> WasTold(i))
        /\ IsListed(i)' <=> IsListed(i)
        /\ Given(i) => Given(i)'
    BY <1>2 DEF Taking, InSync, WasTold, IsListed, Given
  <1>5. ~InPending(i, c)' /\ (InPending(i, c) <=> ClosedOf(e, i))
    <2>1. ASSUME pending'[c] # <<>> PROVE pending'[c][1].kind # "closed"
      <3>1. Tail(pending[c]) \in Seq(Event) /\ Tail(pending[c]) # <<>>
        BY <1>2, <2>1, TailElements
      <3>2. 1 \in 1 .. Len(Tail(pending[c]))
        BY <3>1, TailElements
      <3>3. 1 + 1 \in 1 .. Len(pending[c]) /\ Tail(pending[c])[1] = pending[c][1 + 1]
        BY <1>2, <3>2, TailElements
      <3>4. ~AboutClient(pending[c][1 + 1])
        BY <1>1, <3>3 DEF PendingShape
      <3> QED
        BY <1>2, <3>3, <3>4 DEF AboutClient
    <2> QED
      BY <1>2, <1>3, <2>1 DEF InPending, ClosedOf
  <1>6. \A d \in Conns \ {c} : InPending(i, d)' <=> InPending(i, d)
    BY <1>2 DEF InPending
  <1>7. SomePending(i)' => SomePending(i)
    BY <1>5, <1>6 DEF SomePending
  <1>8. ASSUME wq' = Append(wq, e), NEW k \in 1 .. Len(wq'), InQueue(i, k)'
        PROVE  (k \in 1 .. Len(wq) /\ InQueue(i, k)) \/ (k = Len(wq) + 1 /\ ClosedOf(e, i))
    BY <1>2, <1>8, AppendedElements DEF InQueue
  <1>9. CASE wq' = Append(wq, e) /\ ClosedOf(e, i)
    <2>1. SomePending(i)
      BY <1>5, <1>9 DEF SomePending
    <2>2. ~IsListed(i) /\ ~SomeTodo(i) /\ ~SomeSync(i) /\ ~SomeQueue(i) /\ ~WasTold(i)
      BY <1>1, <2>1 DEF OnePlace
    <2>3. ~SomePending(i)'
      <3>1. ASSUME NEW d \in Conns \ {c}, InPending(i, d) PROVE FALSE
        <4>1. pending[d] \in Seq(Event) /\ pending[d] # <<>>
          BY <1>1, <3>1 DEF InPending
        <4>2. 1 \in 1 .. Len(pending[d]) /\ 1 \in 1 .. Len(pending[c])
          BY <1>2, <4>1, TailElements
        <4>3. Live(d) /\ cid[d] = i
          BY <1>1, <3>1, <4>1, <4>2 DEF InPending, ClosedOf, PendingShape, AboutClient
        <4>4. Live(c) /\ cid[c] = i
          BY <1>1, <1>2, <1>3, <1>9, <4>2 DEF ClosedOf, PendingShape, AboutClient
        <4> QED
          BY <1>1, <4>3, <4>4 DEF OwnIds
      <3> QED
        BY <1>5, <1>6, <3>1 DEF SomePending
    <2>4. QueueOnce(i)'
      <3>1. ASSUME NEW k \in 1 .. Len(wq'), InQueue(i, k)' PROVE k = Len(wq) + 1
        BY <1>8, <1>9, <2>2, <3>1 DEF SomeQueue
      <3> QED
        BY <3>1 DEF QueueOnce
    <2>5. ~SomeTodo(i)' /\ TodoOnce(i)' /\ ~SomeSync(i)' /\ SyncOnce(i)'
      BY <1>4, <2>2 DEF SomeTodo, TodoOnce, SomeSync, SyncOnce
    <2>6. OnePlace(i)'
      BY <1>4, <2>2, <2>3, <2>5 DEF OnePlace
    <2> QED
      BY <1>1, <1>4, <2>4, <2>5, <2>6 DEF OnceInPlace
  <1>10. CASE wq' = Append(wq, e) /\ ~ClosedOf(e, i)
    <2>1. SomeQueue(i)' => SomeQueue(i)
      BY <1>8, <1>10 DEF SomeQueue
    <2>2. QueueOnce(i)'
      BY <1>1, <1>8, <1>10 DEF QueueOnce, OnceInPlace
    <2> QED
      BY <1>1, <1>4, <1>7, <2>1, <2>2, PlaceFrame
  <1>11. CASE wq' = wq
    BY <1>1, <1>4, <1>7, <1>11, QueueFrame, PlaceFrame
  <1> QED
    BY <1>2, <1>3, <1>9, <1>10, <1>11

LEMMA CloseMessage ==
  ASSUME TypeOK, CloseInv, NEW c \in Conns, OnWsMessage(c)
  PROVE  CloseInv'
  <1> SUFFICES ASSUME NEW i \in Ids PROVE OnePlace(i)' /\ OnceInPlace(i)'
    BY DEF CloseInv
  <1>1. OnePlace(i) /\ OnceInPlace(i)
    BY DEF CloseInv
  <1>2. /\ \A d \in Conns \ {c} : pending'[d] = pending[d]
        /\ UNCHANGED <<allocs, mClients, wq, call, closedTold>>
    BY MessageFacts
  <1>3. PICK e : pending'[c] = <<e>> /\ e.kind = "message"
    BY MessageFacts
  <1>4. SomePending(i)' => SomePending(i)
    <2>1. ~InPending(i, c)'
      BY <1>3 DEF InPending, ClosedOf
    <2>2. \A d \in Conns \ {c} : InPending(i, d)' <=> InPending(i, d)
      BY <1>2 DEF InPending
    <2> QED
      BY <2>1, <2>2 DEF SomePending
  <1>5. /\ \A b \in Apps : Taking(b)' = Taking(b)
        /\ \A b \in Apps : InSync(i, b)' <=> InSync(i, b)
        /\ closedTold'[i] = closedTold[i]
        /\ IsListed(i)' <=> IsListed(i)
        /\ Given(i) => Given(i)'
    BY <1>2 DEF Taking, InSync, IsListed, Given
  <1> QED
    BY <1>1, <1>2, <1>4, <1>5, QueueFrame, PlaceFrame

\* OnWsClosed: from listed to the handler.
LEMMA CloseClosed ==
  ASSUME TypeOK, CloseInv, NEW c \in Conns, OnWsClosed(c)
  PROVE  CloseInv'
  <1> SUFFICES ASSUME NEW i \in Ids PROVE OnePlace(i)' /\ OnceInPlace(i)'
    BY DEF CloseInv
  <1>1. OnePlace(i) /\ OnceInPlace(i)
    BY DEF CloseInv
  <1>2. /\ cid[c] \in Ids /\ mClients' = [mClients EXCEPT ![cid[c]] = NoEntry]
        /\ mClients[cid[c]] = NoEntry => pending'[c] = <<>>
        /\ mClients[cid[c]] # NoEntry => pending'[c][1] = Closed(cid[c])
        /\ \A d \in Conns \ {c} : pending'[d] = pending[d]
        /\ UNCHANGED <<allocs, wq, call, closedTold>>
    BY ClosedFacts
  <1>3. /\ \A b \in Apps : Taking(b)' = Taking(b)
        /\ \A b \in Apps : InSync(i, b)' <=> InSync(i, b)
        /\ closedTold'[i] = closedTold[i] /\ (WasTold(i)' <=> WasTold(i))
        /\ Given(i) => Given(i)'
    BY <1>2 DEF Taking, InSync, WasTold, Given
  <1>4. IsListed(i)' => IsListed(i) /\ i # cid[c]
    BY <1>2 DEF IsListed, TypeOK
  <1>5. /\ InPending(i, c)' => i = cid[c] /\ IsListed(i)
        /\ \A d \in Conns \ {c} : InPending(i, d)' <=> InPending(i, d)
    BY <1>2 DEF InPending, ClosedOf, Closed, IsListed
  <1>6. (SomeQueue(i)' => SomeQueue(i)) /\ QueueOnce(i)'
    BY <1>1, <1>2, QueueFrame
  <1>7. CASE i = cid[c] /\ IsListed(i)
    <2>1. ~SomeTodo(i) /\ ~SomeSync(i) /\ ~SomePending(i) /\ ~SomeQueue(i) /\ ~WasTold(i)
      BY <1>1, <1>7 DEF OnePlace
    <2>2. ~SomeTodo(i)' /\ TodoOnce(i)' /\ ~SomeSync(i)' /\ SyncOnce(i)'
      BY <1>3, <2>1 DEF SomeTodo, TodoOnce, SomeSync, SyncOnce
    <2>3. OnePlace(i)'
      BY <1>3, <1>4, <1>6, <1>7, <2>1, <2>2 DEF OnePlace
    <2> QED
      BY <1>1, <1>3, <1>6, <2>2, <2>3 DEF OnceInPlace
  <1>8. CASE ~(i = cid[c] /\ IsListed(i))
    <2>1. SomePending(i)' => SomePending(i)
      BY <1>5, <1>8 DEF SomePending
    <2> QED
      BY <1>1, <1>3, <1>4, <1>6, <2>1, PlaceFrame
  <1> QED
    BY <1>7, <1>8

\* Deliver: from the queue to reported.
LEMMA CloseDeliver ==
  ASSUME TypeOK, CloseInv, Deliver
  PROVE  CloseInv'
  <1> SUFFICES ASSUME NEW i \in Ids PROVE OnePlace(i)' /\ OnceInPlace(i)'
    BY DEF CloseInv
  <1>1. OnePlace(i) /\ OnceInPlace(i) /\ closedTold[i] \in Nat
    BY DEF CloseInv, TypeOK
  <1>2. /\ wq \in Seq(Event) /\ wq # <<>> /\ wq' = Tail(wq) /\ wq[1] \in Event
        /\ Tell(wq[1])
        /\ UNCHANGED <<allocs, mClients, pending, call>>
    BY DeliverFacts
  <1>3. closedTold'[i] = IF ClosedOf(wq[1], i) THEN closedTold[i] + 1 ELSE closedTold[i]
    BY <1>2, TellFacts
  <1>4. /\ \A b \in Apps : Taking(b)' = Taking(b)
        /\ \A b \in Apps : InSync(i, b)' <=> InSync(i, b)
        /\ SomePending(i)' <=> SomePending(i)
        /\ IsListed(i)' <=> IsListed(i)
        /\ Given(i) => Given(i)'
    BY <1>2 DEF Taking, InSync, SomePending, InPending, IsListed, Given
  <1>5. /\ 1 \in 1 .. Len(wq) /\ Len(wq') \in Nat
        /\ \A k \in 1 .. Len(wq') :
             k \in Int /\ k + 1 # 1 /\ k + 1 \in 1 .. Len(wq) /\ (InQueue(i, k)' <=> InQueue(i, k + 1))
    <2>1. /\ 1 \in 1 .. Len(wq) /\ Len(wq') \in Nat
          /\ \A k \in 1 .. Len(wq') : k + 1 \in 1 .. Len(wq) /\ wq'[k] = wq[k + 1]
      BY <1>2, TailElements
    <2> QED
      BY <2>1 DEF InQueue
  <1>6. SomeQueue(i)' => SomeQueue(i)
    BY <1>5 DEF SomeQueue
  <1>7. QueueOnce(i)'
    <2>1. ASSUME NEW j \in 1 .. Len(wq'), NEW k \in 1 .. Len(wq'), InQueue(i, j)', InQueue(i, k)'
          PROVE  j = k
      <3>1. j + 1 = k + 1
        BY <1>1, <1>5, <2>1 DEF OnceInPlace, QueueOnce
      <3> QED
        BY <1>5, <3>1
    <2> QED
      BY <2>1 DEF QueueOnce
  <1>8. CASE ClosedOf(wq[1], i)
    <2>1. SomeQueue(i) /\ InQueue(i, 1)
      BY <1>5, <1>8 DEF SomeQueue, InQueue
    <2>2. ~IsListed(i) /\ ~SomeTodo(i) /\ ~SomeSync(i) /\ ~SomePending(i) /\ ~WasTold(i)
      BY <1>1, <2>1 DEF OnePlace
    <2>3. ~SomeQueue(i)'
      BY <1>1, <1>5, <2>1 DEF SomeQueue, OnceInPlace, QueueOnce
    <2>4. ~SomeTodo(i)' /\ TodoOnce(i)' /\ ~SomeSync(i)' /\ SyncOnce(i)'
      BY <1>4, <2>2 DEF SomeTodo, TodoOnce, SomeSync, SyncOnce
    <2>5. closedTold'[i] = 1
      BY <1>3, <1>8, <2>2 DEF WasTold
    <2>6. OnePlace(i)'
      BY <1>4, <2>2, <2>3, <2>4 DEF OnePlace
    <2> QED
      BY <1>7, <2>4, <2>5, <2>6 DEF OnceInPlace
  <1>9. CASE ~ClosedOf(wq[1], i)
    BY <1>1, <1>3, <1>4, <1>6, <1>7, <1>9, PlaceFrame
  <1> QED
    BY <1>8, <1>9

LEMMA CloseStep ==
  ASSUME NoWrap, TypeOK, IdInv, EventInv, CloseInv, [Next]_vars
  PROVE  CloseInv'
  <1>1. IdsGiven /\ \A a \in Apps : SyncShape(a)
    BY DEF IdInv, EventInv
  <1>2. ASSUME NEW a \in Apps, CloseSessions(a) PROVE Unseen
    BY <1>1, <1>2, CloseSessionsUnseen
  <1>3. ASSUME NEW a \in Apps, Invoke(a) PROVE CloseInv'
    BY <1>1, <1>3, CloseInvoke
  <1>4. ASSUME NEW a \in Apps, StopLocked(a) \/ \E id \in Ids : RemoveClientLocked(a, id)
        PROVE  CloseInv'
    BY <1>1, <1>4, CloseTake
  <1> QED
    BY <1>1, <1>2, <1>3, <1>4, CloseUnseen, CloseNotify, CloseRegister, ClosePost, CloseMessage,
       CloseClosed, CloseDeliver, UnseenSteps, Zenon

-----------------------------------------------------------------------------
(***************************************************************************)
(* No session is left behind.                                              *)
(***************************************************************************)
Known(c) == mClients[cid[c]] # NoEntry /\ mClients[cid[c]].conn = c
ToBeClosed(c) == \E a \in Apps : call[a].pc = "close" /\ \E e \in call[a].todo : e.conn = c

LEMMA OrphanStep ==
  ASSUME NoWrap, TypeOK, IdInv, EventInv, NoOrphanSession, [Next]_vars
  PROVE  NoOrphanSession'
  <1> DEFINE Held(c) == Known(c) \/ closeReq[c] \/ ToBeClosed(c)
  <1>0. /\ NextIdFresh /\ IdsGiven /\ OwnIds
        /\ \A a \in Apps : SyncShape(a)
        /\ \A c \in Conns : sess[c] = "open" => Held(c)
        /\ \A c \in Conns : cid[c] \in Ids
        /\ allocs \in Nat /\ call \in [Apps -> Calls]
    BY DEF IdInv, EventInv, NoOrphanSession, Known, ToBeClosed, TypeOK, Calls, PCs, TakenEntry
  <1> SUFFICES ASSUME NEW c \in Conns, sess'[c] = "open" PROVE Held(c)'
    BY DEF NoOrphanSession, Known, ToBeClosed
  <1> HIDE DEF Held
  \* The step leaves c's entry alone and c's session was open before.
  <1>1. ASSUME sess[c] = "open", cid'[c] = cid[c],
               Known(c) => mClients'[cid[c]] = mClients[cid[c]],
               closeReq[c] => closeReq'[c],
               \A a \in Apps : call[a].pc = "close" => call'[a] = call[a]
        PROVE  Held(c)'
    <2>1. CASE Known(c)
      <3>1. Known(c)'
        BY <1>1, <2>1 DEF Known
      <3> QED
        BY <3>1 DEF Held
    <2>2. CASE closeReq[c]
      BY <1>1, <2>2 DEF Held
    <2>3. CASE ToBeClosed(c)
      <3>1. ToBeClosed(c)'
        BY <1>1, <2>3 DEF ToBeClosed
      <3> QED
        BY <3>1 DEF Held
    <2> QED
      BY <1>0, <1>1, <2>1, <2>2, <2>3 DEF Held
  <1>2. ASSUME Unseen, KeepsClosing PROVE Held(c)'
    <2>1. sess[c] = "open"
      BY <1>2 DEF Unseen, Live
    <2> QED
      BY <1>1, <1>2, <2>1 DEF Unseen, KeepsClosing
  <1>3. ASSUME NEW a \in Apps, CloseSessions(a) PROVE Held(c)'
    <2>1. /\ call[a].pc = "close" /\ closeReq' = CloseAll(call[a].todo)
          /\ \A b \in Apps \ {a} : call'[b] = call[b]
          /\ UNCHANGED <<sess, cid, mClients>>
      BY <1>0, <1>3 DEF CloseSessions, registry
    <2>2. /\ closeReq[c] => closeReq'[c]
          /\ (\E e \in call[a].todo : e.conn = c) => closeReq'[c]
      BY <2>1 DEF CloseAll
    <2>3. CASE Known(c)
      <3>1. Known(c)'
        BY <2>1, <2>3 DEF Known
      <3> QED
        BY <3>1 DEF Held
    <2>4. CASE closeReq[c]
      BY <2>2, <2>4 DEF Held
    <2>5. CASE ToBeClosed(c)
      <3>1. PICK b \in Apps : call[b].pc = "close" /\ \E e \in call[b].todo : e.conn = c
        BY <2>5 DEF ToBeClosed
      <3>2. CASE b = a
        BY <2>2, <3>1, <3>2 DEF Held
      <3>3. CASE b # a
        <4>1. ToBeClosed(c)'
          BY <2>1, <3>1, <3>3 DEF ToBeClosed
        <4> QED
          BY <4>1 DEF Held
      <3> QED
        BY <3>2, <3>3
    <2> QED
      BY <1>0, <2>1, <2>3, <2>4, <2>5 DEF Held
  <1>4. ASSUME NEW a \in Apps, StopLocked(a) \/ \E id \in Ids : RemoveClientLocked(a, id)
        PROVE  Held(c)'
    <2>1. /\ call[a].pc \in {"idle", "stop"} /\ call'[a].pc = "close"
          /\ \A b \in Apps \ {a} : call'[b] = call[b]
          /\ UNCHANGED <<sess, cid, closeReq>>
      BY <1>4, TakeFacts
    <2>2. PICK I \in SUBSET Listed :
            /\ call'[a].todo = Taken(I)
            /\ mClients' = [i \in Ids |-> IF i \in I THEN NoEntry ELSE mClients[i]]
      BY <1>4, TakeFacts
    <2>3. CASE Known(c) /\ cid[c] \in I
      <3>1. [id |-> cid[c], conn |-> mClients[cid[c]].conn, uri |-> mClients[cid[c]].uri] \in Taken(I)
        BY <2>3 DEF Taken
      <3>2. \E e \in Taken(I) : e.conn = c
        BY <2>3, <3>1 DEF Known
      <3>3. ToBeClosed(c)'
        BY <2>1, <2>2, <3>2 DEF ToBeClosed
      <3> QED
        BY <3>3 DEF Held
    <2>4. CASE ~(Known(c) /\ cid[c] \in I)
      <3>1. Known(c) => mClients'[cid[c]] = mClients[cid[c]]
        BY <1>0, <2>2, <2>4
      <3> QED
        BY <1>1, <2>1, <3>1
    <2> QED
      BY <2>3, <2>4
  <1>5. ASSUME NEW a \in Apps, NotifyClosedSync(a) \/ Invoke(a) PROVE Held(c)'
    <2>1. /\ call[a].pc = "notify" /\ \A b \in Apps \ {a} : call'[b] = call[b]
          /\ UNCHANGED <<sess, cid, closeReq, mClients>>
      <3>1. CASE NotifyClosedSync(a)
        BY <3>1, NotifyFacts
      <3>2. CASE Invoke(a)
        <4>1. call[a].pc = "notify"
          BY <1>0, <3>2 DEF Invoke, SyncShape
        <4> QED
          BY <3>2, <4>1, InvokeFacts
      <3> QED
        BY <1>5, <3>1, <3>2
    <2> QED
      BY <1>1, <2>1
  <1>6. ASSUME NEW d \in Conns, RegisterWsClient(d) PROVE Held(c)'
    <2>1. /\ sess' = [sess EXCEPT ![d] = "open"] /\ allocs + 1 \in Ids
          /\ cid' = [cid EXCEPT ![d] = allocs + 1] /\ UNCHANGED <<closeReq, call>>
      BY <1>0, <1>6, RegisterFacts
    <2>2. PICK u \in Uris \cup {NoUri} :
            mClients' = [mClients EXCEPT ![allocs + 1] = [conn |-> d, uri |-> u]]
      BY <1>0, <1>6, RegisterFacts
    <2>3. CASE c = d
      <3>1. cid'[c] = allocs + 1 /\ mClients'[allocs + 1] = [conn |-> c, uri |-> u]
        BY <2>1, <2>2, <2>3 DEF TypeOK
      <3>2. [conn |-> c, uri |-> u] \in Entry
        BY DEF Entry
      <3>3. Known(c)'
        BY <3>1, <3>2, EntryOK DEF Known
      <3> QED
        BY <3>3 DEF Held
    <2>4. CASE c # d
      <3>1. sess[c] = "open" /\ cid'[c] = cid[c]
        BY <2>1, <2>4 DEF TypeOK
      <3>2. cid[c] # allocs + 1
        BY <1>0, <3>1 DEF IdsGiven, Live, Given
      <3>3. mClients'[cid[c]] = mClients[cid[c]]
        BY <1>0, <2>2, <3>2 DEF TypeOK
      <3> QED
        BY <1>1, <2>1, <3>1, <3>3
    <2> QED
      BY <2>3, <2>4
  <1>7. ASSUME NEW d \in Conns, PostCallback(d) \/ OnWsMessage(d) PROVE Held(c)'
    <2>1. UNCHANGED <<sess, cid, closeReq, mClients, call>>
      BY <1>7, PostFacts, MessageFacts
    <2> QED
      BY <1>1, <2>1
  <1>8. ASSUME NEW d \in Conns, OnWsClosed(d) PROVE Held(c)'
    <2>1. /\ sess[d] = "open" /\ sess' = [sess EXCEPT ![d] = "gone"]
          /\ mClients' = [mClients EXCEPT ![cid[d]] = NoEntry]
          /\ UNCHANGED <<cid, closeReq, call>>
      BY <1>8, ClosedFacts
    <2>2. c # d /\ sess[c] = "open"
      BY <2>1 DEF TypeOK
    <2>3. cid[c] # cid[d]
      BY <1>0, <2>1, <2>2 DEF OwnIds, Live
    <2>4. mClients'[cid[c]] = mClients[cid[c]]
      BY <1>0, <2>1, <2>3 DEF TypeOK
    <2> QED
      BY <1>1, <2>1, <2>2, <2>4
  <1>9. ASSUME Deliver PROVE Held(c)'
    <2>1. UNCHANGED <<sess, cid, closeReq, mClients, call>>
      BY <1>9, DeliverFacts
    <2> QED
      BY <1>1, <2>1
  <1> QED
    BY <1>0, <1>2, <1>3, <1>4, <1>5, <1>6, <1>7, <1>8, <1>9, UnseenSteps, Zenon

-----------------------------------------------------------------------------
(***************************************************************************)
(* The counts of mUriCounts.                                               *)
(***************************************************************************)
\* The clients of uri u, as ReceiversOf(u)' can be compared with ReceiversOf(u).
ReceiversOf(u) == Receivers({u})

LEMMA ReceiversFacts ==
  ASSUME TypeOK
  PROVE  /\ \A u \in Uris : IsFiniteSet(ReceiversOf(u)) /\ Cardinality(ReceiversOf(u)) \in Nat
         /\ \A u \in Uris : \A i : i \in ReceiversOf(u) <=>
              i \in Ids /\ mClients[i] # NoEntry /\ mClients[i].uri = u
  <1>1. IsFiniteSet(Ids)
    BY FS_Interval, ConstantsOK DEF Ids
  <1>2. \A u \in Uris : \A i : i \in ReceiversOf(u) <=>
          i \in Ids /\ mClients[i] # NoEntry /\ mClients[i].uri = u
    BY DEF ReceiversOf, Receivers, Listed
  <1>3. ASSUME NEW u \in Uris PROVE IsFiniteSet(ReceiversOf(u)) /\ Cardinality(ReceiversOf(u)) \in Nat
    <2>1. ReceiversOf(u) \in SUBSET Ids
      BY <1>2
    <2>2. IsFiniteSet(ReceiversOf(u))
      BY <1>1, <2>1, FS_Subset
    <2> QED
      BY <2>2, FS_CardinalityType
  <1> QED
    BY <1>2, <1>3

\* One listed client id is taken out and its uri's count decremented.
LEMMA CountRemoved ==
  ASSUME TypeOK, TypeOK', UriCountsMatch, NEW id \in Ids, mClients[id] # NoEntry,
         \A i \in Ids \ {id} : mClients'[i] = mClients[i], mClients'[id] = NoEntry,
         mUriCounts' = DecrementUriCountLocked(mClients[id].uri)
  PROVE  UriCountsMatch'
  <1> DEFINE v == mClients[id].uri
  <1>0. v \in Uris \cup {NoUri} /\ mUriCounts \in [Uris -> Nat]
    BY DEF TypeOK, Entry
  <1> HIDE DEF v
  <1>1. ASSUME NEW u \in Uris PROVE mUriCounts'[u] = Cardinality(ReceiversOf(u)')
    <2>1. /\ mUriCounts[u] = Cardinality(ReceiversOf(u))
          /\ IsFiniteSet(ReceiversOf(u)) /\ Cardinality(ReceiversOf(u)) \in Nat
      BY ReceiversFacts DEF UriCountsMatch, ReceiversOf
    <2>2. \A i : i \in ReceiversOf(u)' <=> i \in Ids /\ mClients'[i] # NoEntry /\ mClients'[i].uri = u
      BY DEF ReceiversOf, Receivers, Listed
    <2>3. \A i : i \in ReceiversOf(u)' <=> i \in ReceiversOf(u) \ {id}
      BY <2>2, ReceiversFacts
    <2>4. ReceiversOf(u)' = ReceiversOf(u) \ {id}
      BY <2>3
    <2>5. id \in ReceiversOf(u) <=> u = v
      BY ReceiversFacts DEF v
    <2>6. CASE u = v
      <3>1. mUriCounts[u] # 0
        BY <2>1, <2>5, <2>6, FS_EmptySet
      <3>2. u # NoUri
        BY ConstantsOK
      <3>3. mUriCounts'[u] = mUriCounts[u] - 1
        BY <1>0, <2>6, <3>1, <3>2 DEF DecrementUriCountLocked, v
      <3> QED
        BY <2>1, <2>4, <2>5, <2>6, <3>3, FS_RemoveElement
    <2>7. CASE u # v
      <3>1. ReceiversOf(u)' = ReceiversOf(u)
        BY <2>4, <2>5, <2>7
      <3>2. mUriCounts'[u] = mUriCounts[u]
        BY <1>0, <2>7 DEF DecrementUriCountLocked, v
      <3> QED
        BY <2>1, <3>1, <3>2
    <2> QED
      BY <2>6, <2>7
  <1> QED
    BY <1>1 DEF UriCountsMatch, ReceiversOf

LEMMA CountStep ==
  ASSUME NoWrap, TypeOK, TypeOK', IdInv, EventInv, UriCountsMatch, [Next]_vars
  PROVE  UriCountsMatch'
  <1>0. /\ NextIdFresh /\ IdsGiven
        /\ \A a \in Apps : SyncShape(a)
        /\ mUriCounts \in [Uris -> Nat] /\ allocs \in Nat
    BY DEF IdInv, EventInv, TypeOK
  <1>1. ASSUME UNCHANGED <<mClients, mUriCounts>> PROVE UriCountsMatch'
    BY <1>1 DEF UriCountsMatch, Receivers, Listed
  <1>2. ASSUME Unseen PROVE UriCountsMatch'
    BY <1>1, <1>2 DEF Unseen
  <1>3. ASSUME NEW a \in Apps, StopLocked(a) \/ \E id \in Ids : RemoveClientLocked(a, id)
        PROVE  UriCountsMatch'
    <2>1. PICK I \in SUBSET Listed :
            /\ mClients' = [i \in Ids |-> IF i \in I THEN NoEntry ELSE mClients[i]]
            /\ \/ I = Listed /\ mUriCounts' = [u \in Uris |-> 0]
               \/ \E id \in Ids :
                    I = {id} /\ mUriCounts' = DecrementUriCountLocked(mClients[id].uri)
      BY <1>3, TakeFacts
    <2>2. CASE I = Listed /\ mUriCounts' = [u \in Uris |-> 0]
      <3>1. Listed' = {}
        BY <2>1, <2>2 DEF Listed
      <3>2. \A u \in Uris : Receivers({u})' = {}
        BY <3>1 DEF Receivers
      <3> QED
        BY <2>2, <3>2, FS_EmptySet DEF UriCountsMatch
    <2>3. ASSUME NEW id \in Ids, I = {id}, mUriCounts' = DecrementUriCountLocked(mClients[id].uri)
          PROVE  UriCountsMatch'
      <3>1. /\ mClients[id] # NoEntry /\ mClients'[id] = NoEntry
            /\ \A i \in Ids \ {id} : mClients'[i] = mClients[i]
        BY <2>1, <2>3 DEF Listed
      <3> QED
        BY <2>3, <3>1, CountRemoved
    <2> QED
      BY <2>1, <2>2, <2>3
  <1>4. ASSUME NEW c \in Conns, RegisterWsClient(c) PROVE UriCountsMatch'
    <2>1. allocs + 1 \in Ids
      BY <1>0, <1>4, RegisterFacts
    <2>2. PICK v \in Uris \cup {NoUri} :
            /\ mClients' = [mClients EXCEPT ![allocs + 1] = [conn |-> c, uri |-> v]]
            /\ mUriCounts' = IF v = NoUri THEN mUriCounts ELSE [mUriCounts EXCEPT ![v] = @ + 1]
      BY <1>0, <1>4, RegisterFacts
    <2>3. mClients[allocs + 1] = NoEntry
      BY <1>0, <2>1 DEF IdsGiven, Given
    <2>4. /\ mClients'[allocs + 1] = [conn |-> c, uri |-> v] /\ mClients'[allocs + 1] # NoEntry
          /\ \A i \in Ids \ {allocs + 1} : mClients'[i] = mClients[i]
      <3>1. [conn |-> c, uri |-> v] \in Entry
        BY DEF Entry
      <3> QED
        BY <2>1, <2>2, <3>1, EntryOK DEF TypeOK
    <2>5. ASSUME NEW u \in Uris PROVE mUriCounts'[u] = Cardinality(ReceiversOf(u)')
      <3>1. /\ mUriCounts[u] = Cardinality(ReceiversOf(u))
            /\ IsFiniteSet(ReceiversOf(u)) /\ Cardinality(ReceiversOf(u)) \in Nat
        BY ReceiversFacts DEF UriCountsMatch, ReceiversOf
      <3>2. \A i : i \in ReceiversOf(u)' <=> i \in Ids /\ mClients'[i] # NoEntry /\ mClients'[i].uri = u
        BY DEF ReceiversOf, Receivers, Listed
      <3>3. allocs + 1 \notin ReceiversOf(u) /\ (allocs + 1 \in ReceiversOf(u)' <=> u = v)
        BY <2>1, <2>3, <2>4, <3>2, ReceiversFacts
      <3>4. \A i : i # allocs + 1 => (i \in ReceiversOf(u)' <=> i \in ReceiversOf(u))
        BY <2>4, <3>2, ReceiversFacts
      <3>5. CASE u = v
        <4>1. ReceiversOf(u)' = ReceiversOf(u) \cup {allocs + 1}
          BY <3>3, <3>4, <3>5
        <4>2. mUriCounts'[u] = mUriCounts[u] + 1
          BY <1>0, <2>2, <3>5, ConstantsOK
        <4> QED
          BY <3>1, <3>3, <4>1, <4>2, FS_AddElement
      <3>6. CASE u # v
        <4>1. ReceiversOf(u)' = ReceiversOf(u)
          BY <3>3, <3>4, <3>6
        <4>2. mUriCounts'[u] = mUriCounts[u]
          BY <1>0, <2>2, <3>6
        <4> QED
          BY <3>1, <4>1, <4>2
      <3> QED
        BY <3>5, <3>6
    <2> QED
      BY <2>5 DEF UriCountsMatch, ReceiversOf
  <1>5. ASSUME NEW c \in Conns, OnWsClosed(c) PROVE UriCountsMatch'
    <2>1. /\ cid[c] \in Ids /\ mClients' = [mClients EXCEPT ![cid[c]] = NoEntry]
          /\ mUriCounts' = IF mClients[cid[c]] = NoEntry THEN mUriCounts
                           ELSE DecrementUriCountLocked(mClients[cid[c]].uri)
      BY <1>5, ClosedFacts
    <2>2. mClients'[cid[c]] = NoEntry /\ \A i \in Ids \ {cid[c]} : mClients'[i] = mClients[i]
      BY <2>1 DEF TypeOK
    <2>3. CASE mClients[cid[c]] = NoEntry
      <3>1. mClients' = mClients
        BY <2>1, <2>3 DEF TypeOK
      <3> QED
        BY <1>1, <2>1, <2>3, <3>1
    <2>4. CASE mClients[cid[c]] # NoEntry
      BY <2>1, <2>2, <2>4, CountRemoved
    <2> QED
      BY <2>3, <2>4
  <1>6. ASSUME NEW a \in Apps, NotifyClosedSync(a) \/ Invoke(a) PROVE UriCountsMatch'
    BY <1>1, <1>6, NotifyFacts, InvokeFacts
  <1>7. ASSUME NEW c \in Conns, PostCallback(c) \/ OnWsMessage(c) PROVE UriCountsMatch'
    BY <1>1, <1>7, PostFacts, MessageFacts
  <1>8. ASSUME Deliver PROVE UriCountsMatch'
    BY <1>1, <1>8, DeliverFacts
  <1>9. ASSUME NEW a \in Apps, CloseSessions(a) PROVE Unseen
    BY <1>0, <1>9, CloseSessionsUnseen
  <1> QED
    BY <1>0, <1>2, <1>3, <1>4, <1>5, <1>6, <1>7, <1>8, <1>9, UnseenSteps, Zenon

-----------------------------------------------------------------------------
(***************************************************************************)
(* The theorems.                                                           *)
(***************************************************************************)
LEMMA InitIInv == Init => IInv
  <1> SUFFICES ASSUME Init PROVE IInv
    OBVIOUS
  <1>1. \A a \in Apps : call[a].sync = <<>> /\ call[a].pc = "idle" /\ Taking(a) = {}
    BY DEF Init, Idle, Taking
  <1>2. /\ \A c \in Conns : sess[c] = "idle" /\ pending[c] = <<>>
        /\ \A i \in Ids : mClients[i] = NoEntry /\ closedTold[i] = 0
        /\ \A u \in Uris : mUriCounts[u] = 0
        /\ wq = <<>> /\ Len(wq) = 0 /\ allocs = 0 /\ mNextConnectionId = 1
    BY EmptySeq DEF Init
  <1>3. IdInv
    <2>1. NextIdFresh
      BY <1>2, ConstantsOK DEF NextIdFresh
    <2> QED
      BY <1>2, <2>1 DEF IdInv, IdsGiven, OwnIds, ListedOpen, Live
  <1>4. EventInv
    <2>1. \A c \in Conns : PendingShape(c)
      BY <1>2 DEF PendingShape
    <2>2. \A a \in Apps : SyncShape(a)
      BY <1>1 DEF SyncShape
    <2>3. AddedFirst
      BY <1>2 DEF AddedFirst
    <2> QED
      BY <2>1, <2>2, <2>3 DEF EventInv
  <1>5. CloseInv
    <2>1. ASSUME NEW i \in Ids PROVE OnePlace(i) /\ OnceInPlace(i)
      <3>1. ~SomeTodo(i) /\ TodoOnce(i) /\ ~SomeSync(i) /\ SyncOnce(i)
        BY <1>1 DEF SomeTodo, TodoOnce, SomeSync, SyncOnce, InSync
      <3>2. ~SomePending(i) /\ ~SomeQueue(i) /\ QueueOnce(i)
        BY <1>2 DEF SomePending, InPending, SomeQueue, QueueOnce
      <3>3. ~IsListed(i) /\ ~WasTold(i) /\ closedTold[i] <= 1
        BY <1>2 DEF IsListed, WasTold
      <3> QED
        BY <3>1, <3>2, <3>3 DEF OnePlace, OnceInPlace
    <2> QED
      BY <2>1 DEF CloseInv
  <1>6. NoOrphanSession
    BY <1>2 DEF NoOrphanSession
  <1>7. UriCountsMatch
    <2>1. \A u \in Uris : Receivers({u}) = {}
      BY <1>2 DEF Receivers, Listed
    <2> QED
      BY <1>2, <2>1, FS_EmptySet DEF UriCountsMatch
  <1> QED
    BY <1>3, <1>4, <1>5, <1>6, <1>7, InitType DEF IInv

LEMMA Invariance ==
  ASSUME NoWrap
  PROVE  Spec => []IInv
  <1>1. ASSUME IInv, [Next]_vars PROVE IInv'
    <2>1. TypeOK /\ IdInv /\ EventInv /\ CloseInv /\ NoOrphanSession /\ UriCountsMatch
      BY <1>1 DEF IInv
    <2>2. TypeOK'
      BY <1>1, <2>1, TypeStep
    <2>3. (\A b \in Apps : SyncShape(b)) /\ (\A b \in Apps : SyncShape(b))'
      BY <1>1, <2>1, SyncStep DEF EventInv
    <2>4. EventInv'
      BY <1>1, <2>1, <2>3, PendingStep, AddedStep DEF EventInv
    <2> QED
      BY <1>1, <2>1, <2>2, <2>4, IdStep, CloseStep, OrphanStep, CountStep DEF IInv
  <1> QED
    BY <1>1, InitIInv, PTL DEF Spec

\* mUriCounts is the number of listed clients of every uri, after any mix of
\* registrations, disconnects, RemoveClient(), Stop() and RemoveUri(), as long
\* as mNextConnectionId does not wrap (a registration would then overwrite the
\* entry of a listed client and leave its uri's count too high).
THEOREM CountsAreRight ==
  ASSUME NoWrap
  PROVE  Spec => []UriCountsMatch
  <1>1. IInv => UriCountsMatch
    BY DEF IInv
  <1> QED
    BY <1>1, Invariance, PTL

\* The application's closed callback runs at most once per client and never
\* while the client is listed, whichever of the disconnect, RemoveClient() and
\* Stop() gets to the client first.
THEOREM ClosedOnce ==
  ASSUME NoWrap
  PROVE  Spec => []ClosedAtMostOnce
  <1>1. IInv => ClosedAtMostOnce
    BY DEF IInv, CloseInv, OnePlace, OnceInPlace, IsListed, WasTold, ClosedAtMostOnce
  <1> QED
    BY <1>1, Invariance, PTL

\* No closed or message event of a client is queued before its added event.
THEOREM AddedComesFirst ==
  ASSUME NoWrap
  PROVE  Spec => []AddedFirst
  <1>1. IInv => AddedFirst
    BY DEF IInv, EventInv
  <1> QED
    BY <1>1, Invariance, PTL

\* Every open session is listed, or was told to close, or is about to be.
THEOREM NoConnectionLeftBehind ==
  ASSUME NoWrap
  PROVE  Spec => []NoOrphanSession
  <1>1. IInv => NoOrphanSession
    BY DEF IInv
  <1> QED
    BY <1>1, Invariance, PTL
=============================================================================
