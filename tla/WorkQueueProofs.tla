-------------------------- MODULE WorkQueueProofs --------------------------
(***************************************************************************)
(* TLAPS proofs about WorkQueue, for any set of posted functions and any   *)
(* set of stopping threads, the worker included.                           *)
(***************************************************************************)
EXTENDS WorkQueue, SequenceLemmas

(***************************************************************************)
(* What Run() and Stop() keep true besides the properties themselves: the  *)
(* states of mThread, Run() and the winning Stop() that go together.       *)
(***************************************************************************)
\* The stopping thread is the one whose Stop() is past its critical section.
OneWinner ==
  /\ mStopped <=> winner # None
  /\ \A t \in Stoppers : stopper[t] \in {"notify", "join"} => t = winner
  /\ winner # None => stopper[winner] # "idle"

\* mThread stops being joinable only in the winner's StopJoin.
ThreadPhase ==
  /\ worker = "unstarted" <=> thread = "none"
  /\ thread = "joined" => worker = "exited"
  /\ thread = "detached" => winner = Worker

\* The queue stays empty once Stop() has discarded it.
StoppedQueue == mStopped => mQueue = <<>>

IInv ==
  /\ TypeOK
  /\ OneWinner
  /\ ThreadPhase
  /\ StoppedQueue
  /\ DeliversInOrder
  /\ NoLostWakeup
  /\ JoinBarrier

-----------------------------------------------------------------------------
\* Init establishes the inductive invariant: nothing queued, nobody waiting.
LEMMA InitIInv == Init => IInv
  <1> SUFFICES ASSUME Init PROVE IInv
    OBVIOUS
  <1> USE DEF Init
  <1>1. TypeOK
    <2>1. mStopped \in BOOLEAN
      BY Zenon
    <2>2. mQueue \in Seq(Fns) /\ accepted \in Seq(Fns) /\ ran \in Seq(Fns)
      BY EmptySeq
    <2> QED
      BY <2>1, <2>2 DEF TypeOK
  <1>2. OneWinner /\ ThreadPhase /\ StoppedQueue
    BY DEF OneWinner, ThreadPhase, StoppedQueue
  <1>3. DeliversInOrder
    <2>1. <<>> \o <<>> = <<>>
      OBVIOUS
    <2> QED
      BY <2>1 DEF DeliversInOrder
  <1>4. NoLostWakeup /\ JoinBarrier
    BY DEF NoLostWakeup, JoinBarrier
  <1> QED
    BY <1>1, <1>2, <1>3, <1>4 DEF IInv

\* Every step of Post, Stop and Run keeps the fields in their types.
LEMMA TypeStep == TypeOK /\ [Next]_vars => TypeOK'
  <1> SUFFICES ASSUME TypeOK, [Next]_vars PROVE TypeOK'
    OBVIOUS
  <1> USE DEF TypeOK
  <1>1. CASE Start
    BY <1>1 DEF Start
  <1>2. ASSUME NEW f \in Fns, Post(f) PROVE TypeOK'
    <2>1. CASE mStopped
      BY <1>2, <2>1 DEF Post, Pushed, ThenNotify
    <2>2. CASE ~mStopped
      <3>1. mStopped' \in BOOLEAN
        BY <1>2, Zenon DEF Post, Pushed, ThenNotify
      <3>2. mQueue' = Append(mQueue, f) /\ accepted' = Append(accepted, f)
        BY <1>2, <2>2, Zenon DEF Post, Pushed, ThenNotify
      <3>3. mQueue' \in Seq(Fns) /\ accepted' \in Seq(Fns)
        BY <3>2
      <3>4. /\ poster' \in [Fns -> {"idle", "notify", "done"}]
            /\ UNCHANGED <<thread, worker, current, stopper, winner, ran>>
        BY <1>2, <2>2 DEF Post, Pushed, ThenNotify
      <3> QED
        BY <3>1, <3>3, <3>4
    <2> QED
      BY <2>1, <2>2
  <1>3. ASSUME NEW f \in Fns, PostNotify(f) PROVE TypeOK'
    BY <1>3 DEF PostNotify, Notify
  <1>4. ASSUME NEW t \in Stoppers, Stop(t) PROVE TypeOK'
    <2>1. CASE mStopped
      BY <1>4, <2>1 DEF Stop, ThenWake
    <2>2. CASE ~mStopped
      <3>1. mStopped' = TRUE
        BY <1>4, <2>2 DEF Stop, ThenWake
      <3> QED
        BY <1>4, <2>2, <3>1, EmptySeq DEF Stop, ThenWake
    <2> QED
      BY <2>1, <2>2
  <1>5. ASSUME NEW t \in Stoppers, StopNotify(t) PROVE TypeOK'
    BY <1>5 DEF StopNotify, Notify
  <1>6. ASSUME NEW t \in Stoppers, StopJoin(t) PROVE TypeOK'
    BY <1>6 DEF StopJoin, Joins
  <1>7. CASE RunLocked
    <2>1. CASE mStopped \/ mQueue = <<>>
      BY <1>7, <2>1 DEF RunLocked, Oldest
    <2>2. CASE ~mStopped /\ mQueue # <<>>
      <3>1. /\ current' = Head(mQueue)
            /\ ran' = Append(ran, Head(mQueue))
            /\ mQueue' = Tail(mQueue)
            /\ worker' = "running"
        BY <1>7, <2>2, Zenon DEF RunLocked, Oldest
      <3>2. Head(mQueue) \in Fns /\ Tail(mQueue) \in Seq(Fns)
        BY <2>2, HeadTailProperties
      <3>3. mStopped' \in BOOLEAN
        BY <1>7, Zenon DEF RunLocked, Oldest
      <3>4. UNCHANGED <<thread, poster, stopper, winner, accepted>>
        BY <1>7 DEF RunLocked, Oldest
      <3> QED
        BY <3>1, <3>2, <3>3, <3>4, AppendProperties
    <2> QED
      BY <2>1, <2>2
  <1>8. CASE SpuriousWakeup
    BY <1>8 DEF SpuriousWakeup
  <1>9. CASE RunReturn
    BY <1>9 DEF RunReturn
  <1>10. CASE Finished
    BY <1>10 DEF Finished, vars
  <1>11. CASE UNCHANGED vars
    BY <1>11 DEF vars
  <1> QED
    BY <1>1, <1>2, <1>3, <1>4, <1>5, <1>6, <1>7, <1>8, <1>9, <1>10, <1>11 DEF Next

\* Stop() has one winner, and mThread follows Run() and that winner.
LEMMA PhaseStep == IInv /\ [Next]_vars => (OneWinner /\ ThreadPhase)'
  <1> SUFFICES ASSUME IInv, [Next]_vars PROVE (OneWinner /\ ThreadPhase)'
    OBVIOUS
  <1> USE DEF IInv, TypeOK, OneWinner, ThreadPhase
  <1>1. CASE Start
    BY <1>1 DEF Start
  <1>2. ASSUME NEW f \in Fns, Post(f) PROVE (OneWinner /\ ThreadPhase)'
    BY <1>2 DEF Post, Pushed, ThenNotify
  <1>3. ASSUME NEW f \in Fns, PostNotify(f) PROVE (OneWinner /\ ThreadPhase)'
    BY <1>3 DEF PostNotify, Notify
  <1>4. ASSUME NEW t \in Stoppers, Stop(t) PROVE (OneWinner /\ ThreadPhase)'
    <2>1. CASE mStopped
      BY <1>4, <2>1 DEF Stop, MayCallStop, ThenWake
    <2>2. CASE ~mStopped
      <3>1. /\ mStopped' = TRUE /\ winner' = t /\ UNCHANGED <<thread, worker>>
            /\ stopper' = [stopper EXCEPT ![t] = "notify"]
            /\ winner = None
        BY <1>4, <2>2 DEF Stop, ThenWake
      <3> QED
        BY <3>1, ConstantsOK
    <2> QED
      BY <2>1, <2>2
  <1>5. ASSUME NEW t \in Stoppers, StopNotify(t) PROVE (OneWinner /\ ThreadPhase)'
    BY <1>5 DEF StopNotify, Notify
  <1>6. ASSUME NEW t \in Stoppers, StopJoin(t) PROVE (OneWinner /\ ThreadPhase)'
    BY <1>6 DEF StopJoin, Joins
  <1>7. CASE RunLocked
    BY <1>7 DEF RunLocked, Oldest
  <1>8. CASE SpuriousWakeup
    BY <1>8 DEF SpuriousWakeup
  <1>9. CASE RunReturn
    BY <1>9 DEF RunReturn
  <1>10. CASE Finished
    BY <1>10 DEF Finished, vars
  <1>11. CASE UNCHANGED vars
    BY <1>11 DEF vars
  <1> QED
    BY <1>1, <1>2, <1>3, <1>4, <1>5, <1>6, <1>7, <1>8, <1>9, <1>10, <1>11 DEF Next

\* The winner returns only after Run() has returned, and Run() never restarts.
LEMMA BarrierStep == IInv /\ [Next]_vars => (JoinBarrier)'
  <1> SUFFICES ASSUME IInv, [Next]_vars PROVE (JoinBarrier)'
    OBVIOUS
  <1> USE DEF IInv, TypeOK, OneWinner, ThreadPhase, JoinBarrier
  <1>1. CASE Start
    BY <1>1 DEF Start
  <1>2. ASSUME NEW f \in Fns, Post(f) PROVE (JoinBarrier)'
    BY <1>2 DEF Post, Pushed, ThenNotify
  <1>3. ASSUME NEW f \in Fns, PostNotify(f) PROVE (JoinBarrier)'
    BY <1>3 DEF PostNotify, Notify
  <1>4. ASSUME NEW t \in Stoppers, Stop(t) PROVE (JoinBarrier)'
    BY <1>4 DEF Stop, MayCallStop, ThenWake
  <1>5. ASSUME NEW t \in Stoppers, StopNotify(t) PROVE (JoinBarrier)'
    BY <1>5 DEF StopNotify, Notify
  <1>6. ASSUME NEW t \in Stoppers, StopJoin(t) PROVE (JoinBarrier)'
    BY <1>6 DEF StopJoin, Joins
  <1>7. CASE RunLocked
    BY <1>7 DEF RunLocked, Oldest
  <1>8. CASE SpuriousWakeup
    BY <1>8 DEF SpuriousWakeup
  <1>9. CASE RunReturn
    BY <1>9 DEF RunReturn
  <1>10. CASE Finished
    BY <1>10 DEF Finished, vars
  <1>11. CASE UNCHANGED vars
    BY <1>11 DEF vars
  <1> QED
    BY <1>1, <1>2, <1>3, <1>4, <1>5, <1>6, <1>7, <1>8, <1>9, <1>10, <1>11 DEF Next

\* A wait begins only on a false predicate, and whoever makes it true notifies.
LEMMA WakeupStep == IInv /\ [Next]_vars => (NoLostWakeup)'
  <1> SUFFICES ASSUME IInv, [Next]_vars PROVE (NoLostWakeup)'
    OBVIOUS
  <1> USE DEF IInv, TypeOK, OneWinner, ThreadPhase, NoLostWakeup
  <1>1. CASE Start
    BY <1>1 DEF Start
  <1>2. ASSUME NEW f \in Fns, Post(f) PROVE (NoLostWakeup)'
    BY <1>2 DEF Post, Pushed, ThenNotify
  <1>3. ASSUME NEW f \in Fns, PostNotify(f) PROVE (NoLostWakeup)'
    BY <1>3 DEF PostNotify, Notify
  <1>4. ASSUME NEW t \in Stoppers, Stop(t) PROVE (NoLostWakeup)'
    BY <1>4 DEF Stop, MayCallStop, ThenWake
  <1>5. ASSUME NEW t \in Stoppers, StopNotify(t) PROVE (NoLostWakeup)'
    BY <1>5 DEF StopNotify, Notify
  <1>6. ASSUME NEW t \in Stoppers, StopJoin(t) PROVE (NoLostWakeup)'
    BY <1>6 DEF StopJoin, Joins
  <1>7. CASE RunLocked
    BY <1>7 DEF RunLocked, Oldest
  <1>8. CASE SpuriousWakeup
    BY <1>8 DEF SpuriousWakeup
  <1>9. CASE RunReturn
    BY <1>9 DEF RunReturn
  <1>10. CASE Finished
    BY <1>10 DEF Finished, vars
  <1>11. CASE UNCHANGED vars
    BY <1>11 DEF vars
  <1> QED
    BY <1>1, <1>2, <1>3, <1>4, <1>5, <1>6, <1>7, <1>8, <1>9, <1>10, <1>11 DEF Next

\* Post() appends to both sides of the equation, Run() moves the head across.
LEMMA OrderStep == IInv /\ [Next]_vars => (StoppedQueue /\ DeliversInOrder)'
  <1> SUFFICES ASSUME IInv, [Next]_vars PROVE (StoppedQueue /\ DeliversInOrder)'
    OBVIOUS
  <1> USE DEF IInv, TypeOK, StoppedQueue, DeliversInOrder
  <1>1. CASE Start
    BY <1>1 DEF Start
  <1>2. ASSUME NEW f \in Fns, Post(f) PROVE (StoppedQueue /\ DeliversInOrder)'
    <2>1. CASE mStopped
      BY <1>2, <2>1 DEF Post, Pushed, ThenNotify
    <2>2. CASE ~mStopped
      <3>1. /\ mQueue' = Append(mQueue, f) /\ accepted' = Append(accepted, f)
            /\ ran' = ran /\ ~mStopped'
        BY <1>2, <2>2, Zenon DEF Post, Pushed, ThenNotify
      <3>2. ran \o mQueue = accepted
        BY <2>2
      <3>3. ran \o Append(mQueue, f) = Append(ran \o mQueue, f)
        BY AppendConcat
      <3> QED
        BY <3>1, <3>2, <3>3
    <2> QED
      BY <2>1, <2>2
  <1>3. ASSUME NEW f \in Fns, PostNotify(f) PROVE (StoppedQueue /\ DeliversInOrder)'
    BY <1>3 DEF PostNotify, Notify
  <1>4. ASSUME NEW t \in Stoppers, Stop(t) PROVE (StoppedQueue /\ DeliversInOrder)'
    BY <1>4 DEF Stop, MayCallStop, ThenWake
  <1>5. ASSUME NEW t \in Stoppers, StopNotify(t) PROVE (StoppedQueue /\ DeliversInOrder)'
    BY <1>5 DEF StopNotify, Notify
  <1>6. ASSUME NEW t \in Stoppers, StopJoin(t) PROVE (StoppedQueue /\ DeliversInOrder)'
    BY <1>6 DEF StopJoin, Joins
  <1>7. CASE RunLocked
    <2>1. CASE mStopped \/ mQueue = <<>>
      BY <1>7, <2>1 DEF RunLocked, Oldest
    <2>2. CASE ~mStopped /\ mQueue # <<>>
      <3>1. /\ ran' = Append(ran, Head(mQueue)) /\ mQueue' = Tail(mQueue)
            /\ accepted' = accepted /\ ~mStopped'
        BY <1>7, <2>2, Zenon DEF RunLocked, Oldest
      <3>2. ran \o mQueue = accepted
        BY <2>2
      <3> QED
        BY <2>2, <3>1, <3>2, MoveHead
    <2> QED
      BY <2>1, <2>2
  <1>8. CASE SpuriousWakeup
    BY <1>8 DEF SpuriousWakeup
  <1>9. CASE RunReturn
    BY <1>9 DEF RunReturn
  <1>10. CASE Finished
    BY <1>10 DEF Finished, vars
  <1>11. CASE UNCHANGED vars
    BY <1>11 DEF vars
  <1> QED
    BY <1>1, <1>2, <1>3, <1>4, <1>5, <1>6, <1>7, <1>8, <1>9, <1>10, <1>11 DEF Next

\* Every step of the queue preserves the inductive invariant.
LEMMA StepIInv == IInv /\ [Next]_vars => IInv'
  BY TypeStep, PhaseStep, BarrierStep, WakeupStep, OrderStep DEF IInv

\* The inductive invariant holds in every reachable state.
LEMMA InvariantHolds == Spec => []IInv
  BY InitIInv, StepIInv, PTL DEF Spec

-----------------------------------------------------------------------------
\* The fields of CWorkQueue and the positions of Post, Stop and Run always
\* have their types.
THEOREM TypeCorrect == Spec => []TypeOK
  <1>1. IInv => TypeOK
    BY DEF IInv
  <1> QED
    BY <1>1, InvariantHolds, PTL

\* Functions are started in the order in which Post() accepted them and none
\* is lost before Stop().
THEOREM Fifo == Spec => []DeliversInOrder
  <1>1. IInv => DeliversInOrder
    BY DEF IInv
  <1> QED
    BY <1>1, InvariantHolds, PTL

\* The worker never waits on a true predicate without a notify_one() to come.
THEOREM WakeupNotLost == Spec => []NoLostWakeup
  <1>1. IInv => NoLostWakeup
    BY DEF IInv
  <1> QED
    BY <1>1, InvariantHolds, PTL

\* When the Stop() that stopped the queue has returned to another thread, no
\* posted function is running or will ever run.
THEOREM StopBarrier == Spec => []JoinBarrier
  <1>1. IInv => JoinBarrier
    BY DEF IInv
  <1> QED
    BY <1>1, InvariantHolds, PTL

\* Once stopped, no step starts or accepts a function or queues one.
THEOREM StoppedForGood == Spec => NoStartAfterStop
  <1>1. IInv /\ [Next]_vars => [mStopped => ran' = ran /\ accepted' = accepted /\ mQueue' = <<>>]_vars
    <2> SUFFICES ASSUME IInv, [Next]_vars, mStopped
                 PROVE  ran' = ran /\ accepted' = accepted /\ mQueue' = <<>>
      OBVIOUS
    <2>1. mQueue = <<>>
      BY DEF IInv, StoppedQueue
    <2> QED
      BY <2>1 DEF Next, vars, Start, Post, PostNotify, Stop, Joins, StopNotify, StopJoin,
                  RunLocked, SpuriousWakeup, RunReturn, Finished
  <1> QED
    BY <1>1, InvariantHolds, PTL DEF Spec, NoStartAfterStop
=============================================================================
