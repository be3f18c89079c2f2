---------------------------- MODULE IoPoolProofs ----------------------------
(***************************************************************************)
(* Theorems about IoPool, for any threads and instances.                   *)
(***************************************************************************)
EXTENDS IoPool, TLAPS, SequenceTheorems

\* The join loop of Stop(): nothing happens to the threads' list before Stop(),
\* a thread that has left the list has returned unless it is the caller, and
\* Stop() returns with an empty list.
JoinLoop ==
  /\ ~mStopped => unjoined = Threads /\ stopDone = FALSE
  /\ stopDone => unjoined = {}
  /\ \A t \in Threads : t \in unjoined \/ t = stopper \/ thread[t] = "returned"

\* A held instance holds the pool, and ~CIoPool runs only when nobody does.
References ==
  /\ \A i \in Instances : implRefs[i] # {} => i \in poolRefs
  /\ destroying => poolRefs = {}
  /\ destroyed => poolRefs = {}

IInv == TypeOK /\ JoinLoop /\ References

\* The constructor establishes the invariant.
LEMMA InitIInv == Init => IInv
  <1> SUFFICES ASSUME Init PROVE IInv
    OBVIOUS
  <1>1. ready \in Seq(Instances)
    BY EmptySeq DEF Init
  <1>2. TypeOK
    BY <1>1 DEF Init, mThreads, TypeOK
  <1>3. JoinLoop
    BY DEF Init, mThreads, JoinLoop
  <1>4. References
    BY DEF Init, mThreads, References
  <1> QED
    BY <1>2, <1>3, <1>4 DEF IInv

-----------------------------------------------------------------------------
\* Stop(), by whatever thread and from whatever destructor, keeps the types.
LEMMA StopByType ==
  ASSUME TypeOK, NEW c \in Threads \cup {App}, NEW d \in BOOLEAN, StopBy(c, d)
  PROVE  /\ mStopped' \in BOOLEAN /\ destroying' \in BOOLEAN /\ destroyed' \in BOOLEAN
         /\ stopDone' \in BOOLEAN /\ stopper' \in Threads \cup {App, NoOne}
         /\ unjoined' \subseteq Threads
  BY DEF TypeOK, StopBy

\* Dropping a reference to the pool keeps the types ...
LEMMA DropPoolType ==
  ASSUME TypeOK, NEW c \in Threads \cup {App}, NEW r \in Instances \cup {App}, DropPool(c, r)
  PROVE  /\ mStopped' \in BOOLEAN /\ destroying' \in BOOLEAN /\ destroyed' \in BOOLEAN
         /\ stopDone' \in BOOLEAN /\ stopper' \in Threads \cup {App, NoOne}
         /\ unjoined' \subseteq Threads /\ poolRefs' \subseteq Instances \cup {App}
  <1>1. CASE poolRefs \subseteq {r}
    <2>1. StopBy(c, TRUE)
      BY <1>1 DEF DropPool
    <2> QED
      BY <2>1, StopByType DEF DropPool, TypeOK
  <1>2. CASE ~(poolRefs \subseteq {r})
    BY <1>2 DEF DropPool, TypeOK, pool
  <1> QED
    BY <1>1, <1>2

\* ... and so does dropping a reference to an instance.
LEMMA DropInstanceType ==
  ASSUME TypeOK, NEW c \in Threads \cup {App}, NEW i \in Instances, DropInstance(c, i)
  PROVE  /\ mStopped' \in BOOLEAN /\ destroying' \in BOOLEAN /\ destroyed' \in BOOLEAN
         /\ stopDone' \in BOOLEAN /\ stopper' \in Threads \cup {App, NoOne}
         /\ unjoined' \subseteq Threads /\ poolRefs' \subseteq Instances \cup {App}
         /\ implRefs' \in [Instances -> SUBSET (Threads \cup {App})]
  <1>1. implRefs' \in [Instances -> SUBSET (Threads \cup {App})]
    BY DEF DropInstance, TypeOK
  <1>2. CASE LastHolder(c, i)
    <2>1. DropPool(c, i)
      BY <1>2 DEF DropInstance
    <2> QED
      BY <1>1, <2>1, DropPoolType
  <1>3. CASE ~LastHolder(c, i)
    BY <1>1, <1>3 DEF DropInstance, TypeOK, pool
  <1> QED
    BY <1>2, <1>3

\* Every step keeps the types.
LEMMA StepType == TypeOK /\ [Next]_vars => TypeOK'
  <1> SUFFICES ASSUME TypeOK, [Next]_vars PROVE TypeOK'
    OBVIOUS
  <1> USE PoolOK
  <1>1. ASSUME NEW i \in Instances, Create(i) PROVE TypeOK'
    BY <1>1 DEF Create, TypeOK, pool
  <1>2. ASSUME NEW i \in Instances, DestroyInstance(i) PROVE TypeOK'
    BY <1>2, DropInstanceType DEF DestroyInstance, TypeOK
  <1>3. ASSUME NEW i \in Instances, OperationReady(i) PROVE TypeOK'
    <2>1. ready' \in Seq(Instances) /\ made' \in Nat
      BY <1>3, AppendProperties DEF OperationReady, TypeOK
    <2> QED
      BY <1>3, <2>1 DEF OperationReady, TypeOK, pool, refs
  <1>4. CASE Stop
    BY <1>4, StopByType DEF Stop, TypeOK, refs
  <1>5. CASE ReleasePool
    BY <1>5, DropPoolType DEF ReleasePool, TypeOK
  <1>6. CASE StopDone
    BY <1>6 DEF StopDone, TypeOK, refs
  <1>7. ASSUME NEW t \in Threads, JoinThread(t) PROVE TypeOK'
    BY <1>7 DEF JoinThread, TypeOK, refs
  <1>8. ASSUME NEW t \in Threads, RunHandler(t) PROVE TypeOK'
    <2>1. Head(ready) \in Instances /\ ready' \in Seq(Instances)
      BY <1>8, HeadTailProperties DEF RunHandler, TypeOK
    <2> QED
      BY <1>8, <2>1 DEF RunHandler, TypeOK, pool
  <1>9. ASSUME NEW t \in Threads, HandlerReturns(t) PROVE TypeOK'
    <2>1. CASE handling[t] = NoOne
      BY <1>9, <2>1 DEF HandlerReturns, TypeOK, pool
    <2>2. CASE handling[t] # NoOne
      <3>1. handling[t] \in Instances /\ DropInstance(t, handling[t])
        BY <1>9, <2>2 DEF HandlerReturns, TypeOK
      <3> QED
        BY <1>9, <3>1, DropInstanceType DEF HandlerReturns, TypeOK
    <2> QED
      BY <2>1, <2>2
  <1>10. ASSUME NEW t \in Threads, RunReturns(t) PROVE TypeOK'
    BY <1>10 DEF RunReturns, TypeOK, pool, refs
  <1>11. ASSUME NEW t \in Threads, DestructorReturns(t) PROVE TypeOK'
    BY <1>11 DEF DestructorReturns, TypeOK, pool, refs
  <1>12. CASE UNCHANGED vars
    BY <1>12 DEF TypeOK, vars, pool, refs
  <1> QED
    BY <1>1, <1>2, <1>3, <1>4, <1>5, <1>6, <1>7, <1>8, <1>9, <1>10, <1>11, <1>12 DEF Next

-----------------------------------------------------------------------------
\* What Stop() and the drops do to mStopped and the thread list: Stop() begins
\* at most once and leaves the list alone.
StopBegins(c) ==
  \/ UNCHANGED <<mStopped, stopper, stopDone, unjoined>>
  \/ ~mStopped /\ mStopped' = TRUE /\ stopper' = c /\ UNCHANGED <<stopDone, unjoined>>

\* Stop() does, dropping a pool reference does, dropping an instance does.
LEMMA StopByBegins == ASSUME NEW c, NEW d, StopBy(c, d) PROVE StopBegins(c)
  BY DEF StopBy, StopBegins

LEMMA DropPoolBegins == ASSUME NEW c, NEW r, DropPool(c, r) PROVE StopBegins(c)
  BY StopByBegins DEF DropPool, StopBegins, pool

LEMMA DropInstanceBegins == ASSUME NEW c, NEW i, DropInstance(c, i) PROVE StopBegins(c)
  BY DropPoolBegins DEF DropInstance, StopBegins, pool

\* Such a step keeps the join loop's invariant, whatever threads return.
LEMMA JoinLoopKept ==
  ASSUME TypeOK, JoinLoop, NEW c, StopBegins(c),
         \A t \in Threads : thread[t] = "returned" => thread'[t] = "returned"
  PROVE  JoinLoop'
  BY DEF TypeOK, JoinLoop, StopBegins

\* Every step keeps the join loop's invariant.
LEMMA StepJoinLoop == TypeOK /\ JoinLoop /\ [Next]_vars => JoinLoop'
  <1> SUFFICES ASSUME TypeOK, JoinLoop, [Next]_vars PROVE JoinLoop'
    OBVIOUS
  <1>1. ASSUME NEW i \in Instances, Create(i) PROVE JoinLoop'
    BY <1>1 DEF Create, JoinLoop, pool
  <1>2. ASSUME NEW i \in Instances, DestroyInstance(i) PROVE JoinLoop'
    BY <1>2, DropInstanceBegins, JoinLoopKept DEF DestroyInstance
  <1>3. ASSUME NEW i \in Instances, OperationReady(i) PROVE JoinLoop'
    BY <1>3 DEF OperationReady, JoinLoop, pool
  <1>4. CASE Stop
    BY <1>4, StopByBegins, JoinLoopKept DEF Stop
  <1>5. CASE ReleasePool
    BY <1>5, DropPoolBegins, JoinLoopKept DEF ReleasePool
  <1>6. CASE StopDone
    BY <1>6 DEF StopDone, JoinLoop
  <1>7. ASSUME NEW t \in Threads, JoinThread(t) PROVE JoinLoop'
    BY <1>7 DEF JoinThread, Joinable, JoinLoop, TypeOK
  <1>8. ASSUME NEW t \in Threads, RunHandler(t) PROVE JoinLoop'
    BY <1>8 DEF RunHandler, JoinLoop, TypeOK, pool
  <1>9. ASSUME NEW t \in Threads, HandlerReturns(t) PROVE JoinLoop'
    <2>1. StopBegins(t)
      BY <1>9, DropInstanceBegins DEF HandlerReturns, StopBegins, pool
    <2>2. \A u \in Threads : thread[u] = "returned" => thread'[u] = "returned"
      BY <1>9 DEF HandlerReturns, TypeOK
    <2> QED
      BY <2>1, <2>2, JoinLoopKept
  <1>10. ASSUME NEW t \in Threads, RunReturns(t) PROVE JoinLoop'
    BY <1>10 DEF RunReturns, JoinLoop, TypeOK, pool
  <1>11. ASSUME NEW t \in Threads, DestructorReturns(t) PROVE JoinLoop'
    BY <1>11 DEF DestructorReturns, JoinLoop, TypeOK, pool
  <1>12. CASE UNCHANGED vars
    BY <1>12 DEF JoinLoop, vars, pool
  <1> QED
    BY <1>1, <1>2, <1>3, <1>4, <1>5, <1>6, <1>7, <1>8, <1>9, <1>10, <1>11, <1>12 DEF Next

-----------------------------------------------------------------------------
\* Dropping a reference to the pool begins its destructor only if it was the
\* last one.
LEMMA DropPoolRefs ==
  ASSUME TypeOK, References, NEW c \in Threads \cup {App}, NEW r \in Instances \cup {App},
         DropPool(c, r)
  PROVE  /\ poolRefs' = poolRefs \ {r}
         /\ destroying' => poolRefs' = {}
         /\ destroyed' => poolRefs' = {}
  <1>1. CASE poolRefs \subseteq {r}
    BY <1>1 DEF DropPool
  <1>2. CASE ~(poolRefs \subseteq {r})
    BY <1>2 DEF DropPool, References, pool
  <1> QED
    BY <1>1, <1>2

\* Dropping a reference to an instance releases its pool only with the last one.
LEMMA DropInstanceRefs ==
  ASSUME TypeOK, References, NEW c \in Threads \cup {App}, NEW i \in Instances,
         DropInstance(c, i)
  PROVE  References'
  <1>1. implRefs' = [implRefs EXCEPT ![i] = @ \ {c}]
    BY DEF DropInstance
  <1>2. CASE LastHolder(c, i)
    <2>1. /\ poolRefs' = poolRefs \ {i}
          /\ destroying' => poolRefs' = {}
          /\ destroyed' => poolRefs' = {}
      BY <1>2, DropPoolRefs DEF DropInstance
    <2>2. implRefs'[i] = {}
      BY <1>1, <1>2 DEF LastHolder, TypeOK
    <2>3. \A j \in Instances \ {i} : implRefs'[j] = implRefs[j]
      BY <1>1 DEF TypeOK
    <2>4. \A j \in Instances : implRefs'[j] # {} => j \in poolRefs'
      BY <2>1, <2>2, <2>3 DEF References
    <2> QED
      BY <2>1, <2>4 DEF References
  <1>3. CASE ~LastHolder(c, i)
    <2>1. \A j \in Instances : implRefs'[j] # {} => implRefs[j] # {}
      BY <1>1 DEF TypeOK
    <2> QED
      BY <1>3, <2>1 DEF DropInstance, References, pool
  <1> QED
    BY <1>2, <1>3

\* Every step keeps the references' invariant.
LEMMA StepReferences == TypeOK /\ References /\ [Next]_vars => References'
  <1> SUFFICES ASSUME TypeOK, References, [Next]_vars PROVE References'
    OBVIOUS
  <1> USE PoolOK
  <1>1. ASSUME NEW i \in Instances, Create(i) PROVE References'
    BY <1>1 DEF Create, References, TypeOK, pool
  <1>2. ASSUME NEW i \in Instances, DestroyInstance(i) PROVE References'
    BY <1>2, DropInstanceRefs DEF DestroyInstance
  <1>3. ASSUME NEW i \in Instances, OperationReady(i) PROVE References'
    BY <1>3 DEF OperationReady, References, pool, refs
  <1>4. CASE Stop
    BY <1>4 DEF Stop, StopBy, References, refs
  <1>5. CASE ReleasePool
    BY <1>5, DropPoolRefs DEF ReleasePool, References
  <1>6. CASE StopDone
    BY <1>6 DEF StopDone, References, refs
  <1>7. ASSUME NEW t \in Threads, JoinThread(t) PROVE References'
    BY <1>7 DEF JoinThread, References, refs
  <1>8. ASSUME NEW t \in Threads, RunHandler(t) PROVE References'
    <2>1. \A j \in Instances : implRefs'[j] # {} => implRefs[j] # {}
      BY <1>8 DEF RunHandler, TypeOK
    <2> QED
      BY <1>8, <2>1 DEF RunHandler, References, pool
  <1>9. ASSUME NEW t \in Threads, HandlerReturns(t) PROVE References'
    <2>1. CASE handling[t] = NoOne
      BY <1>9, <2>1 DEF HandlerReturns, References, pool
    <2>2. CASE handling[t] # NoOne
      <3>1. handling[t] \in Instances /\ DropInstance(t, handling[t])
        BY <1>9, <2>2 DEF HandlerReturns, TypeOK
      <3> QED
        BY <3>1, DropInstanceRefs
    <2> QED
      BY <2>1, <2>2
  <1>10. ASSUME NEW t \in Threads, RunReturns(t) PROVE References'
    BY <1>10 DEF RunReturns, References, pool, refs
  <1>11. ASSUME NEW t \in Threads, DestructorReturns(t) PROVE References'
    BY <1>11 DEF DestructorReturns, References, pool, refs
  <1>12. CASE UNCHANGED vars
    BY <1>12 DEF References, vars, pool, refs
  <1> QED
    BY <1>1, <1>2, <1>3, <1>4, <1>5, <1>6, <1>7, <1>8, <1>9, <1>10, <1>11, <1>12 DEF Next

-----------------------------------------------------------------------------
\* The invariant holds in every state.
LEMMA InvariantHolds == Spec => []IInv
  <1>1. IInv /\ [Next]_vars => IInv'
    BY StepType, StepJoinLoop, StepReferences DEF IInv
  <1> QED
    BY <1>1, InitIInv, PTL DEF Spec

\* The fields of CIoPool, its threads and the references keep their types.
THEOREM TypeCorrect == Spec => []TypeOK
  <1>1. IInv => TypeOK
    BY DEF IInv
  <1> QED
    BY <1>1, InvariantHolds, PTL

\* Once Stop() has returned, every thread but its caller has left run(), for
\* any number of threads.
THEOREM StopJoinsOthers == Spec => []OthersJoined
  <1>1. IInv => OthersJoined
    BY DEF IInv, JoinLoop, OthersJoined
  <1> QED
    BY <1>1, InvariantHolds, PTL

\* Whatever order the application lets go of pool and instances in, and
\* whichever thread drops the last reference, an instance in use has its pool.
THEOREM PoolLivesLongEnough == Spec => []PoolOutlivesInstances
  <1>1. IInv => PoolOutlivesInstances
    BY DEF IInv, References, PoolOutlivesInstances
  <1> QED
    BY <1>1, InvariantHolds, PTL
=============================================================================
