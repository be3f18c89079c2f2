------------------------------- MODULE IoPool -------------------------------
(***************************************************************************)
(* CIoPool (src/src/CIoPool.cpp) with the servers and clients that share   *)
(* it: the threads inside io_context::run(), the references that keep the  *)
(* pool and the instances (CImpl objects) alive, Stop() and the            *)
(* destructors.  A handler locks the weak pointer to its instance and may  *)
(* so be the one that destroys it, and with it the pool.                   *)
(***************************************************************************)
EXTENDS Naturals, Sequences, FiniteSets

CONSTANTS
  Threads,    \* the pool's threads
  Instances,  \* servers and clients created with the pool
  App,        \* the application's thread, owner of the pool and the instances
  NoOne,      \* no caller, no instance
  MaxReady    \* bound on the handlers made ready

ASSUME PoolOK ==
  /\ Threads # {} /\ App \notin Threads /\ NoOne \notin Threads \cup Instances \cup {App}
  /\ App \notin Instances /\ MaxReady \in Nat

VARIABLES
  mStopped,    \* with it the work guard is reset and the context is stopped
  stopper,     \* the thread whose Stop() passed the compare-exchange
  stopDone,    \* that Stop() has returned
  destroying,  \* ~CIoPool called that Stop()
  destroyed,   \* the io_context is gone
  unjoined,    \* threads Stop() has neither joined nor detached
  thread,      \* each thread: "run", "handler", "stopping", "returned"
  handling,    \* the instance whose pointer a handler has locked
  poolRefs,    \* who holds a CIoPoolPtr
  implRefs,    \* who holds each instance: App and the handlers that locked it
  created,     \* instances the application has made
  ready,       \* handlers ready to run, by the instance they belong to
  made         \* number of handlers made ready

pool == <<mStopped, stopper, stopDone, destroying, destroyed, unjoined>>
refs == <<poolRefs, implRefs, created>>
vars == <<pool, thread, handling, refs, ready, made>>

\* Fault: resize() instead of reserve() leaves a handle of no thread.
ResizedHandles == Threads \cup {NoOne}

\* The handles in mThreads: one for each thread the constructor starts.
mThreads == Threads

\* The constructor starts every thread; the guard keeps run() from returning.
Init ==
  /\ mStopped = FALSE /\ stopper = NoOne /\ stopDone = FALSE /\ destroying = FALSE /\ destroyed = FALSE
  /\ unjoined = mThreads
  /\ thread = [t \in Threads |-> "run"]
  /\ handling = [t \in Threads |-> NoOne]
  /\ poolRefs = {App} /\ implRefs = [i \in Instances |-> {}] /\ created = {}
  /\ ready = <<>> /\ made = 0

-----------------------------------------------------------------------------
(***************************************************************************)
(* Stop() and the release of references.                                   *)
(***************************************************************************)
\* Thread c calls Stop(), from ~CIoPool or not: only the first call stops.
StopBy(c, fromDestructor) ==
  IF mStopped
  THEN /\ destroyed' = fromDestructor
       /\ UNCHANGED <<mStopped, stopper, stopDone, destroying, unjoined>>
  ELSE /\ mStopped' = TRUE /\ stopper' = c /\ destroying' = fromDestructor
       /\ UNCHANGED <<stopDone, unjoined, destroyed>>

\* Thread c drops reference r to the pool; the last one destroys it.
DropPool(c, r) ==
  /\ poolRefs' = poolRefs \ {r}
  /\ IF poolRefs \subseteq {r} THEN StopBy(c, TRUE) ELSE UNCHANGED pool

\* Fault: the instance gives up the pool when its owner lets go of it.
OwnerLetsGo(c, i) == c = App

LastHolder(c, i) == implRefs[i] = {c}

\* Thread c drops its reference to instance i; the last one destroys it, and
\* with it the instance's reference to the pool.
DropInstance(c, i) ==
  /\ implRefs' = [implRefs EXCEPT ![i] = @ \ {c}]
  /\ IF LastHolder(c, i) THEN DropPool(c, i) ELSE UNCHANGED <<pool, poolRefs>>

\* Fault: every thread is detached instead of being joined.
JoinableNow(t) == TRUE

\* The join loop of Stop(): a thread is joined when it has returned, the
\* calling thread itself is detached.
Joinable(t) == t = stopper \/ thread[t] = "returned"

JoinThread(t) ==
  /\ mStopped /\ t \in unjoined /\ Joinable(t)
  /\ unjoined' = unjoined \ {t}
  /\ UNCHANGED <<mStopped, stopper, stopDone, destroying, destroyed, thread, handling, refs, ready, made>>

\* Stop() returns; a destructor goes on to destroy the context.
StopDone ==
  /\ mStopped /\ unjoined = {} /\ ~stopDone
  /\ stopDone' = TRUE
  /\ destroyed' = destroying
  /\ UNCHANGED <<mStopped, stopper, destroying, unjoined, thread, handling, refs, ready, made>>

-----------------------------------------------------------------------------
(***************************************************************************)
(* The application's thread, when it is not inside Stop().                 *)
(***************************************************************************)
AppFree == (stopper = App => stopDone) /\ ~destroyed

\* CImpl's constructor takes a reference to the pool of its settings, stopped or
\* not.
Create(i) ==
  /\ AppFree /\ App \in poolRefs /\ i \notin created
  /\ created' = created \cup {i}
  /\ implRefs' = [implRefs EXCEPT ![i] = {App}]
  /\ poolRefs' = poolRefs \cup {i}
  /\ UNCHANGED <<pool, thread, handling, ready, made>>

\* The destructor of a server or client, after its Shutdown().
DestroyInstance(i) ==
  /\ AppFree /\ App \in implRefs[i]
  /\ DropInstance(App, i)
  /\ UNCHANGED <<thread, handling, created, ready, made>>

\* An explicit Stop(), also of a pool that instances still use: their handlers
\* are then abandoned.
Stop ==
  /\ AppFree /\ App \in poolRefs
  /\ StopBy(App, FALSE)
  /\ UNCHANGED <<thread, handling, refs, ready, made>>

\* The application lets go of its pool pointer, before or after it destroys
\* its instances: they hold references of their own.
ReleasePool ==
  /\ AppFree /\ App \in poolRefs
  /\ DropPool(App, App)
  /\ UNCHANGED <<thread, handling, implRefs, created, ready, made>>

-----------------------------------------------------------------------------
(***************************************************************************)
(* The io context and the pool's threads.                                  *)
(***************************************************************************)
\* An operation of instance i or of one of its sessions completes.
OperationReady(i) ==
  /\ i \in created /\ made < MaxReady /\ ~destroyed
  /\ ready' = Append(ready, i) /\ made' = made + 1
  /\ UNCHANGED <<pool, thread, handling, refs>>

\* A thread takes the next handler, which locks the instance if it still lives.
RunHandler(t) ==
  /\ thread[t] = "run" /\ ready # <<>> /\ ~mStopped
  /\ LET i == Head(ready) IN
     \/ /\ implRefs[i] = {}
        /\ UNCHANGED <<handling, implRefs>>
     \/ /\ implRefs[i] # {}
        /\ handling' = [handling EXCEPT ![t] = i]
        /\ implRefs' = [implRefs EXCEPT ![i] = @ \cup {t}]
  /\ thread' = [thread EXCEPT ![t] = "handler"]
  /\ ready' = Tail(ready)
  /\ UNCHANGED <<pool, poolRefs, created, made>>

\* The handler returns to run(), unless its release of the instance destroys
\* the pool: then it first has to come out of that destructor.
HandlerReturns(t) ==
  /\ thread[t] = "handler"
  /\ IF handling[t] = NoOne THEN UNCHANGED <<pool, poolRefs, implRefs>>
                            ELSE DropInstance(t, handling[t])
  /\ handling' = [handling EXCEPT ![t] = NoOne]
  /\ thread' = [thread EXCEPT ![t] = IF stopper' = t THEN "stopping" ELSE "run"]
  /\ UNCHANGED <<created, ready, made>>

\* Fault: the context has no work guard.
OutOfWorkUnguarded == mStopped \/ ready = <<>>

\* run() returns once the context is stopped; the work guard rules out that it
\* returns for lack of work before.
OutOfWork == mStopped

RunReturns(t) ==
  /\ thread[t] = "run" /\ OutOfWork
  /\ thread' = [thread EXCEPT ![t] = "returned"]
  /\ UNCHANGED <<pool, handling, refs, ready, made>>

\* The handler that destroyed the pool returns into run().
DestructorReturns(t) ==
  /\ thread[t] = "stopping" /\ stopDone
  /\ thread' = [thread EXCEPT ![t] = "run"]
  /\ UNCHANGED <<pool, handling, refs, ready, made>>

Next ==
  \/ \E i \in Instances : Create(i) \/ DestroyInstance(i) \/ OperationReady(i)
  \/ Stop \/ ReleasePool \/ StopDone
  \/ \E t \in Threads : JoinThread(t) \/ RunHandler(t) \/ HandlerReturns(t) \/ RunReturns(t)
  \/ \E t \in Threads : DestructorReturns(t)
  \/ destroyed /\ UNCHANGED vars

Spec == Init /\ [][Next]_vars

\* The threads run, handlers return, Stop() goes on; nothing is assumed of the
\* application.
Fairness ==
  /\ WF_vars(StopDone)
  /\ \A t \in Threads : /\ WF_vars(JoinThread(t)) /\ WF_vars(RunHandler(t))
                        /\ WF_vars(HandlerReturns(t)) /\ WF_vars(RunReturns(t))

FairSpec == Spec /\ Fairness
-----------------------------------------------------------------------------
(***************************************************************************)
(* Properties.                                                             *)
(***************************************************************************)
\* The pool's fields, its threads and the references.
TypeOK ==
  /\ mStopped \in BOOLEAN /\ destroying \in BOOLEAN /\ destroyed \in BOOLEAN
  /\ stopDone \in BOOLEAN /\ stopper \in Threads \cup {App, NoOne} /\ unjoined \subseteq Threads
  /\ thread \in [Threads -> {"run", "handler", "stopping", "returned"}]
  /\ handling \in [Threads -> Instances \cup {NoOne}]
  /\ poolRefs \subseteq Instances \cup {App}
  /\ implRefs \in [Instances -> SUBSET (Threads \cup {App})]
  /\ created \subseteq Instances /\ ready \in Seq(Instances) /\ made \in Nat

\* When Stop() or the destructor is done, no thread but the calling one is
\* inside run() or a handler: with a caller outside the pool nobody uses the
\* context that is destroyed next.
OthersJoined == stopDone => \A t \in Threads \ {stopper} : thread[t] = "returned"

\* An instance that anyone still uses has its pool: while a handler or the
\* application holds it, the context exists and is referenced.
PoolOutlivesInstances ==
  \A i \in Instances : implRefs[i] # {} => i \in poolRefs /\ ~destroyed

\* A handler that is ready is run unless the pool is stopped, however the
\* instances and the other handlers come and go; and a Stop() returns.
PoolProgress ==
  /\ \A n \in 1 .. MaxReady : made >= n ~> made - Len(ready) >= n \/ mStopped
  /\ mStopped ~> stopDone

\* "Stops the pool: outstanding IO is abandoned and the threads are joined":
\* all of them.
ThreadsJoined == stopDone => \A t \in Threads : thread[t] = "returned"
=============================================================================
