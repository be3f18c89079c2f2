----------------------------- MODULE WorkQueue -----------------------------
(***************************************************************************)
(* CWorkQueue (src/src/CWorkQueue.h): the single-threaded callback queue   *)
(* behind every client and server.  Each action is one critical section of *)
(* mMutex, or one call made after the mutex is released (notify_one, the   *)
(* join, the posted function itself), so every interleaving of posters,    *)
(* stoppers and the worker thread is a behaviour.                          *)
(***************************************************************************)
EXTENDS Integers, Sequences, SequencesExt

CONSTANTS Fns,       \* the functions posted, each posted once
          Stoppers,  \* the threads that call Stop()
          Worker,    \* the queue's own thread; in Stoppers when a posted
                     \* function calls Stop()
          None       \* "no function" / "no thread"

ASSUME ConstantsOK == None \notin Fns \cup Stoppers \cup {Worker}

VARIABLES
  mQueue,    \* std::deque<std::function>: posted, not yet started
  mStopped,
  thread,    \* mThread: "none", "joinable", "joined", "detached"
  worker,    \* Run(): "unstarted", "ready" (about to lock mMutex), "waiting"
             \* (in mCondition.wait), "running" (in fn()), "exited"
  current,   \* the function Run() executes
  poster,    \* Post(f): "idle", "notify" (unlocked, not notified), "done"
  stopper,   \* Stop() by t: "idle", "notify", "join", "returned"
  winner,    \* the thread whose Stop() set mStopped
  accepted,  \* history: functions pushed, in order
  ran        \* history: functions started, in order

vars == <<mQueue, mStopped, thread, worker, current, poster, stopper, winner,
          accepted, ran>>

Init ==
  /\ mQueue = <<>>
  /\ mStopped = FALSE
  /\ thread = "none"
  /\ worker = "unstarted"
  /\ current = None
  /\ poster = [f \in Fns |-> "idle"]
  /\ stopper = [t \in Stoppers |-> "idle"]
  /\ winner = None
  /\ accepted = <<>>
  /\ ran = <<>>

(***************************************************************************)
(* Start() and the critical section and the notification of Post(fn).      *)
(* Start() runs before the owner is handed out, so nothing is posted       *)
(* earlier; if creating the thread throws, the owner's destructor still    *)
(* calls Stop().                                                           *)
(***************************************************************************)
Start ==
  /\ thread = "none" /\ ~mStopped
  /\ thread' = "joinable"
  /\ worker' = "ready"
  /\ UNCHANGED <<mQueue, mStopped, current, poster, stopper, winner, accepted, ran>>

\* The push of fn and what follows the critical section.  Faults: fn was moved
\* from before it is pushed; there is no notify_one().
PushedMovedFrom(f) == Append(mQueue, None)
NoNotify == "done"

Pushed(f) == Append(mQueue, f)
ThenNotify == "notify"

Post(f) ==
  /\ poster[f] = "idle" /\ thread # "none"
  /\ \/ /\ mStopped
        /\ poster' = [poster EXCEPT ![f] = "done"]
        /\ UNCHANGED <<mQueue, accepted>>
     \/ /\ ~mStopped
        /\ mQueue' = Pushed(f)
        /\ accepted' = Append(accepted, f)
        /\ poster' = [poster EXCEPT ![f] = ThenNotify]
  /\ UNCHANGED <<mStopped, thread, worker, current, stopper, winner, ran>>

\* notify_one(): the worker is the only thread that ever waits.
Notify == worker' = IF worker = "waiting" THEN "ready" ELSE worker

PostNotify(f) ==
  /\ poster[f] = "notify"
  /\ poster' = [poster EXCEPT ![f] = "done"]
  /\ Notify
  /\ UNCHANGED <<mQueue, mStopped, thread, current, stopper, winner, accepted, ran>>

(***************************************************************************)
(* Stop() by thread t: the first caller sets mStopped and discards the     *)
(* queue; a later caller returns at once.                                  *)
(***************************************************************************)
\* A thread runs one thing at a time: the worker calls Stop() from inside fn().
MayCallStop(t) == t = Worker => worker = "running"

\* What follows the critical section.  Fault: the worker is not notified.
StraightToJoin == "join"
ThenWake == "notify"

Stop(t) ==
  /\ stopper[t] = "idle" /\ MayCallStop(t)
  /\ \/ /\ mStopped
        /\ stopper' = [stopper EXCEPT ![t] = "returned"]
        /\ UNCHANGED <<mQueue, mStopped, winner>>
     \/ /\ ~mStopped
        /\ mStopped' = TRUE
        /\ mQueue' = <<>>
        /\ winner' = t
        /\ stopper' = [stopper EXCEPT ![t] = ThenWake]
  /\ UNCHANGED <<thread, worker, current, poster, accepted, ran>>

StopNotify(t) ==
  /\ stopper[t] = "notify"
  /\ stopper' = [stopper EXCEPT ![t] = "join"]
  /\ Notify
  /\ UNCHANGED <<mQueue, mStopped, thread, current, poster, winner, accepted, ran>>

\* join() blocks until Run() has returned; the worker detaches itself instead.
\* Fault: every caller detaches the worker.
NeverJoins(t) == FALSE
Joins(t) == t # Worker

StopJoin(t) ==
  /\ stopper[t] = "join"
  /\ \/ thread # "joinable" /\ UNCHANGED thread
     \/ thread = "joinable" /\ ~Joins(t) /\ thread' = "detached"
     \/ thread = "joinable" /\ Joins(t) /\ worker = "exited" /\ thread' = "joined"
  /\ stopper' = [stopper EXCEPT ![t] = "returned"]
  /\ UNCHANGED <<mQueue, mStopped, worker, current, poster, winner, accepted, ran>>

(***************************************************************************)
(* Run().                                                                  *)
(***************************************************************************)
\* The function Run() takes out.  Fault: the newest instead of the oldest.
Newest == Last(mQueue)
Oldest == Head(mQueue)

\* One evaluation of the wait's predicate under mMutex and what follows it.
RunLocked ==
  /\ worker = "ready"
  /\ \/ /\ mStopped
        /\ worker' = "exited"
        /\ UNCHANGED <<mQueue, current, ran>>
     \/ /\ ~mStopped /\ mQueue = <<>>
        /\ worker' = "waiting"
        /\ UNCHANGED <<mQueue, current, ran>>
     \/ /\ ~mStopped /\ mQueue # <<>>
        /\ worker' = "running"
        /\ current' = Oldest
        /\ ran' = Append(ran, Oldest)
        /\ mQueue' = Tail(mQueue)
  /\ UNCHANGED <<mStopped, thread, poster, stopper, winner, accepted>>

SpuriousWakeup ==
  /\ worker = "waiting"
  /\ worker' = "ready"
  /\ UNCHANGED <<mQueue, mStopped, thread, current, poster, stopper, winner, accepted, ran>>

\* fn() returns; a Stop() it called has returned before it.
RunReturn ==
  /\ worker = "running"
  /\ Worker \in Stoppers => stopper[Worker] \in {"idle", "returned"}
  /\ worker' = "ready"
  /\ current' = None
  /\ UNCHANGED <<mQueue, mStopped, thread, poster, stopper, winner, accepted, ran>>

\* Everybody has returned: the object's life is over.
Finished ==
  /\ \A t \in Stoppers \ {Worker} : stopper[t] = "returned"
  /\ \A f \in Fns : poster[f] = "done" \/ thread = "none"
  /\ worker \in {"unstarted", "exited"}
  /\ UNCHANGED vars

Next ==
  \/ Start
  \/ \E f \in Fns : Post(f) \/ PostNotify(f)
  \/ \E t \in Stoppers : Stop(t) \/ StopNotify(t) \/ StopJoin(t)
  \/ RunLocked
  \/ SpuriousWakeup
  \/ RunReturn
  \/ Finished

Spec == Init /\ [][Next]_vars

(***************************************************************************)
(* Threads that are inside Post, Stop or Run keep running, and posted      *)
(* functions return.  Nobody has to call Post or Stop.                     *)
(***************************************************************************)
Fairness ==
  /\ WF_vars(RunLocked)
  /\ WF_vars(RunReturn)
  /\ \A f \in Fns : WF_vars(PostNotify(f))
  /\ \A t \in Stoppers : WF_vars(StopNotify(t)) /\ WF_vars(StopJoin(t))

FairSpec == Spec /\ Fairness

-----------------------------------------------------------------------------
(***************************************************************************)
(* Properties.                                                             *)
(***************************************************************************)
\* The values of the queue's fields, of Run() and of each caller.
TypeOK ==
  /\ mQueue \in Seq(Fns)
  /\ mStopped \in BOOLEAN
  /\ thread \in {"none", "joinable", "joined", "detached"}
  /\ worker \in {"unstarted", "ready", "waiting", "running", "exited"}
  /\ current \in Fns \cup {None}
  /\ poster \in [Fns -> {"idle", "notify", "done"}]
  /\ stopper \in [Stoppers -> {"idle", "notify", "join", "returned"}]
  /\ winner \in Stoppers \cup {None}
  /\ accepted \in Seq(Fns)
  /\ ran \in Seq(Fns)

\* Until Stop() discards the queue, what has been started followed by what is
\* queued is exactly what Post() accepted, in order; Run() starts nothing later.
DeliversInOrder == ~mStopped => ran \o mQueue = accepted

\* The worker never sleeps on work: whenever it waits although its predicate
\* holds (Post() or Stop() already changed the state), a notify_one() is
\* still to come.
NoLostWakeup ==
  worker = "waiting" /\ (mStopped \/ mQueue # <<>>) =>
    \/ \E f \in Fns : poster[f] = "notify"
    \/ \E t \in Stoppers : stopper[t] = "notify"

\* The Stop() that stopped the queue is a barrier: once it has returned to a
\* thread other than the worker, no posted function runs or ever will
\* (Run() has returned or was never started).
JoinBarrier ==
  winner # Worker /\ winner # None /\ stopper[winner] = "returned" =>
    worker \in {"unstarted", "exited"}

\* After Stop() has set mStopped, Run() starts no further function and Post()
\* accepts none.
NoStartAfterStop ==
  [][mStopped => ran' = ran /\ accepted' = accepted /\ mQueue' = <<>>]_vars

\* Every function accepted by Post() is started, or discarded by a Stop().
EventuallyStarted ==
  \A f \in Fns : Contains(mQueue, f) ~> (Contains(ran, f) \/ mStopped)

\* A Stop() that was called returns, whatever the worker was doing.
StopReturns ==
  \A t \in Stoppers : stopper[t] # "idle" ~> stopper[t] = "returned"
=============================================================================
