\* Three functions, one external Stop() and one from inside a function.
CONSTANTS
  Fns = {f1, f2, f3}
  Worker = w
  Stoppers = {w, s1}
  None = none
SPECIFICATION FairSpec
INVARIANTS TypeOK DeliversInOrder NoLostWakeup JoinBarrier
PROPERTIES EventuallyStarted StopReturns
