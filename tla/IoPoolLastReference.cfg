\* One instance, one handler.
CONSTANTS
  Threads = {t1, t2}
  Instances = {i1}
  App = app
  NoOne = noOne
  MaxReady = 1
SPECIFICATION Spec
INVARIANT ThreadsJoined
