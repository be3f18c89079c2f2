\* Two attempts by the owner and by callbacks, and other calls of both.
CONSTANTS
  Sessions = {1, 2}
  Main = main
  Worker = worker
  Apps = {main, worker}
  Connectors = {main, worker}
  Registered = {"connect", "message", "disconnect"}
  None = none
  Headers = {"authorization"}
  MaxExtras = 1
SPECIFICATION FairSpec
INVARIANTS TypeOK OneStoryPerSession NoOrphanSession
PROPERTIES DestructorReturns EndIsSignalled
