\* A callback reconnects while the owner destroys the client.
CONSTANTS
  Sessions = {1, 2}
  Main = main
  Worker = worker
  Apps = {main, worker}
  Connectors = {main, worker}
  Registered = {"connect", "message", "disconnect"}
  None = none
  Headers = {}
  MaxExtras = 0
SPECIFICATION Spec
INVARIANT DestructorCloses
