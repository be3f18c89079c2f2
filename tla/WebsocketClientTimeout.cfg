\* A Connect() that runs into its safety timeout.
CONSTANTS
  Sessions = {1}
  Main = main
  Worker = worker
  Apps = {main, worker}
  Connectors = {main}
  Registered = {"connect", "message", "disconnect"}
  None = none
  Headers = {}
  MaxExtras = 0
SPECIFICATION FairSpec
PROPERTY FalseIsSignalled
