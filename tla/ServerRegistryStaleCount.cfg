\* Two clients of one uri whose events are posted concurrently.
CONSTANTS
  c1 = c1
  c2 = c2
  inMain = inMain
  Conns = {c1, c2}
  Path <- SamePath
  Uris <- OneUri
  Main = main
  Worker = worker
  Apps = {main, worker}
  Within <- NotNested
  Starters = {main}
  Senders = {}
  IdSpace = 4
  NoEntry = noEntry
  MaxStarts = 1
  MaxAllocs = 2
  MaxExtras = 1
SPECIFICATION Spec
INVARIANT LastCountIsCurrent
