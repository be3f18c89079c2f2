\* Two interchangeable clients of one uri; calls from the owner and from callbacks.
CONSTANTS
  c1 = c1
  c2 = c2
  inMain = inMain
  Conns = {c1, c2}
  Path <- SamePath
  Uris <- OneUri
  Main = main
  Worker = worker
  Apps = {main, worker}
  Within <- NotNested
  Starters = {main}
  Senders = {}
  IdSpace = 4
  NoEntry = noEntry
  MaxStarts = 1
  MaxAllocs = 2
  MaxExtras = 2
SYMMETRY Symmetry
SPECIFICATION Spec
INVARIANTS TypeOK UriCountsMatch ClosedAtMostOnce AddedFirst NoOrphanSession
  
