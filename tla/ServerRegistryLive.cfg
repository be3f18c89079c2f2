\* One client below two nested uris, two starts, sends by callbacks, and callbacks
\* inside the owner's Stop() and RemoveClient() that call the server again:
\* everything that was begun ends.
CONSTANTS
  c1 = c1
  c2 = c2
  inMain = inMain
  Conns = {c1}
  Path <- NestedPath
  Uris <- NestedUris
  Main = main
  Worker = worker
  Apps = {main, worker, inMain}
  Within <- InMain
  Starters = {main, worker, inMain}
  Senders = {worker}
  IdSpace = 4
  NoEntry = noEntry
  MaxStarts = 2
  MaxAllocs = 1
  MaxExtras = 2
SPECIFICATION FairSpec
PROPERTIES ShutdownDisconnects EndIsReported CallsReturn
