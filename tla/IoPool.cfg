\* Two threads, two instances, four handlers.
CONSTANTS
  Threads = {t1, t2}
  Instances = {i1, i2}
  App = app
  NoOne = noOne
  MaxReady = 4
SPECIFICATION FairSpec
INVARIANTS TypeOK OthersJoined PoolOutlivesInstances
PROPERTY PoolProgress
