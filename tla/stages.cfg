CONSTANTS
  Graphs <- Loaders
  Sentinel = Sentinel
  Unreadable <- BadChunks
  MaxWorkers = 6
  MaxQueues = 5
SPECIFICATION FairSpec
INVARIANT ItemsConserved
PROPERTY ShutsDown
CHECK_DEADLOCK FALSE
