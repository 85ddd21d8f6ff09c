SPECIFICATION FairSpec
CONSTANTS
  Keys = {1, 2, 3}
  PoolSize = 2
  ChunksPerNetwork = 2
  MaxForced = 1
  MaxCrashes = 1
  MaxBuffered = 1
INVARIANTS TypeOK NeverAhead CounterMatchesAnchor ChunksUsedOnce ExportsNotAhead
PROPERTIES ForcedStartHonoured StopEndsTraining
CHECK_DEADLOCK FALSE
