SPECIFICATION Spec
CONSTANTS
  Keys = {1, 2, 3}
  PoolSize = 3
  ChunksPerNetwork = 2
  MaxForced = 1
  MaxCrashes = 1
  MaxBuffered = 1
PROPERTIES ResetAnchorsToSeen
CHECK_DEADLOCK FALSE
