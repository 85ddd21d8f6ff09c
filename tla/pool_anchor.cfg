SPECIFICATION Spec
CONSTANTS
  Files <- MCFiles
  PoolSize = 2
  UseModulus = 4
  Prefetch = 1
  Anchors = {0, 3}
  MaxUses = 1
PROPERTY AnchorResetsCounter
CHECK_DEADLOCK FALSE
