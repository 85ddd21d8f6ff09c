SPECIFICATION Spec
CONSTANTS
  Files <- MCFiles
  PoolSize = 2
  UseModulus = 4
  Prefetch = 2
  Anchors = {0}
  MaxUses = 2
VIEW IgnoringAnchors
INVARIANTS WindowIsNewestChunks CacheServesNextUses CachedPositionsExact UsedEvenly RequestsFindWeights
PROPERTY BoundsOnlyRise
CHECK_DEADLOCK FALSE
