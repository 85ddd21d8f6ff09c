SPECIFICATION MCFairSpec
CONSTANTS
  Workers = {w1, w2}
  Files = {f1, f2, bad}
  Unsupported = {bad}
  Sentinel = Sentinel
  Capacity = 1
INVARIANTS MetricsOfTheirTime ForwardedOnceWhenDue FilesConserved
PROPERTIES SentinelArrives WorkersJoin
CHECK_DEADLOCK FALSE
