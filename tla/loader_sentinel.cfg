SPECIFICATION Spec
CONSTANTS
  Workers = {w1, w2}
  Files = {f1, f2, bad}
  Unsupported = {bad}
  Sentinel = Sentinel
  Capacity = 2
INVARIANT SentinelBarrier
CHECK_DEADLOCK FALSE
