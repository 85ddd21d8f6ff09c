SPECIFICATION Spec
CONSTANTS
  a = a
  b = b
  Producers = {p1, p2}
  Consumers = {c1}
  Stoppable = {c1}
  Items <- MCItems
  NoItem = NoItem
  Capacity = 2
  Batches <- MCBatches
  GetSizes = {1, 3}
  Waits <- MCWaits
VIEW IgnoringCounters
INVARIANT StopReleasesWaiter
CHECK_DEADLOCK FALSE
