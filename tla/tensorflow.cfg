SPECIFICATION MCSpec
CONSTANTS
  f1 = f1
  f2 = f2
  Files = {f1, f2}
  DataSets <- MCDataSets
  Workers = {1, 2}
  ShuffleSize = 2
  BatchSize = 2
  Sample = 1
  DiffFocus = TRUE
  BlockRecords = 2
  QueueMax = 1
  PipeMax = 1
  MaxDeaths = 1
  total_steps = 2
  checkpoint_steps = 3
  test_steps = 3
  validation_steps = 2
  swa_steps = 1
  swa_max_n = 2
  Configs <- MCConfigs
  Starts = {1}
  MaxStep = 4
  MaxClock = 6
INVARIANTS RecordsConserved FailsOnlyForBadInput WeightsOfThisRun NetsReproducible RunEndsOnBoundary
PROPERTIES BatchesKeepComing
CHECK_DEADLOCK FALSE
