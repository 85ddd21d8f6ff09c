SPECIFICATION MCSpec
CONSTANTS
  Models <- MCModels
  Configs <- MCConfigs
  Model <- MCModel
  Schedule <- MCSchedule
  Foreign <- MCForeign
  Overrides = {0, 2}
  Intervals <- MCIntervals
  MaxCommands = 4
  MaxOps = 3
INVARIANTS NetsRoundTrip CheckpointsOfOneRun
PROPERTIES SavesAsMeant FinishedRunIsLatest TrainsFromNetwork
CHECK_DEADLOCK FALSE
