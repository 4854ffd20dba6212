SPECIFICATION RecoverySpec
CONSTANTS
  Workers = {w1}
  Operations = {"o1", "o2"}
  Times = {0, 1}
  Present = 1
  Official <- MCOfficial
  FrozenHours = {0}
  Strategies = {"BALANCED"}
  AutoPublish = FALSE
  MaxSolves = 2
  MaxSchedules = 2
  MaxPlanTasks = 1
CHECK_DEADLOCK FALSE
INVARIANTS
  FrozenTimesKept
