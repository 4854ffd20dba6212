SPECIFICATION MCSpec
CONSTANTS
  Sessions = {s1, s2}
  NoSession = NoSession
  m1 = m1
  m2 = m2
  t1 = t1
  t2 = t2
  t3 = t3
  o1 = o1
  o2 = o2
  byDate = byDate
  byBoth = byBoth
  hot = hot
  shaky = shaky
  a = a
  b = b
  k1 = k1
  k2 = k2
  Machines = {m1, m2}
  NoMachine = NoMachine
  Stations = {t1, t2, t3}
  MachineAt <- MCMachineAt
  Route <- MCRoute
  NoOperation = NoOperation
  DayLength = 2
  LastHour = 4
  PlannedHours = 2
  Cycle = 50
  MaxStops = 3
  MaxReports = 2
  Plans = {byDate, byBoth}
  PlanMachine <- MCPlanMachine
  Strategy <- MCStrategy
  IntervalDays <- MCIntervalDays
  IntervalMeter <- MCIntervalMeter
  Rules = {hot, shaky}
  RuleMachine <- MCRuleMachine
  Metric <- MCMetric
  Comparator <- MCComparator
  Threshold <- MCThreshold
  NoCause = NoCause
  LastDay = 1
  Meters = {1, 2}
  MaxOrders = 3
  MaxReadings = 2
  Locations = {a, b}
  PlannedPart <- MCPlannedPart
  OpeningParts <- MCOpening
  Quantities = {1, 2}
  PartKeys = {k1, k2}
  MaxIssues = 2
  MaxIssued = 3
  MaxHolds = 3
SYMMETRY Symmetry
CHECK_DEADLOCK FALSE
INVARIANTS
  DaysAreCounted
  OneOrderPerCause
  StopsFollowOrders
  PartBooksAddUp
PROPERTIES
  OperationsAreFinished
