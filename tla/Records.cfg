SPECIFICATION MCSpec
CONSTANTS
  Sessions = {s1, s2}
  NoSession = NoSession
  la = la
  lb = lb
  a = a
  b = b
  x = x
  y = y
  z = z
  k1 = k1
  k2 = k2
  q1 = q1
  q2 = q2
  dimension = dimension
  colour = colour
  Lots = {la, lb}
  Locations = {a, b}
  NoLocation = NoLocation
  Serials = {x, y, z}
  Keys = {k1, k2}
  Opening <- MCOpening
  Asks <- MCAsks
  MaxAsks = 3
  Inspections = {q1, q2}
  LotOf <- MCLotOf
  Delivered <- MCDelivered
  Characteristics = {dimension, colour}
  Mandatory = {dimension}
  Days = 2
  MaxCompletions = 2
  NoLot = NoLot
  LotOfSerial <- MCLotOfSerial
  ItemOf <- MCItemOf
  SupplierOf <- MCSupplierOf
  MadeAt <- MCMadeAt
  SourceOf <- MCSourceOf
  Criteria <- MCCriteria
  Saved = {"CLEARED"}
  MaxEfforts = 3
  Callers = {s1, s2}
  Transactions <- MCTransactions
  Costs = {1, 4}
  Adjustments <- MCAdjustments
  StandardCost = 2
  WIPValues = {5}
  Variances <- MCVariances
  MaxRevaluations = 1
  MaxRuns = 2
  MaxRequests = 2
  MaxReads = 5
  MaxEntries = 6
SYMMETRY Symmetry
CHECK_DEADLOCK FALSE
INVARIANTS
  LotBooksAddUp
  OneParent
  RejectionsAreFollowedUp
  AnalysisFindsLinked
  CostBooksAddUp
  PeriodFollowsRequests
PROPERTIES
  ExecutionBlocksLinked
