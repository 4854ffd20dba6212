SPECIFICATION PlanningSpec
CONSTANTS
  Sessions = {s1, s2}
  NoSession = NoSession
  Planners = {q1, q2}
  a = a
  b = b
  x = x
  d = d
  l1 = l1
  l2 = l2
  l3 = l3
  po = po
  draft = draft
  k1 = k1
  k2 = k2
  n1 = n1
  n2 = n2
  Orders = {po, draft}
  Lines = {l1, l2, l3}
  Items = {a, b, x, d}
  Keys = {k1, k2}
  Numbers = {n1, n2}
  OrderOf <- MCOrderOf
  ItemOf <- MCItemOf
  Quantity <- MCQuantity
  Stock <- MCStock
  Drafts = {draft}
  Calls <- MCCalls
  MaxCalls = 2
  BOM <- Tree
  Demand <- MCDemand
  MaxDemand <- MCMaxDemand
  MaxRuns = 3
  ItemCodes = {1, 2, 3, 4}
  Structures <- MCStructures
  Openings <- MCOpenings
  Scopes <- MCScopes
  FirstDay <- MCFirstDay
  HorizonStart = 0
  LastDay = 4
  Workdays <- MCWorkdays
  Policy <- MCPolicy
  DemandSources <- MCSources
  Receipts <- MCReceipts
  Suppliers = {4}
  MaxExecutions = 2
  MaxChanged = 1
  e1 = e1
  e2 = e2
  r1 = r1
  r2 = r2
  c1 = c1
  c2 = c2
  w1 = w1
  w2 = w2
  t1 = t1
  v1 = v1
  v2 = v2
  Engineers = {s1, s2}
  Changes = {e1, e2}
  Affects <- MCAffects
  Approvals <- MCApprovals
  EffectiveOn <- MCEffectiveOn
  RevisionsOf <- MCRevisionsOf
  Revised <- MCRevised
  BillOf <- MCBillOf
  FirstLines <- MCFirstLines
  LastDate = 2
  Executors = {s1, s2}
  NoExecutor = NoSession
  Centres = {c1, c2}
  WeekOfDay <- MCWeekOfDay
  Explicit <- MCExplicit
  Weekend = {6, 7, 13, 14}
  ShiftHours <- MCShiftHours
  DailyHours <- MCDailyHours
  OverriddenHours <- MCOverriddenHours
  Tries = 4
  RoomDays = 3
  Threshold = 90
  Operations <- MCOperations
  ReleaseOn <- MCReleaseOn
  DueOn <- MCDueOn
  OpenJobs <- MCOpenJobs
  Targets <- MCTargets
  ToMake <- MCToMake
  Today = 1
  MaxProgrammings = 2
  Clerks = {s1, s2}
  SalesLines = {v1, v2}
  Requested <- MCRequested
  OpenQty <- MCOpenQty
  InStock = 1
  FirmReceipts <- MCFirmReceipts
  FirstDate = 1
  Horizon = 4
  CTPDates = {0}
  PeggedTo <- MCPeggedTo
  PublishedEnd <- MCPublishedEnd
  RecoveredEnd <- MCRecoveredEnd
  Contacts = {mail}
  MaxPromises = 2
  MaxAnswers = 1
  MaxDeliveries = 2
SYMMETRY ProcessSymmetry
CHECK_DEADLOCK FALSE
INVARIANTS
  ReceiptsAddUp
  StatusFollowsLines
  PlanIsCurrent
  DependentDemandPlanned
  ActiveLinesReleased
  ScheduleCanBeWorked
  CustomerSeesApproved
PROPERTIES
  ProcessedOnce
