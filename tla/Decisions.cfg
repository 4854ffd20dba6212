SPECIFICATION Spec
CONSTANTS
  s1 = s1
  s2 = s2
  u1 = u1
  u2 = u2
  NoSession = NoSession
  NoUser = NoUser
  Sessions <- MCSessions
  Users <- MCUsers
  Forecast = 10
  OpenOrders = 8
  Adjustments <- MCAdjustments
  OpeningStock = 2
  PlannedSupply = 12
  MaxCycles = 2
  MaxReads = 6
  MaxPublications = 2
  LastWeek = 3
  DaysToWeek1 = 3
  DemandFence = 5
  PlanningFence = 12
  Overload = 6
  RequireClear = TRUE
  RequireWhatIf = TRUE
  RequireOptimizer = FALSE
  RequireFinance = TRUE
  AutoRun = TRUE
  MoveFraction = 50
  Quantities = {2}
  Outcomes = {TRUE}
  MaxRevisions = 3
  MaxRequests = 2
  MaxCandidates = 4
  Rationales <- MCRationales
  Exposure <- MCExposure
  Rules <- MCRules
  Areas <- MCAreas
  MinParticipants = 1
  MaxRequirements = 3
  MaxEvents = 10
  MaxLooks = 2
  Workers <- MCSessions
  Operations = {"o1", "o2"}
  Times = {0, 1}
  Present = 1
  Official <- MCOfficial
  FrozenHours = {0}
  Strategies = {"BALANCED", "FASTEST"}
  AutoPublish = TRUE
  MaxSolves = 3
  MaxSchedules = 2
  MaxPlanTasks = 1
  Runners <- MCSessions
  Policies <- MCPolicies
  Criticality = "STANDARD"
  MaxAnchorAge = 1
  SLA = 1
  MaxEvidenceAge = 1
  AutoExport = TRUE
  EscalationRules <- MCEscalationRules
  MaxNotifications = 2
  LastTime = 3
  MaxIncidents = 4
  MaxRunsOfJobs = 3
  MaxChanges = 1
INVARIANTS
  LatestRevisionIsPlan
  OneApprovedRevision
  ApprovedAsSigned
  OfficialIsCandidate
  FrozenSlotsSurvive
  UndisturbedJobSettles
  UndisturbedEngineReaches
  NoticesWithinLimit
CHECK_DEADLOCK FALSE
SYMMETRY Symmetric
