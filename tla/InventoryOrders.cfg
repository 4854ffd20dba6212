SPECIFICATION FairSpec
CONSTANTS
  Locations <- MCLocations
  Plant <- MCPlant
  Stock <- MCStock
  Rows <- MCRows
  Calls <- OrderCalls
  MaxCalls = 4
  Sessions = {s1, s2}
  NoSession = NoSession
  k1 = k1
  k2 = k2
  k3 = k3
  o1 = o1
  Keys = {k1, k2, k3}
  NoKey = NoKey
  NoLocation = NoLocation
  Orders = {o1}
  NoOrder = NoOrder
CHECK_DEADLOCK FALSE
INVARIANTS
  ReservedCovered
  AllocationBacked
PROPERTIES
  CallsFinish
