SPECIFICATION NetChangeSpec
CONSTANTS
  Sessions = {s1, s2}
  NoSession = NoSession
  Planners = {q1}
  a = a
  b = b
  x = x
  d = d
  l1 = l1
  l2 = l2
  l3 = l3
  po = po
  draft = draft
  k1 = k1
  k2 = k2
  n1 = n1
  n2 = n2
  Orders = {po, draft}
  Lines = {l1, l2, l3}
  Items = {a, b, x, d}
  Keys = {k1, k2}
  Numbers = {n1, n2}
  OrderOf <- MCOrderOf
  ItemOf <- MCItemOf
  Quantity <- MCQuantity
  Stock <- MCStock
  Drafts = {draft}
  Calls <- MCCalls
  MaxCalls = 1
  BOM <- Shared
  Demand <- MCDemand
  MaxDemand <- MCMaxDemand
  MaxRuns = 1
SYMMETRY ProcessSymmetry
CHECK_DEADLOCK FALSE
INVARIANTS
  PlanIsCurrent
