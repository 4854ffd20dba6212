SPECIFICATION Spec
CONSTANTS
  Sessions = {s1, s2}
  NoSession = NoSession
  o1 = o1
  o2 = o2
  m1 = m1
  m2 = m2
  p1 = p1
  p2 = p2
  p3 = p3
  part = part
  spare = spare
  k1 = k1
  k2 = k2
  k3 = k3
  Orders = {o1, o2}
  Materials = {m1, m2}
  Operations = {p1, p2, p3}
  Items = {part, spare}
  Keys = {k1, k2, k3}
  OrderOf <- MCOrderOf
  Principal <- MCPrincipal
  Substitute <- MCSubstitute
  Required <- MCRequired
  ReadOrder <- MCReadOrder
  Quantity <- MCQuantity
  Sequence <- MCSequence
  Stock <- MCStock
  Calls <- StockCalls
  MaxCalls = 4
  WaitToRetry = TRUE
CHECK_DEADLOCK FALSE
INVARIANTS
  CompletionsAddUp
  MaterialSecured
  IssuedLeftStock
  BackflushIssuesAll
PROPERTIES
  TotalAccepted
