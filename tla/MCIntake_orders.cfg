SPECIFICATION Spec
CONSTANTS
  o1 = o1
  o2 = o2
  q1 = q1
  q2 = q2
  s1 = s1
  s2 = s2
  e1 = e1
  Orders <- TwoOrders
  Quotes <- TwoQuotes
  Sessions <- TwoSessions
  Externals <- OneExternal
  MaxFailures = 1
SYMMETRY Alike
INVARIANTS
  TypeOK
  OneOrderPerExternalId
  PaidIsBooked
  PaidStaysPaid
PROPERTIES
  FeeIsFinal
CHECK_DEADLOCK FALSE
