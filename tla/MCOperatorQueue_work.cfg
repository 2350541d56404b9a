SPECIFICATION Spec
CONSTANTS
  t1 = t1
  t2 = t2
  r1 = r1
  r2 = r2
  Tickets <- TwoTickets
  Runs <- TwoRuns
  JobSample <- Passing
  MaxCrashes = 1
SYMMETRY Alike
INVARIANTS
  TypeOK
  OneJobPerTicket
  BuiltIsApproved
  OneOpenTicket
CHECK_DEADLOCK FALSE
