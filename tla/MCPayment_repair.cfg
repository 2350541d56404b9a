SPECIFICATION FairSpec
CONSTANTS
  s1 = s1
  s2 = s2
  Sessions <- TwoSessions
  MaxQuotes = 1
  Shared <- NoQuotes
  Estimate = 1
  Amounts <- Raised
  Faults <- Raises
  MaxFaults = 1
  MaxCrashes = 1
PROPERTIES
  CaptureIsRecorded
  PaidIsNoticed
CHECK_DEADLOCK FALSE
