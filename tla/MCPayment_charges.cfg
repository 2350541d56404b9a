SPECIFICATION Spec
CONSTANTS
  s1 = s1
  s2 = s2
  Sessions <- TwoSessions
  MaxQuotes = 2
  Shared <- Oldest
  Estimate = 2
  Amounts <- Reduced
  Faults <- RaisesOrDies
  MaxFaults = 1
  MaxCrashes = 0
SYMMETRY Alike
INVARIANTS
  TypeOK
  LedgerIsReal
  ChargedOncePerQuote
PROPERTIES
  CaptureIsFinal
