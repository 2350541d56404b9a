SPECIFICATION SysSpec
CONSTANTS
  o1 = o1
  o2 = o2
  Orders <- OneOrder
  ActionOf <- AnAnnualReport
  RAOrders <- NoOrder
  QuoteOrders <- OneOrder
  Kinds <- AnnualKinds
  StateOf <- InTexas
  Targets <- WholeLine
  MaxRuns = 1
  MaxCrashes = 0
  MaxFilings = 1
INVARIANTS
  SysTypeOK
PROPERTIES
  KeepsPromise
