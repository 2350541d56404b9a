SPECIFICATION SysSpec
CONSTANTS
  o1 = o1
  o2 = o2
  Orders <- TwoOrders
  ActionOf <- TwoFormations
  RAOrders <- NoOrder
  QuoteOrders <- OneOrder
  Kinds <- FormationKinds
  StateOf <- InCaliforniaAndNevada
  Targets <- FilingQueue
  MaxRuns = 1
  MaxCrashes = 0
  MaxFilings = 1
CONSTRAINT OneAtATime
INVARIANTS
  OrderEvidence
PROPERTIES
  KeepsPromise
