SPECIFICATION FairSpec
CONSTANTS
  o1 = o1
  o2 = o2
  Orders <- TwoOrders
  ActionOf <- ActionTypeOf
  QuoteOrders <- TwoOrders
  RAOrders <- TheFormation
  Targets <- MainLine
  Kinds <- FormationKinds
  MaxRuns = 2
  MaxCrashes = 1
CONSTRAINT OneAtATime
INVARIANTS
  EvidenceInvariant
PROPERTIES
  PipelineEndsVisibly
