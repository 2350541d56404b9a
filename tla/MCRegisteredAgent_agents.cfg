SPECIFICATION AgentSpec
CONSTANTS
  j1 = j1
  j2 = j2
  p1 = p1
  p2 = p2
  p3 = p3
  Jobs <- TwoJobs
  PartnerOrders <- ThreePartnerOrders
INVARIANTS
  AgentTypeOK
  EvidenceIsOwn
  EvidenceIsReported
CHECK_DEADLOCK FALSE
