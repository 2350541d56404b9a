SPECIFICATION FairSpec
CONSTANTS
  o1 = o1
  Orders <- OneOrder
  MaxCrashes = 1
INVARIANTS
  TypeOK
  
  ReadyHasSSN
PROPERTIES
  CapturedIsPublished
