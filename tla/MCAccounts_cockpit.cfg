SPECIFICATION Spec
CONSTANTS
  a1 = a1
  a2 = a2
  o1 = o1
  o2 = o2
  l1 = l1
  c1 = c1
  s1 = s1
  s2 = s2
  Spellings <- TwoSpellings
  Orders <- TwoOrders
  Links <- OneLink
  Challenges <- OneChallenge
  Sessions <- TwoSessions
  ADMIN_MFA_MAX_ATTEMPTS = 2
  MaxRestarts = 1
INVARIANTS
  TypeOK
  OneSessionPerChallenge
  SpentChallengeOpensNothing
PROPERTIES
  OwnerIsFinal
CHECK_DEADLOCK FALSE
