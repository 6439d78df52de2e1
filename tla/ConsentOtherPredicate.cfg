SPECIFICATION Spec
CONSTANTS
  h1 = h1
  h2 = h2
  c1 = c1
  p1 = p1
  age18 = age18
  age21 = age21
  student = student
  Consents <- OneConsent
  Proofs <- OneProof
  ClaimOf <- OneClaim
  Mentions <- OneText
  MaxVerifications = 1
  P = 11
  G = 2
  H = 8
  MaxDisturbances = 0
  Handlers <- TwoHandlers
  Scopes <- TwoAges
INVARIANTS OnlyConsentedPredicates
CHECK_DEADLOCK FALSE
