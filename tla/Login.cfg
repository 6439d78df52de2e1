SPECIFICATION Spec
CONSTANTS
  h1 = h1
  h2 = h2
  u1 = u1
  u2 = u2
  s1 = s1
  s2 = s2
  t1 = t1
  Handlers <- TwoHandlers
  Processes <- TwoHandlers
  ProcessOf <- Own
  AsIssuer = TRUE
  Users <- TwoUsers
  Secrets <- TwoSecrets
  Challenges <- OneChallenge
  MaxAttempts = 2
  MaxLocks = 2
  MaxRequests = 5
INVARIANTS TypeOK GuessesBounded TrailComplete
PROPERTIES ProtectionLostOnlyByOverlap OneSignInPerChallenge OneAccountPerEmail
SYMMETRY Symmetric
CHECK_DEADLOCK FALSE
