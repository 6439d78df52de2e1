SPECIFICATION Spec
CONSTANTS
  h1 = h1
  h2 = h2
  commitment = commitment
  other = other
  Handlers <- TwoHandlers
  Hashes <- TwoHashes
  Commitment <- commitment
  MaxRequests = 3
  MaxOutside = 0
PROPERTIES RevocationIdempotent
CHECK_DEADLOCK FALSE
