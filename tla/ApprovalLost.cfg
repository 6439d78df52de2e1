SPECIFICATION Spec
CONSTANTS
  h1 = h1
  h2 = h2
  k1 = k1
  k2 = k2
  c1 = c1
  c2 = c2
  Keys <- TwoKeys
  Credentials <- OneCredential
  Handlers <- OneHandler
  PemLost = FALSE
INVARIANTS ApprovalPersists
