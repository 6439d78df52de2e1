SPECIFICATION Spec
CONSTANTS
  h1 = h1
  h2 = h2
  k1 = k1
  k2 = k2
  c1 = c1
  c2 = c2
  Keys <- TwoKeys
  Credentials <- OneCredential
  Handlers <- TwoHandlers
  PemLost = TRUE
INVARIANTS TypeOK EveryChangeAudited AuditedIssueComplete FreshCredentialVerifies ResyncRepairs
PROPERTIES ApprovalNeverStored BlockUndoneOnlyByOverlap RevocationUndoneOnlyByOverlap
SYMMETRY Symmetric
