SPECIFICATION Spec
CONSTANTS
  s1 = s1
  s2 = s2
  d1 = d1
  d2 = d2
  email = email
  status = status
  Handlers <- TwoSessions
  Docs <- OneDoc
  Fields <- EmailAndStatus
  Values = {0, 1}
  Replicated = TRUE
  MaxObjects = 3
  MaxVersion = 2
INVARIANTS TypeOK
PROPERTIES UnmodifiedNeverWritten LostOnlyByOverlap
CHECK_DEADLOCK FALSE
SYMMETRY Symmetric
