SPECIFICATION Spec
CONSTANTS
  h1 = h1
  h2 = h2
  u1 = u1
  m1 = m1
  s1 = s1
  s2 = s2
  s3 = s3
  a1 = a1
  Handlers <- OneHandler
  Uploads <- OneUpload
  Matches <- OneMatch
  Scores <- TwoScores
  Documents <- OneDocument
  Similarities <- TwoSimilarities
  Frames <- TwoBursts
  Addresses <- OneAddress
  MaxRequests = 4
INVARIANTS FailedLivenessNeverHelps
CHECK_DEADLOCK FALSE
