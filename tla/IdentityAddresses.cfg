SPECIFICATION Spec
CONSTANTS
  h1 = h1
  h2 = h2
  u1 = u1
  m1 = m1
  s1 = s1
  s2 = s2
  s3 = s3
  a1 = a1
  Handlers <- OneHandler
  Uploads <- OneUpload
  Matches <- OneMatch
  Scores <- ThreeScores
  Documents <- OneDocument
  Similarities <- TwoSimilarities
  Frames <- TwoBursts
  Addresses <- OneAddress
  MaxRequests = 5
INVARIANTS AddressesDistinct
CHECK_DEADLOCK FALSE
