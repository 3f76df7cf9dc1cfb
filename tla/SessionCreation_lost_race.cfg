SPECIFICATION CalmSpec
CONSTANTS
  k1 = k1 s1 = s1 s2 = s2 s3 = s3 r1 = r1 r2 = r2
  NoKey = NoKey
  EmptyKey = EmptyKey
  Nothing = Nothing
  NumQuestions = 1
  MaxUnkeyed = 0
  Keys <- OneKey
  Headers <- OneKey
  SessionIds <- ThreeIds
  Requests <- TwoRequests
INVARIANTS
  NoConflictEscapes
