SPECIFICATION RetryingSpec
CONSTANTS
  k1 = k1 s1 = s1 s2 = s2 s3 = s3 r1 = r1 r2 = r2
  NoKey = NoKey
  EmptyKey = EmptyKey
  Nothing = Nothing
  NumQuestions = 2
  MaxUnkeyed = 1
  Keys <- OneKey
  Headers <- AllHeaders
  SessionIds <- ThreeIds
  Requests <- TwoRequests
INVARIANTS
  TypeOK
  KeyedRepliesAgree
  RaceEndsAtInsert
PROPERTIES
  ImplementsRegistry
  EveryCreateEnds
  RetryGetsSession
