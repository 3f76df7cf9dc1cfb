SPECIFICATION FairSpec
CONSTANTS
  RagRetries = 2
  LlmRetries = 2
  Repairs = 2
  MaxRequests = 13
  MaxQuery = 20
  QuerySizes <- ShippedSizes
INVARIANTS
  TypeOK
  GivesUpExhausted
  EffortIsBounded
PROPERTIES
  EndComesNearer
  ImplementsOutcome
  EveryHandlerEnds
