SPECIFICATION PersistentSpec
CONSTANTS
  a = a b = b c = c d = d r1 = r1 r2 = r2
  Texts <- FourTexts
  NoText = NoText
  Nothing = Nothing
  NumQuestions = 1
  MaxFollowups = 2
  SeedText <- OneSeed
  Requests <- TwoRequests
INVARIANTS
  NoRepeatInThread
  FollowupsNotStale
PROPERTIES
  InterviewShrinks
  RefusalLeavesQuestionOpen
  EveryRequestEnds
  InterviewIsReported
