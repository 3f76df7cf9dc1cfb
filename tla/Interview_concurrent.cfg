SPECIFICATION Spec
CONSTANTS
  a = a b = b c = c d = d r1 = r1 r2 = r2
  Texts <- ThreeTexts
  NoText = NoText
  Nothing = Nothing
  NumQuestions = 2
  MaxFollowups = 1
  SeedText <- TwoSeeds
  Requests <- TwoRequests
SYMMETRY RequestSymmetry
INVARIANTS
  TypeOK
  OnePendingPerThread
  OneAnswerEach
  RepliesAreTrue
  NothingIsOvertaken
  OneReportForAll
PROPERTIES
  CompletedIsFinal
  LastAnswerCloses
  ImplementsContract
