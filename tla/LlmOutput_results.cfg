SPECIFICATION Spec
CONSTANTS
  k1 = k1 k2 = k2 k3 = k3
  None = None
  Keys <- ThreeKeys
  Lists <- SmallLists
  Analyses <- SmallAnalyses
  Wishes <- SmallWishes
  Weights <- ShippedWeights
  Sums <- ShippedSums
INVARIANTS
  TypeOK
  ListsAreRight
  ScoresAreRight
  ReportIsSound
