SPECIFICATION Spec
CONSTANTS
  k1 = k1 k2 = k2 k3 = k3
  None = None
  Keys <- ThreeKeys
  Lists <- NoLists
  Analyses <- ContradictedAnalyses
  Wishes <- SmallWishes
  Weights <- ShippedWeights
  Sums <- ShippedSums
INVARIANTS
  SeverityIsVisible
