SPECIFICATION Spec
CONSTANTS
  p1 = p1 p2 = p2 p3 = p3 h1 = h1 h2 = h2 h3 = h3 short = short long = long
  None = None
  Replicas <- ThreeReplicas
  Versions <- TwoArticles
  ChunkCount <- Lengths
  TopK = 1
  Handles <- ThreeHandles
SYMMETRY IndexSymmetry
INVARIANTS
  TypeOK
  SearchFindsSomething
PROPERTIES
  UndisturbedIngestIsExact
  OnlyDisturbedIngestsMix
