SPECIFICATION Spec
CONSTANTS
  r1 = r1 r2 = r2 q1 = q1
  Requests <- TwoRequests
  Rows <- OneRow
  Complete = Complete
  Probe = Probe
  Startup = Startup
  None = None
  PoolLimit = 1
INVARIANTS
  ProcessLimit
