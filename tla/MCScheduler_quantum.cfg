CONSTANTS
  r = r
  t1 = t1
  t2 = t2
  i0 = i0
  i1 = i1
  NULL = NULL
  NO_AFF <- MC_NO_AFF
  DEFAULT_BUDGET = 2
  CPUs <- MC_CPUs
  Threads <- MC_Threads
  Idle <- MC_Idle
  Root = r
  AffArgs <- MC_AffValid
SPECIFICATION Spec
PROPERTY QuantumHonoured
