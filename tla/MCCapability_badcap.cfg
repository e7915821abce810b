CONSTANTS
  p0 = p0
  p1 = p1
  p2 = p2
  t0 = t0
  t1 = t1
  t2 = t2
  pmo = pmo
  NULL = NULL
  Procs <- MC_Procs
  Thrs <- MC_Thrs
  RootProc = p0
  RootThr = t0
  RootPmo = pmo
  MaxSlot = 6
  NCPU = 2
  MaxCopy = 2
  AllocFail <- MC_NoFail
  BadCapArgs = TRUE
  ExitedArgs = FALSE
SPECIFICATION Spec
\* The system stops when every thread has exited.
CHECK_DEADLOCK FALSE
INVARIANT NoPanic
