\* Two CPUs, one server, one client thread, up to two connections; clients
\* follow the ready_flag handshake and pass only valid caps.
CONSTANTS
  srv = srv
  cl1 = cl1
  cl2 = cl2
  sh1 = sh1
  sh2 = sh2
  i0 = i0
  i1 = i1
  NULL = NULL
  CPUs <- MC_CPUs
  Idle <- MC_Idle
  NO_AFF <- MC_NO_AFF
  AffArgs <- MC_AffArgs
  Root = cl1
  DEFAULT_BUDGET = 3
  Servers <- MC_Servers
  Clients <- MC_OneClient
  Shadows <- MC_Shadows
  Threads <- MC_Threads1
  IPC_MAX_CONN_PER_SERVER = 2
  MaxClientArgs <- MC_MaxClientOne
  CapArgs <- MC_CapArgsGood
  ClientWaitsForReady = TRUE
  ServerRegistersOnce = TRUE
  InitAff <- MC_InitAff

  U64Width = 16
SPECIFICATION Spec
INVARIANT ServerStacksDisjoint
