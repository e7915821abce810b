\* The kernel writer and spawn's, names of 16 bytes (as "/spawn_child.bin")
\* and of 63, up to one pmo_map_req and one transferred cap, as the lab
\* programs pass them (an info page at 0x10000000: TLC integers stop below
\* 2^31, so not at the labs' 0x100000000).
CONSTANTS
  PAGE_SIZE = 4096
  ENV_SIZE_ON_STACK = 4096
  MAIN_THREAD_STACK_BASE = 134217728
  MAIN_THREAD_STACK_SIZE = 65536
  ROOT_THREAD_STACK_BASE = 134217728
  ROOT_THREAD_STACK_SIZE = 65536
  NameLens = {16, 63}
  MapAddrs = {268435456}
  CapVals = {2}
  MaxReqs = 1
  MaxCaps = 1
  Writers = {"kernel", "user"}
SPECIFICATION Spec
INVARIANT AuxvAsWritten
