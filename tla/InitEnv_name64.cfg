\* Names of 64 bytes: the copy loops fill the whole name slot and store
\* no NUL inside the env.
CONSTANTS
  PAGE_SIZE = 4096
  ENV_SIZE_ON_STACK = 4096
  MAIN_THREAD_STACK_BASE = 134217728
  MAIN_THREAD_STACK_SIZE = 65536
  ROOT_THREAD_STACK_BASE = 134217728
  ROOT_THREAD_STACK_SIZE = 65536
  NameLens = {64}
  MapAddrs = {268435456}
  CapVals = {2}
  MaxReqs = 1
  MaxCaps = 1
  Writers = {"kernel", "user"}
SPECIFICATION Spec
INVARIANT ArgvNamesProgram
