\* User code that unmaps at the mapped address, initialises the heap
\* first, writes only writable memory and creates PMOs of one or two pages.
CONSTANTS
  p1 = p1
  p2 = p2
  p3 = p3
  stk = stk
  txt = txt
  dat = dat
  NULL = NULL
  Anon = Anon
  Undef = Undef
  STACK_BASE = 20
  STACK_SIZE = 4
  Segments <- MC_Segments
  StackPmo = stk
  SegPmos <- MC_SegPmos
  UserElf <- MC_Segments
  TMP_VADDR = 0
  CPIO_BIN = 83886080
  CpioFiles <- MC_CpioFiles
  UserBinPath <- MC_UserBinPath
  CpioFileLists <- MC_CpioFileLists
  PAGE_SIZE = 2
  NV = 12
  HEAP_START = 8
  MaxVmrs = 5
  MaxFaults = 2
  MaxReqs = 2
  Pmos <- MC_Pmos
  CreateSizes <- MC_CreateSizes
  CreateTypes <- MC_CreateTypes
  MapAddrs <- MC_MapAddrs
  Perms <- MC_Perms
  UnmapAddrs <- MC_UnmapAddrs
  BrkAddrs <- MC_BrkAddrs
  AccessAddrs <- MC_AccessAddrs
  UnmapAsMapped = TRUE
  BrkInitFirst = TRUE
  CpioFirst = TRUE
  WritesToWritable = TRUE
SYMMETRY MC_Symmetry
SPECIFICATION Spec
INVARIANT TypeOK
INVARIANT VmrsDisjoint
INVARIANT MappingsMatchVmrs
INVARIANT ImageLoaded
INVARIANT ElfPmosLoaded
INVARIANT CpioExtractFindsFile
