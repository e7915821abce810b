\* The formats of MCPrintk.cfg, whose %c arguments include 0 and -8 (0 as a
\* char of 2 bits).
CONSTANTS
  CharBits = 2
  ShortBits = 3
  IntBits = 4
  LongBits = 6
  Formats <- MC_Formats
  ArgVals <- MC_ArgVals
  StaleVals <- MC_StaleVals
  Str <- MC_Str
SPECIFICATION Spec
INVARIANT NulCharAsC
