\* A directive with both the '-' and the '0' flag.
CONSTANTS
  CharBits = 2
  ShortBits = 3
  IntBits = 4
  LongBits = 6
  Formats <- MC_FormatsLeftZero
  ArgVals <- MC_ArgVals
  StaleVals <- MC_StaleVals
  Str <- MC_Str
SPECIFICATION Spec
INVARIANT FormatsAsC
