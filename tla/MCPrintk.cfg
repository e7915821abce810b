\* Formats printk's callers use, whose directives C prints the same way.
CONSTANTS
  CharBits = 2
  ShortBits = 3
  IntBits = 4
  LongBits = 6
  Formats <- MC_Formats
  ArgVals <- MC_ArgVals
  StaleVals <- MC_StaleVals
  Str <- MC_Str
SPECIFICATION Spec
INVARIANT TypeOK
INVARIANT FormatsAsC
