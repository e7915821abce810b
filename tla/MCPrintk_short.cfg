\* Unsigned short conversions, after another directive or none.
CONSTANTS
  CharBits = 2
  ShortBits = 3
  IntBits = 4
  LongBits = 6
  Formats <- MC_FormatsShort
  ArgVals <- MC_ArgVals
  StaleVals <- MC_StaleVals
  Str <- MC_Str
SPECIFICATION Spec
INVARIANT FormatsAsC
