\* Formats that end inside a directive.
CONSTANTS
  CharBits = 2
  ShortBits = 3
  IntBits = 4
  LongBits = 6
  Formats <- MC_FormatsCut
  ArgVals <- MC_ArgVals
  StaleVals <- MC_StaleVals
  Str <- MC_Str
SPECIFICATION Spec
INVARIANT NoOverread
