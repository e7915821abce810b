\* Two-bit words, so that the full bitmap's single word is overrun from
\* the second word of slots_bmp on, and three expansions.
CONSTANTS
  BITS_PER_LONG = 2
  MaxSize = 8
  AllocFails = TRUE
  GarbageOnes = TRUE
SPECIFICATION Spec
INVARIANT TypeOK
INVARIANT SlotsMatchBitmap
PROPERTY AllocReturnsLowestFree
\* A BUG (install_slot on a clear bit, get_opaque of a garbage slot) halts
\* the kernel: no step follows it.
CHECK_DEADLOCK FALSE
