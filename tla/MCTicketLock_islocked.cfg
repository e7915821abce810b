\* Three CPUs, counters of 2 bits: the wrap of owner and next is reached
\* with up to three tickets outstanding.
CONSTANTS
  CPUs = {c0, c1, c2}
  NULL = NULL
  Width = 2
SPECIFICATION Spec


INVARIANT HeldImpliesIsLocked
