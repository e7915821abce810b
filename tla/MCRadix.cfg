\* A PMO's page index tree with a value deleter, on a kernel whose kzalloc
\* may fail; 2-bit nodes and 5-bit keys: three levels, the top one half used.
CONSTANTS
  NULL = NULL
  Garbage = Garbage
  RADIX_NODE_BITS = 2
  RADIX_MAX_BITS = 5
  \* Keys sharing a leaf node (0, 1), sharing only the root's child (0, 4),
  \* and differing at the top level (0, 16, 17).
  Keys = {0, 1, 4, 16, 17}
  Vals = {v1, v2}
  NodeAllocFails = TRUE
  HasDeleter = TRUE
SPECIFICATION Spec
INVARIANT TypeOK
PROPERTY RefinesRadixMap
\* radix_free ends the tree's use: no call follows it.
CHECK_DEADLOCK FALSE
