\* A pool of 6 pages starting at page 2 (not aligned to the largest block,
\* and not a power of two long), 3 free lists (blocks of 1, 2 and 4 pages).
CONSTANTS
  NPages = 6
  Start = 2
  BUDDY_MAX_ORDER = 3
  BUDDY_PAGE_SIZE = 4096
  SLAB_MAX_SIZE = 2048
  NULL = NULL
  WildAddr = WildAddr
  \* Orders the kernel passes to get_pages: single pages (page tables, page
  \* faults) and, to exercise splitting, two-page blocks.
  Orders = {0, 1}
  \* kmalloc sizes above the slab limit: one page, just over one page, and
  \* just over two pages.
  Sizes = {4096, 4097, 8193}
SPECIFICATION Spec
INVARIANT FailureReturnsNull
