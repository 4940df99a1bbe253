CONSTANTS
  t1 = t1
  t2 = t2
  NULL = NULL
  Thread <- TwoThreads
  PGSIZE = 16
  HEADER = 12
  MIN_BLOCK = 2
  BITMAP = 2
  ELEM_BYTES = 1
  ELEM_BITS = 8
  RamPages = 7
  user_page_limit = 3
  Sizes = {2, 3, 20}
  Counts = {2}
  MaxLive = 2
SPECIFICATION FairSpec
INVARIANTS NoOverlap NothingLeaks FailsOnlyWhenFull
PROPERTIES CallsReturn
