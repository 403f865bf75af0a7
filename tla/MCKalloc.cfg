SPECIFICATION Spec
CONSTANTS
  PageSize = 96
  Hdr = 8
  Min_ = 16
  Word = 1024
  HeapPages = {1, 2, 3}
  Requests <- Sizes
INVARIANTS TypeOK BlocksTilePages FreeListExact NoFreeNeighbours FreePagesGivenBack
PROPERTY BlocksArePrivate
\* A dangling list or a NULL page ends every behaviour.
CHECK_DEADLOCK FALSE
