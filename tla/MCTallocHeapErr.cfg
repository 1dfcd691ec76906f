CONSTANTS
  WordBits = 12
  smlst_block = 32
  node_size = 16
  max_arena_size = 992
  FirstArena <- MCArena
  Regions = {}
  Layouts <- MCLayouts
SPECIFICATION HeapSpec
INVARIANT ErrOnlyWhenExhausted
