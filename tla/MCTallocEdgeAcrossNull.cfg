CONSTANTS
  WordBits = 6
  smlst_block = 4
  FirstArena <- MCArena
  Regions <- MCAcrossNull
  Layouts <- MCLayouts
SPECIFICATION Spec
INVARIANT NothingLost
