CONSTANTS
  WordBits = 6
  smlst_block = 4
  FirstArena <- MCArena
  Regions <- MCInsideOneBlock
  Layouts <- MCLayouts
SPECIFICATION Spec
INVARIANT NeverPanics
