CONSTANTS
  WordBits = 6
  smlst_block = 4
  FirstArena <- MCArena
  Regions <- MCRegions
  Layouts <- MCLayouts
SPECIFICATION Spec
INVARIANTS NoOverlap AllocationsFit
