CONSTANTS
  WordBits = 6
  smlst_block = 2
  FirstArena <- MCArena
  Regions <- MCRegions
  Layouts <- MCLayouts
SPECIFICATION Spec
INVARIANTS MethodsInv MergeFindsBuddy NothingLost AllocationsFit ErrOnlyWhenExhausted
PROPERTIES MethodsReturn Contract
