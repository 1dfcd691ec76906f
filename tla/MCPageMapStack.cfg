CONSTANTS
  Fanout = 4
  PML4_LVL = 3
  PTE_SIZE = 2
  MaxFrames = 18
  Requests <- MCStack
SPECIFICATION Spec
INVARIANT MapsAll
