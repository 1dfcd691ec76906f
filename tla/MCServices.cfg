CONSTANTS
  c1 = c1
  c2 = c2
  c3 = c3
  Nobody = Nobody
  Cpus <- MCTwoCpus
  MaxMaps = 8
  PDPTE_SIZE = 64
  KRNL_STACK_SIZE = 6
  stack_size <- MCTwoStacks
  heap_init_size = 20
  Fanout = 4
  PML4_LVL = 3
  PTE_SIZE = 2
  MaxFrames = 18
  Requests <- MCRequests
  Versions <- MCVersions
  Firmware <- MCFirmware
  FifoDepth = 2
  Width = 7
  Height = 5
  Stride = 32
  GlyphWidth = 3
  GlyphHeight = 2
  Font <- MCFont
  GlyphCount = 3
  Newline = 1
  Cpu = {1, 2}
  Texts <- MCTexts
  PanicText <- MCPanicText
  MaxPrints = 1
SPECIFICATION ServicesSpec
INVARIANTS MemoryApart SetUpFirst LocksLeft TreeShaped WellPlacedMapped UartConfigured LineGetsTexts ScreenShowsTexts
PROPERTIES EverybodyBoots PanicsHalt OnlySpanChanges PrintsEnd
