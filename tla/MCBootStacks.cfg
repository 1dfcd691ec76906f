CONSTANTS
  c1 = c1
  c2 = c2
  c3 = c3
  Nobody = Nobody
  Cpus <- MCThreeCpus
  MaxMaps = 8
  PTE_SIZE = 1
  PDPTE_SIZE = 32
  KRNL_STACK_SIZE = 3
  stack_size <- MCTwoStacks
  heap_init_size = 12
SPECIFICATION BootSpec
INVARIANT MemoryApart
