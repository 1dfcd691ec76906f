CONSTANTS
    s1 = s1
    s2 = s2
    a = a
    b = b
    c = c
    l1 = l1
    l2 = l2
    Dangling = Dangling
    Node <- MCNode
    List <- MCList
    FirstHead <- MCFirstHead
    AvailableVectors = 4
    MaxDepth = 2
    HandlerAddr <- MCHandlerAddr
    TssAddr <- MCTssAddr
    Raised <- MCRaised
    Addresses <- MCAddresses
    Limits <- MCLimits
    Indices <- MCIndices
    Tables <- MCTableUses
    SliceLen = 3
    Contents <- MCContents
    BitIndices = {0, 1, 3, 4, 6, 7, 8, 11}
    BitLens = {0, 1, 2, 3, 4, 5, 7, 8, 9, 12, 13, 16}
    OverflowChecks = {TRUE, FALSE}
    PTE_SIZE = 4
    PDPTE_SIZE = 16
    TableLen = 6
    OFFSET_IDX = 3
    StatusBytes = 1
    MemoryMaps <- MCMemoryMaps
    Loader <- MCLoader
    Unchecked = {TRUE, FALSE}
    Processor = {1, 2}
    HeapMemory = {2, 3, 4, 5, 6}
    HeapLayouts <- MCHeapLayouts
SPECIFICATION Spec
SYMMETRY Symmetry
INVARIANTS LinksInverse ListsAgree IterOnce GettersAgree TablesReachHandlers HandlersSeeTheirException CopyExact SetupKeepsApart SetupMapsAll ContentsKept BlocksAccounted
PROPERTIES UserInsertKeeps ReturnsRestore
