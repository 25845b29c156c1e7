SPECIFICATION Spec
CONSTANTS
    MEM_SIZE = 10
    SIZEOF_STRUCT_MEM = 1
    MIN_SIZE = 1
    p1 = p1
    p2 = p2
    r1 = r1
    NULL = NULL
    PoolElements <- MCPool
    RefElements <- MCRefs
    SIZEOF_STRUCT_PBUF = 1
    PBUF_POOL_BUFSIZE = 2
    HeadRooms = {1}
    Lengths = {1, 2}
    MaxHeld = 3
    MaxPbufs = 2
SYMMETRY Symmetry
INVARIANTS HeapInv RefusedOnlyWhenFull RefsExact TotExact PayloadInside AllGivenBack
PROPERTIES HeapImplementsAllocator
