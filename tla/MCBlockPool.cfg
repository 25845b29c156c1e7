SPECIFICATION PoolSpec
CONSTANTS
    NBlocks = 5
    BlockSize = 2
    U16 = 6
    Owners = {o1, o2, o3}
    Sizes <- MCSizes
    Null = Null
    Junk = Junk
SYMMETRY Symmetry
INVARIANTS AreasDisjoint MapExact ContentsKept
PROPERTY ImplementsAllocator
