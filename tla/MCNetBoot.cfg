SPECIFICATION Spec
CONSTANTS
    NBlocks = 23
    BlockSize = 2
    U16 = 65536
    Builds <- SmallBuilds
    MaxUnplugged = 2
    Null = Null
INVARIANTS NetHasItsBuffers RecordersFed
PROPERTIES NothingKept ComesUpWithRoom
