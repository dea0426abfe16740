SPECIFICATION Spec
CONSTANTS
    ChunksPerBlock = 2
    MaxBlocks = 2
INVARIANT
    TypeOK
PROPERTIES
    PoolImplementsObjects
    GrowsOnlyWhenFull
