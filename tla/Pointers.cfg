SPECIFICATION Spec
CONSTANTS
    p1 = p1
    p2 = p2
    p3 = p3
    h1 = h1
    h2 = h2
    kMaxBlocksPerAllocation = 2
    Value <- MCValue
    MaxThrows = 1
    PoolSlots <- MCPoolSlots
    HeapSlots <- MCHeapSlots
    PoolOf <- MCPoolOf
INVARIANTS
    ObjectsMatchOwners
    EveryBlockAccounted
    Footprint
PROPERTY ImplementsBox
