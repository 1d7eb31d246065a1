CONSTANTS
    p1 = p1
    p2 = p2
    p3 = p3
    Pools <- MCPools
    PoolSize = 40
    RequestSizes = {4, 20}
    PadSizes = {8, 40}
    UnsealedLimits = {2}
SYMMETRY MCSymmetry
SPECIFICATION Spec
INVARIANTS TypeOK BlocksDisjoint Aligned Accounting GrowsInPlace
PROPERTY OthersUntouched
