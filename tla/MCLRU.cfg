CONSTANTS
    CacheKeys = {k1, k2, k3, k4}
    Bodies = {b1, b2}
    Sizes = {0, 2, 3, 6}
    MaxTTL = 1
    maxEntries = 3
    maxBytes = 5
    Nil = Nil
SYMMETRY Symmetry
SPECIFICATION LRUSpec
INVARIANTS Consistent
PROPERTIES EvictsOldest ImplementsLossyStore
