\* No faults: side chains, reorganisations and rewinds, and the search on the index.
SPECIFICATION Spec
CONSTANTS
    g = g  a1 = a1  a2 = a2  a3 = a3  b1 = b1  b2 = b2  b3 = b3  b4 = b4  b5 = b5  b6 = b6  x2 = x2
    Block <- LongTree
    Genesis <- g
    Parent <- LongTreeParent
    Height <- LongTreeHeight
    MaxHeight = 6
    NoBlock = NoBlock
    STABLE_LIMIT = 2
    Word = 64
    Offered = {}
    Faults = {}
    MaxCommits = 8
    MaxRewinds = 1
    MaxCrashes = 0
    WINDOW = 0
    SCAN = 3
INVARIANTS
    TopoIsOneChain
    TipsAreTheTop
    SearchFindsTheChain
PROPERTIES
    FollowsLongestChain
\* The bounds, and a tree whose blocks are all filed, let the node stop.
CHECK_DEADLOCK FALSE
