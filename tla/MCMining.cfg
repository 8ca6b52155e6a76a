\* A block of this node and one of another on g, one of this node on either; two transfers of one nonce reach the pools.
SPECIFICATION MiningSpec
CONSTANTS
    g = g  n1 = n1  o1 = o1  no = no  oo = oo
    t0 = t0  t1 = t1  t2 = t2  r = r  alice = alice  carol = carol
    Block <- Blocks
    Genesis = g
    Parent <- BlockParent
    Height <- BlockHeight
    MaxHeight = 2
    NoBlock = NoBlock
    Own <- MCOwn
    Transfer <- MCTransfer
    Registration <- MCRegistration
    Address <- MCAddress
    Pooled <- MCPooled
    Ref <- MCRef
    Sender <- MCSender
    Half <- MCHalf
    NetBody <- MCNetBody
    Past <- BlockPast
    STABLE_LIMIT = 1
    TX_VALIDITY_HEIGHT = 3
    Quorum = 2
    Recent = 1
    Young = 0
INVARIANTS
    MiningTypeOK
    TemplatesAreAcceptable
PROPERTIES
    VotesSurvive
    MiningStallsOnlyAtOwnHeights
