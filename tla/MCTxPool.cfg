\* A transfer with two nonces, two registrations of one address, a chain of three blocks.
SPECIFICATION PoolSpec
CONSTANTS
    g = g  b1 = b1  b2 = b2  b3 = b3
    t1 = t1  r1 = r1  r2 = r2
    alice = alice  carol = carol  native = native  token = token
    Block <- Chain
    Genesis = g
    Parent <- ChainParent
    Height <- ChainHeight
    MaxHeight = 3
    NoBlock = NoBlock
    Transfer <- MCTransfer
    Registration <- MCRegistration
    NoTx = NoTx
    Keys <- MCKeys
    Ref <- MCRef
    Sender <- MCSender
    Body <- MCBody
    Past <- ChainPast
    STABLE_LIMIT = 1
    TX_VALIDITY_HEIGHT = 4
    MaxCalls = 1
INVARIANTS
    PoolTypeOK
    PooledKeysAreMarked
    NoMarkIsLeftBehind
PROPERTIES
    OutdatedTransfersLeave
    RegisteredLeave
