\* A fork, token transfers, a coinbase whose integrator may be unregistered.
SPECIFICATION Spec
CONSTANTS
    g = g  b1 = b1  b2 = b2  b3 = b3  f1 = f1
    alice = alice  bob = bob  carol = carol  Token = Token  Base = Base
    Block <- Forked
    Genesis = g
    Parent <- ForkedParent
    Height <- ForkedHeight
    MaxHeight = 3
    Account <- People
    Asset = {Base, Token}
    Tx <- Wallets
    Coinbase <- Coinbases
    MiniBlocks = 2
    SoftFork = 2
    RootState <- Start
    TX_VALIDITY_HEIGHT = 3
    BaseReward = 5
    RewardReductionInterval = 2
    RegistrationBalance = 2
    MaxTxs = 2
CHECK_DEADLOCK FALSE
INVARIANTS
    TypeOK
    NoOverdraft
    SpendsSeeEarlierSpends
    SupplyIsConserved
    RingIsThere
