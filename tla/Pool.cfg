\* Two auctions sharing tokens, two bidders who also sell, one outage.
SPECIFICATION Spec
CONSTANTS
    alice = alice
    bob = bob
    carol = carol
    gold = gold
    cash = cash
    EmptyCommitment = EmptyCommitment
    Escrow = Escrow
    Accounts = {alice, bob}
    Tokens = {gold, cash}
    Listings <- PoolListings
    SealedBids <- PoolSealedBids
    Endowment <- PoolEndowment
    Prices = {1, 2}
    EncryptedLengths = {1}
    MAX_ENCRYPTED_BID_BYTES = 1
    MayTrap = {gold}
    MayRefuse = {}
    MaxBidSlots = 2
    U64Max = 4
    MaxOutages = 1
    MaxAuctions = 2
    MaxTime = 3
INVARIANTS
    Solvency
    EveryoneWhole
    GraceHonoured
PROPERTIES
    ImplementsIdealAuction
CHECK_DEADLOCK FALSE
