\* One bidder's account may stop receiving for ever.
SPECIFICATION CallersSpec
CONSTANTS
    alice = alice
    bob = bob
    carol = carol
    gold = gold
    cash = cash
    EmptyCommitment = EmptyCommitment
    Escrow = Escrow
    Accounts = {alice, bob}
    Tokens = {gold, cash}
    Listings <- OutageListings
    SealedBids <- OutageSealedBids
    Endowment <- OutageEndowment
    Prices = {1, 2}
    EncryptedLengths = {1}
    MAX_ENCRYPTED_BID_BYTES = 1
    MayTrap = {}
    MayRefuse <- BobRefuses
    MaxBidSlots = 2
    U64Max = 4
    MaxOutages = 1
    MaxAuctions = 1
    MaxTime = 3
PROPERTIES
    NoPathStrandsFunds
CHECK_DEADLOCK FALSE
