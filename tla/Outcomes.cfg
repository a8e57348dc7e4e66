\* One auction, every book of up to three bids.
SPECIFICATION Spec
CONSTANTS
    alice = alice
    bob = bob
    carol = carol
    gold = gold
    cash = cash
    EmptyCommitment = EmptyCommitment
    Escrow = Escrow
    Accounts = {alice, bob, carol}
    Tokens = {gold, cash}
    Listings <- OutcomeListings
    SealedBids <- OutcomeSealedBids
    Endowment <- OutcomeEndowment
    Prices = {0, 1, 2, 3}
    EncryptedLengths = {1, 2}
    MAX_ENCRYPTED_BID_BYTES = 1
    MayTrap = {}
    MayRefuse = {}
    MaxBidSlots = 3
    U64Max = 4
    MaxOutages = 0
    MaxAuctions = 1
    MaxTime = 3
INVARIANTS
    TypeOK
    AtMostOneOutcome
PROPERTIES
    ProofsStayValid
    ImplementsIdealAuction
CHECK_DEADLOCK FALSE
