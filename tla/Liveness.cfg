\* The escrow: both tokens may trap and two receivers may refuse.  The constants
\* of the other parts stand in the module.
SPECIFICATION AllSpec
CONSTANTS
    None = None
    alice = alice
    bob = bob
    carol = carol
    gold = gold
    cash = cash
    EmptyCommitment = EmptyCommitment
    Escrow = Escrow
    Accounts = {alice, bob}
    Tokens = {gold, cash}
    Listings <- OutageListings
    SealedBids <- OutageSealedBids
    Endowment <- OutageEndowment
    Prices = {1, 2}
    EncryptedLengths = {1}
    MAX_ENCRYPTED_BID_BYTES = 1
    MayTrap = {gold, cash}
    MayRefuse <- OutageRefusals
    MaxBidSlots = 2
    U64Max = 4
    MaxOutages = 2
    MaxAuctions = 1
    MaxTime = 3
PROPERTIES
    LotsLeaveWhenOutagesEnd
    DepositsReturn
    SubmissionEnds
    SettleableEndsSettled
    RoomCatchesUp
CHECK_DEADLOCK FALSE
