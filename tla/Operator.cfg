\* The constants of the extended modules: VickreySelection runs over every book of
\* three slots and two bidders, ties and empty slots included, prices 0..3 of which
\* 3 is out of the circuit's range; RevealPipeline over three bids, one failure, an
\* event service that looks back one tick, and somebody at the command line;
\* CommandLineProver over one auction in one terminal; MerkleWhitelist over every
\* list of up to one more than a tree of depth 2 holds.
SPECIFICATION AllSpec
CONSTANTS
    EmptyCommitment = EmptyCommitment
    NoFile = NoFile
    Calls = {"place_bid", "create_auction", "settle", "register"}
    TX_TIMEOUT = 2
    CONFIRM_POLL_LIMIT = 3
    POLL_FAILURE_LIMIT = 2
    MAX_BID_SLOTS = 2
    Funds = 1
    Faults = {5, 14, 19}
    RefusalCodes = {11}
    MaxAttempts = 2
    MaxOthers = 1
    MaxTime = 3
    MaxBidSlots = 3
    U64Max = 2
    PriceBound = 3
    Members <- MCMembers
    Bidders = {"a", "b"}
    Accounts = {"a", "b"}
    CustomMembers = {"a"}
    DEMO_WHITELIST_MEMBERS = {"a", "b"}
    Prices = {1, 2}
    Seals = {"opens"}
    Deadline = 2
    Grace = 1
    Skew = 0
    EVENT_LOOKBACK = 1
    CommandLine = TRUE
    MaxFaults = 1
    LastTick = 3
    Auctions = {1}
    Senders = {"x", "y"}
    SealedPrices = {1, 2}
    BidSeals = {"opens", "garbled"}
    MemberLists <- MCMemberLists
    Terminals = {"s"}
    MaxSittings = 1
    MaxWriteFaults = 1
    Addresses = {"x", "y", "z"}
    Invalid = {"not an address"}
    MERKLE_DEPTH = 2
INVARIANTS
    PartsTypeOK
    AnswersAreFinal
    SafeToRetry
    SelectsVickreyOutcome
    NeverAbortsASettleableAuction
    BundleIsTheOnlyOutcome
    OnlyTheWholeBookSettles
    ShownIsWhatSettled
    InputsAreProvable
    SittingsSettleTheWholeBook
    PathsProveMembership
PROPERTIES
    SentencesNameTheCause
CHECK_DEADLOCK FALSE
