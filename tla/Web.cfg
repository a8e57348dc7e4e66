\* The constants of the extended modules.  Three auctions in pages of one.
SPECIFICATION AllSpec
CONSTANTS
    ada = ada
    ben = ben
    None = None
    Sellers = {s1, s2}
    Addresses = {ada, ben}
    DEMO_WHITELIST_MEMBERS <- MCDemo
    MAX_WHITELIST_MEMBERS = 2
    Window = 3
    TX_TIMEOUT = 1
    MaxPresses = 2
    MaxTime = 2
    SECONDS_PER_LEDGER = 2
    LEDGERS_PER_DAY = 1
    MAX_TTL_EXTENSION_LEDGERS = 4
    TTL_LEDGERS = 3
    MinimumTtl = 1
    Gaps = {2, 3}
    Lifetimes = {2, 5, 9}
    Roots = {r1}
    MaxAuctions = 2
    MaxLedger = 6
    Clients = {p}
    Capacity = 4
    Cost = 2
    RetryAfter = 2
    StepBack = 3
    MaxClock = 6
    Runs = {"r1", "r2"}
    Wallets = {"x", "y"}
    Instances = {"standalone", "function"}
    Serverless = {"function"}
    COOLDOWN_MS = 2
    LastMs = 3
    Nobody = "nobody"
    PAGE_LIMIT = 1
    MAX_AUCTION_PROBES = 4
    OPEN_RANK_MULTIPLIER = 10
    Deadlines = {1, 3}
    NowSeconds = 1
    CLOSING_SOON_THRESHOLD_SECONDS = 1
    SymbolReads = {"ok"}
    MaxRowBids = 1
    MaxRows = 3
    MaxChanges = 5
    Auctions = {1, 2}
    Winners = {"w", "v"}
    Reads = {"p", "q"}
    InPlace = FALSE
    MaxBids = 0
    MaxFailures = 0
    MaxVisits = 2
INVARIANTS
    PartsTypeOK
    MembersBehindEveryAuction
    BiddersGetTheWindow
    NothingNeededIsArchived
    BoundedRate
    DoneMeansFunded
    CooldownIsExact
    WalksAreFaithful
    BothPathsAgree
    SummaryIsOfThisAuction
CHECK_DEADLOCK FALSE
