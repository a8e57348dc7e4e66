\* Every fault may happen, and a sync may stop at the page bound.
SPECIFICATION Spec
CONSTANTS
    ann = ann
    ben = ben
    Null = Null
    Bidders = {ann, ben}
    MAX_BID_SLOTS = 2
    MaxAuctions = 2
    MaxCalls = 5
    BACKFILL_MAX_ID = 1
    MAX_EVENT_PAGES = 2
    EVENT_PAGE_LIMIT = 2
    EVENT_LOOKBACK_LEDGERS = 2
    MayOutpaceWalk = TRUE
    MaxSkips = 1
    MaxRefusals = 1
    MaxCrashes = 1
INVARIANTS
    TypeOK
    RowsTellTheTruth
PROPERTIES
    RowsNeverRegress
SYMMETRY BidderSymmetry
