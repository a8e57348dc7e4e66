\* One read fails once.
SPECIFICATION RunningSpec
CONSTANTS
    ann = ann
    ben = ben
    Null = Null
    Bidders = {ann}
    MAX_BID_SLOTS = 2
    MaxAuctions = 2
    MaxCalls = 3
    BACKFILL_MAX_ID = 2
    MAX_EVENT_PAGES = 3
    EVENT_PAGE_LIMIT = 3
    EVENT_LOOKBACK_LEDGERS = 6
    MayOutpaceWalk = FALSE
    MaxSkips = 1
    MaxRefusals = 0
    MaxCrashes = 0
PROPERTIES
    SkippedIsRetried
