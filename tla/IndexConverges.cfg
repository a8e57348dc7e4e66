\* Syncs fail and the process crashes; no read is skipped and no walk is cut short.
SPECIFICATION RunningSpec
CONSTANTS
    ann = ann
    ben = ben
    Null = Null
    Bidders = {ann}
    MAX_BID_SLOTS = 2
    MaxAuctions = 2
    MaxCalls = 5
    BACKFILL_MAX_ID = 1
    MAX_EVENT_PAGES = 2
    EVENT_PAGE_LIMIT = 2
    EVENT_LOOKBACK_LEDGERS = 2
    MayOutpaceWalk = FALSE
    MaxSkips = 0
    MaxRefusals = 1
    MaxCrashes = 1
PROPERTIES
    Converges
    ResumesFromLastSeen
