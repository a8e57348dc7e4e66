\* More events await than a walk can bring.
SPECIFICATION RunningSpec
CONSTANTS
    ann = ann
    ben = ben
    Null = Null
    Bidders = {ann}
    MAX_BID_SLOTS = 2
    MaxAuctions = 2
    MaxCalls = 5
    BACKFILL_MAX_ID = 1
    MAX_EVENT_PAGES = 2
    EVENT_PAGE_LIMIT = 1
    EVENT_LOOKBACK_LEDGERS = 2
    MayOutpaceWalk = TRUE
    MaxSkips = 0
    MaxRefusals = 0
    MaxCrashes = 0
PROPERTIES
    ResumesFromLastSeen
