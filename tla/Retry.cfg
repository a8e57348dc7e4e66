SPECIFICATION Spec
CONSTANTS
    Calls = {"place_bid", "create_auction"}
    TX_TIMEOUT = 3
    CONFIRM_POLL_LIMIT = 2
    POLL_FAILURE_LIMIT = 2
    MAX_BID_SLOTS = 3
    Funds = 2
    Faults = {5}
    RefusalCodes = {11}
    MaxAttempts = 2
    MaxOthers = 0
    MaxTime = 4
INVARIANTS
    RetryIsSafe

CHECK_DEADLOCK FALSE
