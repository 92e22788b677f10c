SPECIFICATION RSpec
CONSTANTS
    Urls = {u1, u2, mailto}
    HttpUrls = {u1, u2}
    MaxHops = 3
    Budget = 3
    MaxLookup = 1
    MaxRequest = 2
    None = None
CHECK_DEADLOCK FALSE
INVARIANTS ChainAccounts UnverifiedIsFlagged OverrunIsOneHop
PROPERTY TraceEnds
