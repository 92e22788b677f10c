SPECIFICATION MCSpec
CONSTANTS
    Messages = {m1}
    ItemIds = {f1, f2}
    Envelopes <- Mixed
    RetryInterval = 1
    MaxRetryWindow = 1
    RateCapSize = 1
    RateWindow = 1
    MaxFaults = 1
    None = None
SYMMETRY Symmetry
INVARIANTS AckedIsHeld DuplicateNeedsDoubt PostsBounded ReportFollowsCapture WindowCap RefusalJustified
PROPERTIES RemovalJustified ImplementsDelivery
