SPECIFICATION MCSpec
CONSTANTS
    Messages = {m1}
    ItemIds = {f1, f2}
    Envelopes <- OneComplaint
    RetryInterval = 1
    MaxRetryWindow = 1
    RateCapSize = 1
    RateWindow = 1
    MaxFaults = 0
    None = None
INVARIANT ComplaintMakesTwoRows
