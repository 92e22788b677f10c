SPECIFICATION MCSpec
CONSTANTS
    Messages = {m1}
    ItemIds = {f1, f2}
    Envelopes <- OneCheck
    RetryInterval = 1
    MaxRetryWindow = 1
    RateCapSize = 1
    RateWindow = 1
    MaxFaults = 1
    None = None
PROPERTY DroppedOnlyAfterWindow
