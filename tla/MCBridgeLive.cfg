SPECIFICATION MCFairSpec
CONSTANTS
    Messages = {m1}
    ItemIds = {f1, f2}
    Envelopes <- OneCheck
    RetryInterval = 1
    MaxRetryWindow = 1
    RateCapSize = 1
    RateWindow = 0
    MaxFaults = 1
    None = None
PROPERTIES QueueDrains SendersSettle
