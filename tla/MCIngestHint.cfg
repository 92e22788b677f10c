SPECIFICATION MCTSpec
CONSTANTS
    IPs = {c1}
    DailyCap = 2
    MinInterval = 2
    Hz = 2
    DayLength = 9
    MaxClock = 16
    MaxRuns = 0
    None = None
INVARIANT RetryHintSuffices
