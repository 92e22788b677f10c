SPECIFICATION MCTSpec
CONSTANTS
    IPs = {c1}
    DailyCap = 2
    MinInterval = 2
    Hz = 2
    DayLength = 9
    MaxClock = 19
    MaxRuns = 1
    None = None
INVARIANTS DailyCapKept SpacingKept RefusalsFair RetryHintNearly
