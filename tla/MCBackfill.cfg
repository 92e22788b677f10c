SPECIFICATION BSpec
CONSTANTS
    PairWindow = 1
    Legacy <- LegacyTables
    MaxLegacy = 4
    MaxId = 4
    MaxClock = 2
    MaxRuns = 2
    MaxDeletes = 1
CHECK_DEADLOCK FALSE
INVARIANTS WrongNeedsCause MissNeedsCause
PROPERTIES FillsOnly
