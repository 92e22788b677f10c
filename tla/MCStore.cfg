SPECIFICATION SSpec
CONSTANTS
    Sessions = {s1, s2}
    MaxId = 2
    Mails = {m1, m2}
    SeedMails = 1
    Verdicts <- TwoColumns
    None = None
SYMMETRY Symmetry
INVARIANTS LoadedIsCurrent DeletedStaysDeleted AnswerIsOwn MixedNeedsRace WaitsUpward
PROPERTY CountedIsGone
