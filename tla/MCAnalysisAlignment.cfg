SPECIFICATION ASpec
CONSTANTS
    Domains = {"brand", "mail.brand", "esp"}
    Subdomains <- OneBrand
    Mails <- TwoSignatures
    FlawSets <- SomeFlaws
    Senders <- FromEsp
    None = None
    Absent = Absent
CHECK_DEADLOCK FALSE
INVARIANT AlignedIdentifierPassed
