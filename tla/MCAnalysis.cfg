SPECIFICATION ASpec
CONSTANTS
    Domains = {"brand", "mail.brand", "esp"}
    Subdomains <- OneBrand
    Mails <- AllMails
    FlawSets <- SomeFlaws
    Senders <- AllSenders
    None = None
    Absent = Absent
CHECK_DEADLOCK FALSE
INVARIANTS ReceiverVerdictKept PassNotContradicted LocalPassIsAligned GradeAIsClean
