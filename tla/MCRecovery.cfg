SPECIFICATION FairSpec
CONSTANTS
    Cooldown = 2
    DiagCooldown = 2
    MaxTroubles = 2
    Messages = {m1}
    Complaints = {m1}
    Reactions = {"queued", "bounced"}
    MaxFaults = 1
INVARIANTS DeliveredIsStored TwiceNeedsDoubt DiagnosisTrue
PROPERTIES PipeImplementsDelivery HealsSpaced DiagsSpaced ApiComesBack MailSettles
