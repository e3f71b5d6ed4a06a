CONSTANTS
    r1 = r1
    r2 = r2
    s1 = s1
    s2 = s2
    Rule = {r1}
    Sub = {s1}
    Choices <- TwoChoices
    MaxAttempts = 2
    MaxEvents = 2
    MaxFaults = 1
SPECIFICATION FairSpec
INVARIANTS
    SentOnce
    TriesAreBounded
    RevokedIsForgotten
PROPERTIES
    EventsNeedACrossing
    DeliveriesEnd
