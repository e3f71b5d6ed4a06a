CONSTANTS
    MaxUpdate = 2
    Limit = 2
    Kinds = {"query", "alert", "remove", "other"}
    Copies = 2
    Faults = {"refuse", "poll", "send", "save", "kill", "read"}
SPECIFICATION BotFairSpec
INVARIANTS
    NoCommandSkipped
    DoneMeansNotified
    AlertsAreKept
    DuplicatesAreExcused
PROPERTIES
    QueriesAreAnswered
