CONSTANTS
    p1 = p1
    p2 = p2
    t1 = t1
    t2 = t2
    t3 = t3
    k1 = k1
    k2 = k2
    s1 = s1
    Nobody = Nobody
    NoSeed = NoSeed
    Process = {p1}
    Thread = {t1}
    Home <- Alone
    Key = {k1}
    Stripe <- Shared
    Slots = 1
    Cooldown = 1
    MaxAge = 1
    MaxTime = 2
    Watched = {k1}
    Busy = FALSE
SPECIFICATION Spec
PROPERTIES
    RefusesNewer
