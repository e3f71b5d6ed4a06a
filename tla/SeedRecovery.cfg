CONSTANTS
    p1 = p1
    p2 = p2
    t1 = t1
    t2 = t2
    t3 = t3
    k1 = k1
    k2 = k2
    s1 = s1
    Nobody = Nobody
    NoSeed = NoSeed
    Process = {p1, p2}
    Thread = {t1, t2, t3}
    Home <- TwoAndOne
    Key = {k1}
    Stripe <- Shared
    Slots = 1
    Cooldown = 1
    MaxAge = 1
    MaxTime = 1
    Watched = {k1}
    Busy = TRUE
SPECIFICATION Spec
SYMMETRY ThreadSymmetry
INVARIANTS
    AdmissionIsExact
PROPERTIES
    RecoveriesRefuseNewer
