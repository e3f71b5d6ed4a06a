CONSTANTS
    w1 = w1
    w2 = w2
    t1 = t1
    t2 = t2
    t3 = t3
    k1 = k1
    Nobody = Nobody
    Worker = {w1, w2}
    Thread = {t1, t2, t3}
    Key = {k1}
    ListKey = {}
    Home <- TwoAndOne
    Slots = 2
    RedisFaults = TRUE
    Slow = {t1}
SPECIFICATION Spec
INVARIANTS
    AdmissionIsExact
    OneBuilder
PROPERTIES
    OnlyOwnerUnleases
