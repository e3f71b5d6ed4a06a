CONSTANTS
    w1 = w1
    w2 = w2
    t1 = t1
    t2 = t2
    k1 = k1
    k2 = k2
    Nobody = Nobody
    Worker = {w1, w2}
    Thread = {t1, t2}
    Home <- OneEach
    Key = {k1, k2}
    UnboundedKey = {k2}
    BackgroundKey = {k1}
    Builds = 1
    SqliteBusy = TRUE
SPECIFICATION Spec
INVARIANTS
    PermitsAreExact
    OneBuilderPerKey
    BuildsAreNeeded
    NobodyWaits
