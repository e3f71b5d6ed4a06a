CONSTANTS
    w1 = w1
    w2 = w2
    t1 = t1
    t2 = t2
    t3 = t3
    t4 = t4
    c1 = c1
    c2 = c2
    c3 = c3
    NoConn = NoConn
    Worker = {w1, w2}
    Thread = {t1, t2, t3}
    Conn = {c1, c2}
    Home <- TwoAndOne
    MaxSize = 1
    Capacity = 1
SPECIFICATION Spec
SYMMETRY ConnSymmetry
INVARIANTS
    HostCeiling
