CONSTANTS
    loop = loop
    bridge = bridge
    p1 = p1
    p2 = p2
    m1 = m1
    m2 = m2
    NoProc = NoProc
    NoMsg = NoMsg
    Proc = {loop, bridge}
    Catalog = {loop}
    Panel = {p1, p2}
    Msg = {m1, m2}
    PanelOf <- PanelOfTwo
    Enabled = {m1, m2}
    Parts = 2
    MaxEntries = 1
    MayFail = TRUE
SPECIFICATION FairSpec
INVARIANTS
    SentMeansDelivered
    RepostsAreExcused
    NoBacklog
PROPERTIES
    EveryMessageIsHandled
