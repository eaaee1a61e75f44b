CONSTANTS
    d1 = d1
    d2 = d2
    Server = Server
    p1 = p1
    p2 = p2
    b1 = b1
    b2 = b2
    j1 = j1
    t1 = t1
    t2 = t2
    None = None
    Devices = {d1, d2}
    Pages = {p1}
    Blocks = {b1}
    Journals = {}
    PageOf <- OnePage
    Titles = {}
    Seeds <- BlockSeeds
    Commands <- Restoring
    HistoryLimit <- OneEntry
    MaxStamp = 8
SPECIFICATION Spec
INVARIANT SnapshotsAreAccepted
CHECK_DEADLOCK FALSE
