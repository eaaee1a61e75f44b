CONSTANTS
    d1 = d1
    d2 = d2
    Server = Server
    p1 = p1
    p2 = p2
    b1 = b1
    b2 = b2
    j1 = j1
    t1 = t1
    t2 = t2
    None = None
    Devices = {d1, d2}
    Pages = {p1}
    Blocks = {}
    Journals = {p1}
    PageOf <- OnePage
    Titles = {}
    Seeds <- NoSeeds
    Commands <- Journal
    HistoryLimit <- NoHistory
    MaxStamp = 5
SPECIFICATION Spec
INVARIANT Converged
CHECK_DEADLOCK FALSE
