CONSTANTS
    d1 = d1
    d2 = d2
    Server = Server
    p1 = p1
    p2 = p2
    b1 = b1
    b2 = b2
    j1 = j1
    t1 = t1
    t2 = t2
    None = None
    Devices = {d1, d2}
    Pages = {p1, p2, j1}
    Blocks = {b1, b2}
    Journals = {j1}
    PageOf <- OnePage
    Titles = {t1}
    Seeds <- PageSeeds
    Commands <- Undoing
    TreeCommands <- Tree
    NamingCommands <- Naming
    HistoryLimit <- TwoEntries
    AdoptingCommands <- Adopting
    FewStamps = 5
    MaxStamp = 6
SPECIFICATION ScenariosSpec
INVARIANTS NothingRefused Forest
INVARIANTS KeptThroughout Generations SnapshotsCarryOver
INVARIANTS TitlesUnique
PROPERTY MovesOverwriteAdopted
CHECK_DEADLOCK FALSE
