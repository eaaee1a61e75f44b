CONSTANTS
    d1 = d1
    d2 = d2
    e1 = e1
    e2 = e2
    f1 = f1
    t1 = t1
    t2 = t2
    k1 = k1
    k2 = k2
    note1 = note1
    note2 = note2
    b = b
    c = c
    named = named
    other = other
    png = png
    Pages = {note1, note2}
    Blocks = {b, c}
    Journals = {}
    PageOf <- PartsPageOf
    Titles = {named, other}
    None = None
    Hashes = {png}
    Mentions <- PartsMentions
    Scenarios <- PartsScenarios
    LastStamp = 6
    Devices = {1, 2}
    MaxCounter = 3
    MaxWall = 2
    MaxOps = 3
    Server = Server
    NoSpace = NoSpace
    Machines = {d1, d2}
    Edits = {e1, e2, f1}
    EditorOf <- PartsEditorOf
    MaxMoves = 1
    Tablets = {t1, t2}
    Strokes = {k1, k2}
    MaxVersions = 3
    MaxTurns = 1
    HistoryDepth = 2
SPECIFICATION PartsSpec
INVARIANTS StampsFollowKnowledge StampsAreUnique
INVARIANTS BaselineHolds OneWorkspace EditsSurviveFirstChoice
INVARIANTS ShowsWhatJoinersSee
INVARIANTS NoStrokeLost CleanShowsBase QuietPageIsCurrent
SYMMETRY InkSymmetry
CHECK_DEADLOCK FALSE
