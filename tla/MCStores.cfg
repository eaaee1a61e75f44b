CONSTANTS
    a1 = a1
    a2 = a2
    x = x
    y = y
    Docs = {a1, a2}
    Texts = {x, y}
    Absent = Absent
    Models = {m, n}
    MaxEdits = 2
    MaxSwitches = 1
    MaxResets = 1
    Blocks = {b1, b2}
    Phrases = {x, y}
    Short = {y}
    Silent = Silent
    Names = {n1, n2}
    MaxWrites = 3
    MaxStarts = 2
    Documents = {doc}
    Assets = {img}
    MaxChanges = 1
    MaxDryRuns = 2
    MaxEvents = 2
    None = None
    Plain = Plain
    Wide = Wide
    Split = Split
    Other = Other
    Day = Day
    LongDay = LongDay
    u = u
    todo = todo
    img = img
    data = data
    gone = gone
    sketch = sketch
    TabStop = TabStop
    Blank = Blank
    Titles <- GraphTitles
    NfcKey <- GraphNfc
    NfkcKey <- GraphNfkc
    Spellings <- GraphSpellings
    Manifest <- GraphManifest
    Inline = {data}
    Cases <- GraphCases
    MaxNesting = 1
    t1 = t1
    t2 = t2
    att = att
    copy = copy
    leaf = leaf
    h1 = h1
    h2 = h2
    Hosts = {t1, t2}
    Exiting = {t1}
    Uploads = {att, copy, leaf}
    Drawings = {leaf}
    HostOf <- Writers
    BlobsOf <- HashOf
    Quotas = {2}
    MaxFailures = 1
    Installers = {i1, i2}
    Openers = {o1}
    Removers = {r1}
    Earlier = Earlier
    NoFile = NoFile
SPECIFICATION PartsSpec
INVARIANTS IndexedOrQueued ExtractedOrQueued EntitiesAreNamed
INVARIANTS ImportIsOneMoment RowsHaveFiles FetchableOrOwed
INVARIANTS ReportedStays
INVARIANTS PreviewKeepsItsWord OutlineIsKept ContentLandsAsPlanned
PROPERTIES ActivatedComplete
CHECK_DEADLOCK FALSE
