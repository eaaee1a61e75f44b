CONSTANTS
    d1 = d1
    d2 = d2
    Server = Server
    NoSpace = NoSpace
    e1 = e1
    e2 = e2
    f1 = f1
    Machines = {d1, d2}
    Edits = {e1, e2, f1}
    EditorOf <- MCEditorOf
    MaxMoves = 1
SPECIFICATION BootSpec
INVARIANTS EditsSurvive
CHECK_DEADLOCK FALSE
